-------------------------- MODULE ConfigLoad_proofs --------------------------
(***************************************************************************)
(* Proofs about ConfigLoad, for any number of loaders, any files and any   *)
(* parser: nothing here looks into newCronParser.                          *)
(***************************************************************************)
EXTENDS ConfigLoad, TLAPS

(***************************************************************************)
(* The inductive invariant.  PrefixIsLoaded needs to know that an entry    *)
(* which has been found stays usable while its loader waits for taskMu     *)
(* (Waiting), that entries behind a loader are complete, so that a later   *)
(* registration under their name is one that counts (Behindhand), that a   *)
(* file is read before anything of it is loaded (Unopened), and that       *)
(* history holds the present (Registered).  ReloadNeedsRemoval follows     *)
(* from it with OnePerID.                                                  *)
(***************************************************************************)
Waiting == \A l \in Loader : at[l] = "add" =>
              /\ HasEntry(l) /\ ~Incomplete(entry(l))
              /\ Parser(entry(l)) # Refused
              /\ fn[l] \in seen[entry(l).func] \cap Wrappable

Behindhand == \A l \in Loader : \A j \in DOMAIN config[l] :
                 j < k[l] => ~Incomplete(config[l][j])

Unopened == \A l \in Loader : at[l] = "read" =>
               k[l] = 1 /\ \A t \in tasks, j \in Nat : t.origin # <<l, j>>

Registered == \A n \in Name : registry[n] \in seen[n]

OnePerID == \A t, u \in tasks : t.id = u.id => t = u

Strengthening == Waiting /\ Behindhand /\ Unopened /\ Registered /\ OnePerID

IInv == TypeOK /\ Strengthening /\ PrefixIsLoaded

-----------------------------------------------------------------------------
\* An entry of a file is an Entry, and its indices are positive.
LEMMA EntryType ==
    ASSUME TypeOK, NEW l \in Loader, NEW j \in DOMAIN config[l]
    PROVE  config[l][j] \in Entry /\ j \in Nat \ {0}
<1>1. PICK c \in Config \cup {<<>>} : config[l] = c
  BY DEF TypeOK
<1>2. CASE c \in Config
  <2>1. c \in Seq(Entry)
    BY <1>2, ConfigAssumption
  <2> QED BY <1>1, <2>1
<1>3. CASE c = <<>>
  BY <1>1, <1>3
<1> QED BY <1>2, <1>3

\* What a complete entry names.
LEMMA CompleteEntry ==
    ASSUME NEW e \in Entry, ~Incomplete(e)
    PROVE  e.id \in ID /\ e.func \in Name
BY DEF Entry, Incomplete

LEMMA InitIInv == Init => IInv
<1> SUFFICES ASSUME Init PROVE IInv
  OBVIOUS
<1>1. TypeOK
  BY DEF Init, TypeOK
<1>2. Strengthening
  BY DEF Init, Strengthening, Waiting, Behindhand, Unopened, Registered, OnePerID
<1>3. PrefixIsLoaded
  BY DEF Init, PrefixIsLoaded
<1> QED BY <1>1, <1>2, <1>3 DEF IInv

-----------------------------------------------------------------------------
LEMMA TypeStep == IInv /\ [Next]_vars => TypeOK'
<1> SUFFICES ASSUME IInv, [Next]_vars PROVE TypeOK'
  OBVIOUS
<1> USE DEF IInv, TypeOK
<1>1. ASSUME NEW l \in Loader, Read(l) PROVE TypeOK'
  BY <1>1 DEF Read, Goto
<1>2. ASSUME NEW l \in Loader, ReadFails(l) \/ LookupFails(l) \/ AddFails(l) \/ LoadEnds(l)
      PROVE  TypeOK'
  BY <1>2 DEF ReadFails, LookupFails, AddFails, LoadEnds, Goto
<1>3. ASSUME NEW l \in Loader, Lookup(l) PROVE TypeOK'
  <2>1. entry(l) \in Entry
    BY <1>3, EntryType DEF Lookup, HasEntry, entry
  <2>2. entry(l).func \in Name
    BY <1>3, <2>1, CompleteEntry DEF Lookup, Found
  <2>3. registry[entry(l).func] \in Fn \cup {None}
    BY <2>2
  <2> QED BY <1>3, <2>3 DEF Lookup, Goto
<1>4. ASSUME NEW l \in Loader, Add(l) PROVE TypeOK'
  <2>1. /\ entry(l) \in Entry /\ ~Incomplete(entry(l))
        /\ Parser(entry(l)) # Refused /\ fn[l] \in Wrappable
    BY <1>4, EntryType DEF Add, Strengthening, Waiting, HasEntry, entry
  <2>2. entry(l).id \in ID
    BY <2>1, CompleteEntry
  <2> DEFINE new == TaskOf(entry(l), fn[l], <<l, k[l]>>)
  <2>3. new.id \in ID /\ new.fn \in Wrappable /\ new.parser # Refused
    BY <2>1, <2>2 DEF TaskOf
  <2>4. \A t \in tasks' : t.id \in ID /\ t.fn \in Wrappable /\ t.parser # Refused
    BY <1>4, <2>3 DEF Add
  <2> QED BY <1>4, <2>4 DEF Add, Goto
<1>5. ASSUME NEW n \in Name, NEW f \in Fn, RegisterJob(n, f) PROVE TypeOK'
  BY <1>5 DEF RegisterJob
<1>6. ASSUME NEW t \in tasks, RemoveTask(t) PROVE TypeOK'
  BY <1>6 DEF RemoveTask
<1>7. CASE UNCHANGED vars
  BY <1>7 DEF vars
<1> QED BY <1>1, <1>2, <1>3, <1>4, <1>5, <1>6, <1>7 DEF Next

\* The history of a name only grows.
LEMMA SeenGrows ==
    ASSUME TypeOK, NEW n \in Name, NEW f \in Fn, RegisterJob(n, f), NEW m \in Name
    PROVE  seen[m] \subseteq seen'[m] /\ registry'[m] \in seen'[m] \cup {registry[m]}
BY DEF TypeOK, RegisterJob

LEMMA StrengtheningStep == IInv /\ [Next]_vars => Strengthening'
<1> SUFFICES ASSUME IInv, [Next]_vars PROVE Strengthening'
  OBVIOUS
<1>0. TypeOK /\ Waiting /\ Behindhand /\ Unopened /\ Registered /\ OnePerID
  BY DEF IInv, Strengthening
<1> USE DEF HasEntry, entry, Goto
<1>1. ASSUME NEW l \in Loader, Read(l) PROVE Strengthening'
  <2>1. k[l] = 1 /\ at'[l] = "lookup" /\ at[l] = "read"
    BY <1>0, <1>1 DEF Read, TypeOK, Unopened
  <2>2. \A m \in Loader : m # l => config'[m] = config[m] /\ at'[m] = at[m]
    BY <1>0, <1>1 DEF Read, TypeOK
  <2>3. Waiting'
    BY <1>0, <1>1, <2>1, <2>2 DEF Read, Waiting
  <2>4. Behindhand'
    <3> SUFFICES ASSUME NEW m \in Loader, NEW j \in DOMAIN config'[m], j < k'[m]
                 PROVE  ~Incomplete(config'[m][j])
      BY DEF Behindhand
    <3>1. CASE m = l
      <4>1. config'[l] \in Config
        BY <1>0, <1>1 DEF Read, TypeOK
      <4>2. config'[l] \in Seq(Entry)
        BY <4>1, ConfigAssumption
      <4> QED BY <3>1, <4>2, <2>1, <1>1 DEF Read
    <3>2. CASE m # l
      BY <1>0, <1>1, <2>2, <3>2 DEF Read, Behindhand
    <3> QED BY <3>1, <3>2
  <2> QED BY <1>0, <1>1, <2>3, <2>4 DEF Read, Strengthening, Unopened, Registered, OnePerID, TypeOK
<1>2. ASSUME NEW l \in Loader, ReadFails(l) \/ LookupFails(l) \/ AddFails(l) \/ LoadEnds(l)
      PROVE  Strengthening'
  <2>1. /\ \A m \in Loader : at'[m] = "add" => at[m] = "add"
        /\ \A m \in Loader : at'[m] = "read" => at[m] = "read"
        /\ UNCHANGED <<registry, tasks, config, k, fn, seen, removed>>
    BY <1>0, <1>2 DEF ReadFails, LookupFails, AddFails, LoadEnds, TypeOK
  <2> QED BY <1>0, <2>1 DEF Strengthening, Waiting, Behindhand, Unopened, Registered, OnePerID
<1>3. ASSUME NEW l \in Loader, Lookup(l) PROVE Strengthening'
  <2>1. entry(l) \in Entry /\ ~Incomplete(entry(l))
    BY <1>0, <1>3, EntryType DEF Lookup, Found
  <2>2. entry(l).func \in Name
    BY <2>1, CompleteEntry
  <2>3. fn'[l] = registry[entry(l).func] /\ fn'[l] \in seen[entry(l).func] \cap Wrappable
    BY <1>0, <1>3, <2>2 DEF Lookup, Found, Unusable, Registered, TypeOK
  <2>4. \A m \in Loader : m # l => fn'[m] = fn[m] /\ at'[m] = at[m]
    BY <1>0, <1>3 DEF Lookup, TypeOK
  <2>5. at'[l] = "add"
    BY <1>0, <1>3 DEF Lookup, TypeOK
  <2>6. Waiting'
    BY <1>0, <1>3, <2>1, <2>3, <2>4 DEF Lookup, Waiting, Found, Unusable
  <2>7. Unopened'
    BY <1>0, <1>3, <2>4, <2>5 DEF Lookup, Unopened
  <2> QED BY <1>0, <1>3, <2>6, <2>7 DEF Lookup, Strengthening, Behindhand, Registered, OnePerID
<1>4. ASSUME NEW l \in Loader, Add(l) PROVE Strengthening'
  <2>1. at[l] = "add" /\ at'[l] = "lookup" /\ k'[l] = k[l] + 1 /\ k[l] \in Nat \ {0}
    BY <1>0, <1>4 DEF Add, TypeOK
  <2>2. \A m \in Loader : m # l => k'[m] = k[m] /\ at'[m] = at[m]
    BY <1>0, <1>4 DEF Add, TypeOK
  <2>3. Waiting'
    BY <1>0, <1>4, <2>1, <2>2 DEF Add, Waiting
  <2>4. Behindhand'
    <3> SUFFICES ASSUME NEW m \in Loader, NEW j \in DOMAIN config[m], j < k'[m]
                 PROVE  ~Incomplete(config[m][j])
      BY <1>4 DEF Behindhand, Add
    <3>1. j \in Nat
      BY <1>0, EntryType
    <3>2. CASE m = l /\ j = k[l]
      BY <1>0, <2>1, <3>2 DEF Waiting
    <3>3. CASE ~(m = l /\ j = k[l])
      BY <1>0, <2>1, <2>2, <3>1, <3>3 DEF Behindhand
    <3> QED BY <3>2, <3>3
  <2>5. OnePerID'
    <3> DEFINE new == TaskOf(entry(l), fn[l], <<l, k[l]>>)
    <3>1. new.id = entry(l).id
      BY DEF TaskOf
    <3>2. \A t \in tasks : t.id # new.id
      BY <1>4, <3>1 DEF Add, TaskExist
    <3>3. tasks' = tasks \cup {new}
      BY <1>4 DEF Add
    <3> HIDE DEF new
    <3> QED BY <1>0, <3>2, <3>3 DEF OnePerID
  <2>6. Unopened'
    <3> DEFINE new == TaskOf(entry(l), fn[l], <<l, k[l]>>)
    <3>1. new.origin = <<l, k[l]>> /\ tasks' = tasks \cup {new}
      BY <1>4 DEF Add, TaskOf
    <3> HIDE DEF new
    <3> SUFFICES ASSUME NEW m \in Loader, at'[m] = "read"
                 PROVE  k'[m] = 1 /\ \A t \in tasks', j \in Nat : t.origin # <<m, j>>
      BY DEF Unopened
    <3>2. m # l /\ at[m] = "read"
      BY <2>1, <2>2
    <3> QED BY <1>0, <2>2, <3>1, <3>2 DEF Unopened
  <2> QED BY <1>0, <1>4, <2>3, <2>4, <2>5, <2>6 DEF Add, Strengthening, Registered
<1>5. ASSUME NEW n \in Name, NEW f \in Fn, RegisterJob(n, f) PROVE Strengthening'
  <2>1. Registered'
    BY <1>0, <1>5, SeenGrows DEF Registered
  <2>2. Waiting'
    <3> SUFFICES ASSUME NEW l \in Loader, at[l] = "add"
                 PROVE  fn[l] \in seen'[entry(l).func] \cap Wrappable
      BY <1>0, <1>5 DEF Waiting, RegisterJob
    <3>1. entry(l).func \in Name
      BY <1>0, EntryType, CompleteEntry DEF Waiting
    <3> QED BY <1>0, <1>5, <3>1, SeenGrows DEF Waiting
  <2> QED BY <1>0, <1>5, <2>1, <2>2 DEF RegisterJob, Strengthening, Behindhand, Unopened, OnePerID
<1>6. ASSUME NEW t \in tasks, RemoveTask(t) PROVE Strengthening'
  BY <1>0, <1>6 DEF RemoveTask, Strengthening, Waiting, Behindhand, Unopened, Registered, OnePerID
<1>7. CASE UNCHANGED vars
  BY <1>0, <1>7 DEF vars, Strengthening, Waiting, Behindhand, Unopened, Registered, OnePerID
<1> QED BY <1>1, <1>2, <1>3, <1>4, <1>5, <1>6, <1>7 DEF Next

-----------------------------------------------------------------------------
\* Reasons to refuse an entry do not go away.
LEMMA MayFailStays ==
    ASSUME TypeOK, NEW e \in Entry, MayFail(e),
           \/ UNCHANGED <<seen, tasks, removed>>
           \/ \E n \in Name, f \in Fn : RegisterJob(n, f)
           \/ \E t \in tasks : RemoveTask(t)
           \/ \E l \in Loader : Add(l)
    PROVE  MayFail(e)'
<1>1. Incomplete(e) => MayFail(e)'
  BY DEF MayFail
<1>2. ASSUME ~Incomplete(e), NEW f \in seen[e.func], f = None \/ Unusable(e, f)
      PROVE  MayFail(e)'
  <2>1. e.func \in Name
    BY <1>2, CompleteEntry
  <2>2. seen[e.func] \subseteq seen'[e.func]
    BY <2>1, SeenGrows DEF Add, RemoveTask
  <2> QED BY <1>2, <2>2 DEF MayFail, Unusable
<1>3. TaskExist(e.id) \/ e.id \in removed => MayFail(e)'
  BY DEF MayFail, TaskExist, RegisterJob, RemoveTask, Add
<1> QED BY <1>1, <1>2, <1>3 DEF MayFail

\* Nor does what has been loaded, but by a removal.
LEMMA LoadedStays ==
    ASSUME TypeOK, NEW l \in Loader, NEW j \in DOMAIN config[l],
           Loaded(l, j), ~Incomplete(config[l][j]), config'[l] = config[l],
           \/ UNCHANGED <<seen, tasks, removed>>
           \/ \E n \in Name, f \in Fn : RegisterJob(n, f)
           \/ \E t \in tasks : RemoveTask(t)
           \/ \E m \in Loader : Add(m)
    PROVE  Loaded(l, j)'
<1> DEFINE e == config[l][j]
<1>1. CASE e.id \in removed
  <2>1. removed \subseteq removed'
    BY DEF RegisterJob, RemoveTask, Add
  <2> QED BY <1>1, <2>1 DEF Loaded
<1>2. ASSUME NEW f \in seen[e.func] \cap Wrappable, TaskOf(e, f, <<l, j>>) \in tasks
      PROVE  Loaded(l, j)'
  <2>1. e.func \in Name
    BY EntryType, CompleteEntry
  <2>2. seen[e.func] \subseteq seen'[e.func]
    BY <2>1, SeenGrows DEF Add, RemoveTask
  <2>3. TaskOf(e, f, <<l, j>>).id = e.id
    BY DEF TaskOf
  <2>4. TaskOf(e, f, <<l, j>>) \in tasks' \/ e.id \in removed'
    BY <1>2, <2>3 DEF RegisterJob, RemoveTask, Add
  <2> QED BY <1>2, <2>2, <2>4 DEF Loaded, TaskOf
<1> QED BY <1>1, <1>2 DEF Loaded

\* A step that adds nothing and moves no loader keeps the prefixes.
LEMMA PrefixKept ==
    ASSUME IInv, UNCHANGED <<at, config, k>>, tasks' \subseteq tasks,
           \/ UNCHANGED <<seen, tasks, removed>>
           \/ \E n \in Name, f \in Fn : RegisterJob(n, f)
           \/ \E t \in tasks : RemoveTask(t)
    PROVE  PrefixIsLoaded'
<1> USE DEF HasEntry, entry
<1>0. TypeOK /\ Behindhand /\ PrefixIsLoaded
  BY DEF IInv, Strengthening
<1> SUFFICES ASSUME NEW l \in Loader
             PROVE  /\ \A j \in DOMAIN config[l] :
                          IF j < k[l] THEN Loaded(l, j)' ELSE \A t \in tasks' : t.origin # <<l, j>>
                    /\ at[l] = "ok" => ~HasEntry(l)
                    /\ at[l] = "error" => HasEntry(l) /\ MayFail(entry(l))'
  BY DEF PrefixIsLoaded
<1>1. ASSUME NEW j \in DOMAIN config[l], j < k[l] PROVE Loaded(l, j)'
  <2>1. Loaded(l, j)
    BY <1>0, <1>1 DEF PrefixIsLoaded
  <2>2. ~Incomplete(config[l][j])
    BY <1>0, <1>1 DEF Behindhand
  <2> QED BY <1>0, <2>1, <2>2, LoadedStays
<1>2. ASSUME NEW j \in DOMAIN config[l], ~(j < k[l]), NEW t \in tasks'
      PROVE  t.origin # <<l, j>>
  BY <1>0, <1>2 DEF PrefixIsLoaded
<1>3. at[l] = "ok" => ~HasEntry(l)
  BY <1>0 DEF PrefixIsLoaded
<1>4. ASSUME at[l] = "error" PROVE HasEntry(l) /\ MayFail(entry(l))'
  <2>1. HasEntry(l) /\ MayFail(entry(l))
    BY <1>0, <1>4 DEF PrefixIsLoaded
  <2>2. entry(l) \in Entry
    BY <1>0, <2>1, EntryType
  <2>3. ASSUME NEW e \in Entry, MayFail(e) PROVE MayFail(e)'
    BY <1>0, <2>3, MayFailStays
  <2> QED BY <2>1, <2>2, <2>3 DEF MayFail, Incomplete, Unusable, TaskExist, Parser
<1> QED BY <1>1, <1>2, <1>3, <1>4

LEMMA PrefixStep == IInv /\ [Next]_vars => PrefixIsLoaded'
<1> SUFFICES ASSUME IInv, [Next]_vars PROVE PrefixIsLoaded'
  OBVIOUS
<1>0. TypeOK /\ Waiting /\ Behindhand /\ Unopened /\ PrefixIsLoaded
  BY DEF IInv, Strengthening
<1> DEFINE Prefix(l) ==
      /\ \A j \in DOMAIN config[l] :
            IF j < k[l] THEN Loaded(l, j) ELSE \A t \in tasks : t.origin # <<l, j>>
      /\ at[l] = "ok" => ~HasEntry(l)
      /\ at[l] = "error" => HasEntry(l) /\ MayFail(entry(l))
<1>a. \A l \in Loader : Prefix(l)
  BY <1>0 DEF PrefixIsLoaded
<1>b. (\A l \in Loader : Prefix(l)') => PrefixIsLoaded'
  BY DEF PrefixIsLoaded
<1>1. ASSUME NEW l \in Loader, Read(l) PROVE PrefixIsLoaded'
  <2> SUFFICES ASSUME NEW m \in Loader PROVE Prefix(m)'
    BY <1>b
  <2>1. CASE m = l
    <3>1. k'[l] = 1 /\ at'[l] = "lookup" /\ tasks' = tasks
      BY <1>0, <1>1 DEF Read, Goto, TypeOK, Unopened
    <3>2. config'[l] \in Config
      BY <1>0, <1>1 DEF Read, TypeOK
    <3>3. config'[l] \in Seq(Entry)
      BY <3>2, ConfigAssumption
    <3>4. ASSUME NEW j \in DOMAIN config'[l]
          PROVE  ~(j < k'[l]) /\ \A t \in tasks' : t.origin # <<l, j>>
      BY <1>0, <1>1, <3>1, <3>3 DEF Unopened, Read
    <3> QED BY <2>1, <3>1, <3>4
  <2>2. CASE m # l
    <3>1. /\ at'[m] = at[m] /\ config'[m] = config[m]
          /\ UNCHANGED <<registry, tasks, k, fn, seen, removed>>
      BY <1>0, <1>1, <2>2 DEF Read, Goto, TypeOK
    <3> QED BY <1>a, <3>1 DEF Loaded, MayFail, HasEntry, entry, TaskExist
  <2> QED BY <2>1, <2>2
<1>2. ASSUME NEW l \in Loader, ReadFails(l) \/ LoadEnds(l) \/ Lookup(l) PROVE PrefixIsLoaded'
  <2> SUFFICES ASSUME NEW m \in Loader PROVE Prefix(m)'
    BY <1>b
  <2>1. /\ UNCHANGED <<registry, tasks, config, k, seen, removed>>
        /\ at'[m] = "error" => at[m] = "error"
        /\ at'[m] = "ok" => at[m] = "ok" \/ ~HasEntry(m)
    BY <1>0, <1>2 DEF ReadFails, LoadEnds, Lookup, Goto, TypeOK
  <2> QED BY <1>a, <2>1 DEF Loaded, MayFail, HasEntry, entry, TaskExist
<1>3. ASSUME NEW l \in Loader, LookupFails(l) \/ AddFails(l) PROVE PrefixIsLoaded'
  <2> SUFFICES ASSUME NEW m \in Loader PROVE Prefix(m)'
    BY <1>b
  <2>1. /\ UNCHANGED <<registry, tasks, config, k, seen, removed>>
        /\ at'[m] = "error" => at[m] = "error" \/ m = l
        /\ at'[m] = "ok" => at[m] = "ok"
    BY <1>0, <1>3 DEF LookupFails, AddFails, Goto, TypeOK
  <2>2. HasEntry(l) /\ MayFail(entry(l))
    <3>1. CASE AddFails(l)
      BY <1>0, <3>1 DEF AddFails, Waiting, MayFail
    <3>2. CASE LookupFails(l)
      <4>1. HasEntry(l) /\ entry(l) \in Entry
        BY <1>0, <3>2, EntryType DEF LookupFails, HasEntry, entry
      <4>2. CASE ~Incomplete(entry(l))
        <5>1. entry(l).func \in Name
          BY <4>1, <4>2, CompleteEntry
        <5>2. registry[entry(l).func] \in seen[entry(l).func]
          BY <5>1 DEF IInv, Strengthening, Registered
        <5> QED BY <3>2, <4>1, <4>2, <5>2 DEF LookupFails, Found, MayFail
      <4> QED BY <4>1, <4>2 DEF MayFail
    <3> QED BY <1>3, <3>1, <3>2
  <2> QED BY <1>a, <2>1, <2>2 DEF Loaded, MayFail, HasEntry, entry, TaskExist
<1>4. ASSUME NEW l \in Loader, Add(l) PROVE PrefixIsLoaded'
  <2> DEFINE new == TaskOf(entry(l), fn[l], <<l, k[l]>>)
  <2>1. /\ at[l] = "add" /\ at'[l] = "lookup" /\ k'[l] = k[l] + 1 /\ k[l] \in Nat \ {0}
        /\ \A m \in Loader : m # l => k'[m] = k[m] /\ at'[m] = at[m]
        /\ tasks' = tasks \cup {new} /\ UNCHANGED <<config, seen, removed>>
    BY <1>0, <1>4 DEF Add, Goto, TypeOK
  <2>2. new.origin = <<l, k[l]>>
    BY DEF TaskOf
  <2>3. ASSUME NEW j \in DOMAIN config[l], j = k[l] PROVE Loaded(l, j)'
    <3>1. config'[l] = config[l] /\ fn[l] \in seen'[config[l][j].func] \cap Wrappable
      BY <1>0, <2>1, <2>3 DEF Waiting, entry
    <3>2. TaskOf(config[l][j], fn[l], <<l, j>>) \in tasks'
      BY <2>1, <2>3 DEF entry
    <3> QED BY <3>1, <3>2 DEF Loaded, TaskOf, Parser
  <2> SUFFICES ASSUME NEW m \in Loader PROVE Prefix(m)'
    BY <1>b
  <2>4. ASSUME NEW j \in DOMAIN config[m], j < k'[m] PROVE Loaded(m, j)'
    <3>1. j \in Nat
      BY <1>0, EntryType
    <3>2. CASE m = l /\ j = k[l]
      BY <2>3, <3>2
    <3>3. CASE ~(m = l /\ j = k[l])
      <4>1. j < k[m]
        BY <1>0, <2>1, <2>4, <3>1, <3>3
      <4>2. Loaded(m, j) /\ ~Incomplete(config[m][j])
        BY <1>0, <1>a, <4>1 DEF Behindhand
      <4> QED BY <1>0, <1>4, <2>1, <4>2, LoadedStays
    <3> QED BY <3>2, <3>3
  <2>5. ASSUME NEW j \in DOMAIN config[m], ~(j < k'[m]), NEW t \in tasks'
        PROVE  t.origin # <<m, j>>
    <3>1. j \in Nat /\ k[m] \in Nat
      BY <1>0, EntryType DEF TypeOK
    <3>2. ~(j < k[m]) /\ <<m, j>> # <<l, k[l]>>
      BY <2>1, <2>5, <3>1
    <3>3. t \in tasks \/ t = new
      BY <2>1
    <3> HIDE DEF new
    <3> QED BY <1>a, <2>2, <3>2, <3>3
  <2>6. at'[m] = "ok" => ~HasEntry(m)'
    BY <1>a, <2>1 DEF HasEntry
  <2>7. ASSUME at'[m] = "error" PROVE HasEntry(m)' /\ MayFail(entry(m))'
    <3>1. m # l /\ at[m] = "error"
      BY <2>1, <2>7
    <3>2. HasEntry(m) /\ MayFail(entry(m)) /\ HasEntry(m)' /\ entry(m)' = entry(m)
      BY <1>a, <2>1, <3>1 DEF HasEntry, entry
    <3>3. entry(m) \in Entry
      BY <1>0, <3>2, EntryType DEF HasEntry, entry
    <3>4. ASSUME NEW e \in Entry, MayFail(e) PROVE MayFail(e)'
      BY <1>0, <1>4, <3>4, MayFailStays
    <3> QED BY <3>2, <3>3, <3>4 DEF MayFail, TaskExist
  <2> QED BY <2>1, <2>4, <2>5, <2>6, <2>7
<1>5. CASE \E n \in Name, f \in Fn : RegisterJob(n, f)
  BY <1>5, PrefixKept DEF RegisterJob
<1>6. CASE \E t \in tasks : RemoveTask(t)
  BY <1>6, PrefixKept DEF RemoveTask
<1>7. CASE UNCHANGED vars
  BY <1>7, PrefixKept DEF vars
<1> QED BY <1>1, <1>2, <1>3, <1>4, <1>5, <1>6, <1>7 DEF Next

-----------------------------------------------------------------------------
LEMMA Invariance == Spec => []IInv
<1>1. IInv /\ [Next]_vars => IInv'
  BY TypeStep, StrengtheningStep, PrefixStep DEF IInv
<1> QED BY InitIInv, <1>1, PTL DEF Spec

\* The registry, the loaders and the tasks keep their types (job_registry.go,
\* LoadTasksFromConfig), so that no file makes a task without parser or job.
THEOREM TypeCorrect == Spec => []TypeOK
<1>1. IInv => TypeOK
  BY DEF IInv
<1> QED BY Invariance, <1>1, PTL

\* LoadTasksFromConfig (scheduler.go:74) adds a prefix of its file, in order,
\* whatever other loads, registrations and removals come in between.
THEOREM LoadsAPrefix == Spec => []PrefixIsLoaded
<1>1. IInv => PrefixIsLoaded
  BY DEF IInv
<1> QED BY Invariance, <1>1, PTL

\* No ID is loaded twice without a removal, by any two loads (scheduler.go:163).
THEOREM ReloadFails == Spec => []ReloadNeedsRemoval
<1>1. IInv => ReloadNeedsRemoval
  <2> SUFFICES ASSUME IInv, NEW l \in Loader, NEW m \in Loader,
                      NEW i \in DOMAIN config[l], NEW j \in DOMAIN config[m],
                      i < k[l], j < k[m], config[l][i].id = config[m][j].id,
                      <<l, i>> # <<m, j>>, config[l][i].id \notin removed
               PROVE  FALSE
    BY DEF ReloadNeedsRemoval
  <2>1. PICK f : TaskOf(config[l][i], f, <<l, i>>) \in tasks
    BY DEF IInv, PrefixIsLoaded, Loaded
  <2>2. PICK g : TaskOf(config[m][j], g, <<m, j>>) \in tasks
    BY DEF IInv, PrefixIsLoaded, Loaded
  <2>3. TaskOf(config[l][i], f, <<l, i>>) = TaskOf(config[m][j], g, <<m, j>>)
    <3>1. \A e, h, o : TaskOf(e, h, o).id = e.id
      BY DEF TaskOf
    <3> QED BY <2>1, <2>2, <3>1 DEF IInv, Strengthening, OnePerID
  <2>4. \A e, h, o : TaskOf(e, h, o).origin = o
    BY DEF TaskOf
  <2> QED BY <2>3, <2>4
<1> QED BY Invariance, <1>1, PTL
=============================================================================
