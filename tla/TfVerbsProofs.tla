---------------------------- MODULE TfVerbsProofs ----------------------------
(***************************************************************************)
(* Theorems about TfVerbs, for any terminals, entries and resource types   *)
(* and any number of commands, edits and objects.                          *)
(***************************************************************************)
EXTENDS TfVerbs, FiniteSetTheorems, FunctionTheorems, TLAPS

-----------------------------------------------------------------------------
(* The inductive invariant *)

Holding == {"confirm", "mv", "rekeyed"}
States == [Addrs -> Objects \union {None}]
Saved == [state : States, serial : Nat]
Listing == UNION {[A -> Objects] : A \in SUBSET Addrs}
Job == [verb : Verbs, pc : {"idle", "run"} \union Holding,
        from : Names \union {None}, to : Names \union {None}, addr : Addrs \union {None},
        held : Listing, left : SUBSET Addrs, quiet : BOOLEAN,
        others : SUBSET (Objects \union {None})]

Shapes ==
    /\ decl \in [Names -> Entry] /\ staged \in [Names -> Entry]
    /\ job \in [Terms -> Job] /\ file \in [Terms -> Saved \union {None}]
    /\ serial \in Nat /\ real \subseteq used /\ used \subseteq Objects
    /\ tainted \subseteq Addrs /\ \A a \in tainted : state[a] # None

(* A state in which every object has one address at most, and of its type. *)
Sound(s, ids) ==
    /\ s \in States
    /\ \A a \in Addrs : s[a] # None => s[a][1] = a.type /\ s[a] \in ids
    /\ \A a, b \in Addrs : s[a] = s[b] /\ s[a] # None => a = b

Owned == Sound(state, used)

(* A pulled state that tofu would still take is the state it was pulled from,
   less one address at most. *)
Pushable ==
    \A t \in Terms : file[t] # None =>
        /\ file[t].serial <= serial + 1
        /\ file[t].serial = serial + 1 => file[t].state \in Edited(state)

(* What a verb that is to run was given. *)
Arguments(t) ==
    job[t].pc = "run" =>
        /\ job[t].verb \in {"mv", "rm", "untaint", "import"} => job[t].addr \in Addrs
        /\ job[t].verb \in {"mv", "rekey"} => job[t].to \in Names
        /\ job[t].verb = "rekey" => job[t].from # job[t].to
        /\ job[t].verb = "push" => file[t] # None

(* What a rekey listed are addresses of the old name. *)
Listed(t) ==
    /\ job[t].left \subseteq DOMAIN job[t].held
    /\ job[t].pc \in Holding =>
        /\ job[t].to \in Names /\ job[t].from # job[t].to
        /\ DOMAIN job[t].held # {}
        /\ job[t].pc = "rekeyed" => job[t].left = {}
        /\ \A a \in DOMAIN job[t].held : Segment(a) = job[t].from

(* An object that a rekey listed is where the rekey left it, or another verb
   has had it. *)
Accounted(t) ==
    job[t].pc \in Holding =>
        \A a \in DOMAIN job[t].held :
            \/ job[t].held[a] \in job[t].others
            \/ /\ a \in job[t].left
               /\ state[a] = job[t].held[a]
            \/ /\ a \notin job[t].left
               /\ state[RekeyAddress(a, job[t].to)] = job[t].held[a]

(* Nothing of the old name has come to a rekey that nothing came between. *)
Undisturbed(t) ==
    job[t].pc \in Holding /\ job[t].quiet =>
        \A a \in Addrs : state[a] # None /\ Segment(a) = job[t].from => a \in job[t].left

Verbing(t) == Arguments(t) /\ Listed(t) /\ Accounted(t) /\ Undisturbed(t)

IInv == Shapes /\ Owned /\ Pushable /\ \A t \in Terms : Verbing(t)

-----------------------------------------------------------------------------
(* Addresses and records *)

LEMMA Renaming ==
    ASSUME NEW a \in Addrs, NEW n \in Names
    PROVE  /\ RekeyAddress(a, n) \in Addrs
           /\ RekeyAddress(a, n).type = a.type /\ RekeyAddress(a, n).name = n
BY DEF Addrs, RekeyAddress

(* A type has one address of a segment. *)
LEMMA SegmentsDiffer ==
    ASSUME NEW a \in Addrs, NEW b \in Addrs, a.type = b.type, Segment(a) = Segment(b)
    PROVE  a = b
<1>1. a.name = b.name
  BY DEF Segment
<1>2. a = [type |-> a.type, name |-> a.name] /\ b = [type |-> b.type, name |-> b.name]
  BY DEF Addrs
<1>3. QED
  BY <1>1, <1>2

LEMMA NoneIsNoObject == None \notin Objects
BY VerbsAssumption

LEMMA ListingType ==
    ASSUME NEW f \in Listing
    PROVE  DOMAIN f \subseteq Addrs /\ \A a \in DOMAIN f : f[a] \in Objects
BY DEF Listing

LEMMA EmptyListing == <<>> \in Listing
<1>1. <<>> \in [{} -> Objects]
  OBVIOUS
<1>2. {} \in SUBSET Addrs
  OBVIOUS
<1>3. QED
  BY <1>1, <1>2 DEF Listing

LEMMA IdleType == Idle \in Job
BY EmptyListing DEF Idle, Job, Verbs, Holding

-----------------------------------------------------------------------------
(* What a step of one terminal leaves of the others *)

(* The objects that a step moved or removed. *)
Took(objs) ==
    \A a \in Addrs : state[a] # None /\ state'[a] # state[a] => state[a] \in objs

LEMMA Onlooker ==
    ASSUME Shapes, NEW u \in Terms, Verbing(u), NEW objs, Took(objs),
           job'[u] = [job[u] EXCEPT !.quiet = FALSE, !.others = @ \union objs],
           file[u] # None => file'[u] # None
    PROVE  Verbing(u)'
<1> DEFINE j == job[u]
           k == job'[u]
<1>1. j \in Job
  BY DEF Shapes
<1>2. /\ k.verb = j.verb /\ k.pc = j.pc /\ k.from = j.from /\ k.to = j.to /\ k.addr = j.addr
      /\ k.held = j.held /\ k.left = j.left /\ k.quiet = FALSE
      /\ k.others = j.others \union objs
  BY <1>1 DEF Job
<1>3. DOMAIN j.held \subseteq Addrs /\ \A a \in DOMAIN j.held : j.held[a] \in Objects
  BY <1>1, ListingType DEF Job
<1> HIDE DEF j, k
<1>4. Arguments(u)'
  BY <1>2 DEF Verbing, Arguments, j, k
<1>5. Listed(u)'
  BY <1>2 DEF Verbing, Listed, j, k
<1>6. Accounted(u)'
  <2> SUFFICES ASSUME k.pc \in Holding, NEW a \in DOMAIN k.held
               PROVE  \/ k.held[a] \in k.others
                      \/ /\ a \in k.left
                         /\ state'[a] = k.held[a]
                      \/ /\ a \notin k.left
                         /\ state'[RekeyAddress(a, k.to)] = k.held[a]
    BY DEF Accounted, k
  <2>1. \/ j.held[a] \in j.others
        \/ /\ a \in j.left
           /\ state[a] = j.held[a]
        \/ /\ a \notin j.left
           /\ state[RekeyAddress(a, j.to)] = j.held[a]
    BY <1>2 DEF Verbing, Accounted, j
  <2>2. j.held[a] # None /\ a \in Addrs
    BY <1>2, <1>3, NoneIsNoObject
  <2>3. RekeyAddress(a, j.to) \in Addrs
    BY <1>2, <2>2, Renaming DEF Verbing, Listed, j
  <2>4. QED
    BY <1>2, <2>1, <2>2, <2>3 DEF Took
<1>7. Undisturbed(u)'
  BY <1>2 DEF Undisturbed, k
<1>8. QED
  BY <1>4, <1>5, <1>6, <1>7 DEF Verbing

(* A terminal that is not disturbed at all. *)
LEMMA Untouched ==
    ASSUME NEW u \in Terms, Verbing(u), job'[u] = job[u], state' = state,
           file[u] # None => file'[u] # None
    PROVE  Verbing(u)'
BY DEF Verbing, Arguments, Listed, Accounted, Undisturbed

LEMMA Disturbing ==
    ASSUME Shapes, NEW t \in Terms, NEW j \in Job, NEW objs \in SUBSET (Objects \union {None}),
           job' = Disturb(t, [job EXCEPT ![t] = j], objs)
    PROVE  /\ job' \in [Terms -> Job] /\ job'[t] = j
           /\ \A u \in Terms \ {t} :
                 job'[u] = [job[u] EXCEPT !.quiet = FALSE, !.others = @ \union objs]
<1>1. job'[t] = j
  BY DEF Shapes, Disturb
<1>2. \A u \in Terms \ {t} :
          job'[u] = [job[u] EXCEPT !.quiet = FALSE, !.others = @ \union objs]
  BY DEF Shapes, Disturb
<1>3. ASSUME NEW u \in Terms \ {t} PROVE job'[u] \in Job
  <2>1. job[u] \in Job
    BY DEF Shapes
  <2>2. job[u].others \union objs \in SUBSET (Objects \union {None})
    BY <2>1 DEF Job
  <2>3. [job[u] EXCEPT !.quiet = FALSE, !.others = @ \union objs] \in Job
    BY <2>1, <2>2 DEF Job
  <2>4. QED
    BY <1>2, <2>3
<1>4. job' \in [Terms -> Job]
  BY <1>1, <1>3 DEF Disturb
<1>5. QED
  BY <1>1, <1>2, <1>4

LEMMA IdleVerbs ==
    ASSUME NEW t \in Terms, job'[t] = Idle
    PROVE  Verbing(t)'
<1>1. job'[t].pc = "idle" /\ job'[t].left = {}
  BY DEF Idle
<1>2. QED
  BY <1>1 DEF Verbing, Arguments, Listed, Accounted, Undisturbed, Holding

(* A verb that is over, and what it took. *)
LEMMA Finished ==
    ASSUME IInv, NEW t \in Terms, NEW objs \in SUBSET (Objects \union {None}),
           Finish(t, objs), Took(objs), Sound(state, used)',
           \/ serial' = serial /\ state' = state
           \/ serial' = serial + 1,
           real' \subseteq used', used' \subseteq Objects,
           tainted' \subseteq Addrs, \A a \in tainted' : state'[a] # None
    PROVE  IInv'
<1>1. job' = Disturb(t, [job EXCEPT ![t] = Idle], objs) /\ UNCHANGED <<decl, staged, file>>
  BY DEF Finish
<1>2. /\ job' \in [Terms -> Job] /\ job'[t] = Idle
      /\ \A u \in Terms \ {t} :
            job'[u] = [job[u] EXCEPT !.quiet = FALSE, !.others = @ \union objs]
  BY <1>1, Disturbing, IdleType DEF IInv
<1>3. serial \in Nat /\ file \in [Terms -> Saved \union {None}]
  BY DEF IInv, Shapes
<1>4. Shapes'
  <2>1. serial' \in Nat
    BY <1>3
  <2>2. decl \in [Names -> Entry] /\ staged \in [Names -> Entry]
    BY DEF IInv, Shapes
  <2>3. QED
    BY <1>1, <1>2, <1>3, <2>1, <2>2 DEF Shapes
<1>5. Pushable'
  <2> SUFFICES ASSUME NEW u \in Terms, file[u] # None
               PROVE  /\ file[u].serial <= serial' + 1
                      /\ file[u].serial = serial' + 1 => file[u].state \in Edited(state')
    BY <1>1 DEF Pushable
  <2>1. file[u].serial \in Nat
    BY <1>3 DEF Saved
  <2>2. /\ file[u].serial <= serial + 1
        /\ file[u].serial = serial + 1 => file[u].state \in Edited(state)
    BY DEF IInv, Pushable
  <2>3. QED
    BY <1>3, <2>1, <2>2
<1>6. \A u \in Terms : Verbing(u)'
  <2>1. Verbing(t)'
    BY <1>2, IdleVerbs
  <2>2. ASSUME NEW u \in Terms \ {t} PROVE Verbing(u)'
    BY <1>1, <1>2, Onlooker DEF IInv
  <2>3. QED
    BY <2>1, <2>2
<1>7. QED
  BY <1>4, <1>5, <1>6 DEF IInv, Owned

-----------------------------------------------------------------------------
(* tofu's runs *)

LEMMA Storing ==
    ASSUME NEW s, NEW tt, Store(s, tt)
    PROVE  /\ state' = s /\ tainted' = tt
           /\ \/ serial' = serial /\ state' = state
              \/ serial' = serial + 1
BY DEF Store

LEMMA StateTypes ==
    ASSUME IInv
    PROVE  /\ state \in States /\ \A a \in Addrs : state[a] \in Objects \union {None}
           /\ real \subseteq used /\ used \subseteq Objects
           /\ tainted \subseteq Addrs /\ \A a \in tainted : state[a] # None
BY DEF IInv, Shapes, Owned, Sound, States

(* A run that ends without a change. *)
LEMMA NothingDone ==
    ASSUME IInv, NEW t \in Terms, UNCHANGED Cloud, Finish(t, {})
    PROVE  IInv'
<1>1. UNCHANGED <<state, tainted, serial, real, used>>
  BY DEF Cloud
<1>2. Took({})
  BY <1>1 DEF Took
<1>3. Sound(state, used)'
  BY <1>1 DEF IInv, Owned, Sound
<1>4. QED
  BY <1>1, <1>2, <1>3, StateTypes, Finished

(* Some objects are gone, others are new. *)
LEMMA SoundChange ==
    ASSUME NEW s, NEW ids, Sound(s, ids), NEW r \in States, NEW all, ids \subseteq all,
           NEW made \in SUBSET Addrs,
           \A a \in Addrs \ made : r[a] = None \/ r[a] = s[a],
           \A a \in made : r[a][1] = a.type /\ r[a] \notin ids /\ r[a] \in all,
           \A a, b \in made : r[a] = r[b] => a = b
    PROVE  Sound(r, all)
<1>1. \A a \in Addrs : r[a] # None => r[a][1] = a.type /\ r[a] \in all
  BY DEF Sound
<1>2. \A a \in Addrs \ made : r[a] # None => r[a] \in ids
  BY DEF Sound
<1>3. ASSUME NEW a \in Addrs, NEW b \in Addrs, r[a] = r[b], r[a] # None PROVE a = b
  <2>1. CASE a \in made /\ b \in made
    BY <1>3, <2>1
  <2>2. CASE a \in made /\ b \notin made
    BY <1>2, <1>3, <2>2
  <2>3. CASE a \notin made /\ b \in made
    BY <1>2, <1>3, <2>3
  <2>4. CASE a \notin made /\ b \notin made
    BY <1>3, <2>4 DEF Sound
  <2>5. QED
    BY <2>1, <2>2, <2>3, <2>4
<1>4. QED
  BY <1>1, <1>3 DEF Sound

LEMMA NewsFresh ==
    ASSUME NEW A, NEW f \in News(A), used \subseteq Objects
    PROVE  /\ f \in [A -> Objects]
           /\ \A a \in A : f[a][1] = a.type /\ f[a] \notin used
           /\ \A a, b \in A : f[a] = f[b] => a = b
<1>1. /\ f \in [A -> Objects]
      /\ \A a \in A : f[a][1] = a.type /\ f[a][2] \in FreshIds(a.type)
      /\ \A a, b \in A : f[a] = f[b] => a = b
  BY DEF News
<1>2. ASSUME NEW a \in A PROVE f[a] \notin used
  <2>1. f[a] = <<f[a][1], f[a][2]>>
    BY <1>1 DEF Objects
  <2>2. <<a.type, f[a][2]>> \notin used
    BY <1>1 DEF FreshIds
  <2>3. QED
    BY <1>1, <2>1, <2>2
<1>3. QED
  BY <1>1, <1>2

LEMMA ApplyKeeps == ASSUME IInv, NEW t \in Terms, Apply(t) PROVE IInv'
<1> DEFINE Done(gone, made, f, bad) ==
      LET lost == {state[a] : a \in gone} IN
        /\ Store([a \in Addrs |-> IF a \in made THEN f[a] ELSE IF a \in gone THEN None ELSE state[a]],
                 (tainted \ gone) \union bad)
        /\ real' = (real \ lost) \union {f[a] : a \in made}
        /\ used' = used \union {f[a] : a \in made}
        /\ Finish(t, lost)
<1>1. PICK gone \in SUBSET (Destroys(staged) \union Replaces(staged)) :
        \E made \in SUBSET (Creates(staged) \union (Replaces(staged) \cap gone)) :
        \E f \in News(made), bad \in SUBSET made : Done(gone, made, f, bad)
  BY DEF Apply
<1>2. PICK made \in SUBSET (Creates(staged) \union (Replaces(staged) \cap gone)) :
        \E f \in News(made), bad \in SUBSET made : Done(gone, made, f, bad)
  BY <1>1
<1> DEFINE lost == {state[a] : a \in gone}
<1>3. PICK f \in News(made), bad \in SUBSET made :
        /\ Store([a \in Addrs |-> IF a \in made THEN f[a] ELSE IF a \in gone THEN None ELSE state[a]],
                 (tainted \ gone) \union bad)
        /\ real' = (real \ lost) \union {f[a] : a \in made}
        /\ used' = used \union {f[a] : a \in made}
        /\ Finish(t, lost)
  BY <1>2
<1> HIDE DEF Done
<1>4. /\ made \subseteq Addrs /\ gone \subseteq Addrs
      /\ \A a \in made : state[a] = None \/ a \in gone
  BY StateTypes DEF Creates, Replaces, Destroys
<1>5. bad \subseteq made
  OBVIOUS
<1>6. /\ f \in [made -> Objects]
      /\ \A a \in made : f[a][1] = a.type /\ f[a] \notin used
      /\ \A a, b \in made : f[a] = f[b] => a = b
  BY NewsFresh, StateTypes
<1>7. /\ state' = [a \in Addrs |-> IF a \in made THEN f[a]
                                   ELSE IF a \in gone THEN None ELSE state[a]]
      /\ tainted' = (tainted \ gone) \union bad
      /\ \/ serial' = serial /\ state' = state
         \/ serial' = serial + 1
  BY <1>3, Storing
<1>8. Sound(state, used)'
  <2>1. Sound(state, used)
    BY DEF IInv, Owned
  <2>2. /\ \A a \in made : state'[a] = f[a]
        /\ \A a \in Addrs \ made : state'[a] = None \/ state'[a] = state[a]
    BY <1>4, <1>7
  <2>3. state' \in States
    BY <1>6, <1>7, StateTypes DEF States
  <2>4. used \subseteq used' /\ \A a \in made : f[a] \in used'
    BY <1>3
  <2>5. /\ \A a \in made : /\ state'[a][1] = a.type
                           /\ state'[a] \notin used /\ state'[a] \in used'
        /\ \A a, b \in made : state'[a] = state'[b] => a = b
    BY <1>6, <2>2, <2>4
  <2>6. Sound(state', used')
    BY <1>4, <2>1, <2>2, <2>3, <2>4, <2>5, SoundChange
  <2>7. QED
    BY <2>6 DEF Sound
<1>9. lost \in SUBSET (Objects \union {None})
  BY <1>4, StateTypes
<1>10. Took(lost)
  BY <1>4, <1>7 DEF Took
<1>11. real' \subseteq used' /\ used' \subseteq Objects
  BY <1>3, <1>6, StateTypes
<1>12. tainted' \subseteq Addrs
  BY <1>4, <1>5, <1>7, StateTypes
<1>13. \A a \in tainted' : state'[a] # None
  BY <1>4, <1>5, <1>6, <1>7, StateTypes, NoneIsNoObject
<1> HIDE DEF lost
<1>14. QED
  BY <1>3, <1>7, <1>8, <1>9, <1>10, <1>11, <1>12, <1>13, Finished

(* A state without some of its objects. *)
LEMMA SoundLess ==
    ASSUME NEW s, NEW ids, Sound(s, ids), NEW r \in States,
           \A a \in Addrs : r[a] = None \/ r[a] = s[a]
    PROVE  Sound(r, ids)
BY DEF Sound

LEMMA DestroyKeeps == ASSUME IInv, NEW t \in Terms, Destroy(t) PROVE IInv'
<1>1. PICK gone \in SUBSET Addrs :
        LET lost == {state[a] : a \in gone} IN
        /\ Store([a \in Addrs |-> IF a \in gone THEN None ELSE state[a]], tainted \ gone)
        /\ real' = real \ lost /\ UNCHANGED used /\ Finish(t, lost)
  BY DEF Destroy
<1> DEFINE lost == {state[a] : a \in gone}
<1>2. /\ Store([a \in Addrs |-> IF a \in gone THEN None ELSE state[a]], tainted \ gone)
      /\ real' = real \ lost /\ UNCHANGED used /\ Finish(t, lost)
  BY <1>1
<1>3. /\ state' = [a \in Addrs |-> IF a \in gone THEN None ELSE state[a]]
      /\ tainted' = tainted \ gone
      /\ \/ serial' = serial /\ state' = state
         \/ serial' = serial + 1
  BY <1>2, Storing
<1>4. lost \in SUBSET (Objects \union {None}) /\ Took(lost)
  BY <1>3, StateTypes DEF Took
<1>5. Sound(state, used)'
  <2>1. state' \in States /\ \A a \in Addrs : state'[a] = None \/ state'[a] = state[a]
    BY <1>3, StateTypes DEF States
  <2>2. Sound(state', used)
    BY <2>1, SoundLess DEF IInv, Owned
  <2>3. QED
    BY <1>2, <2>2 DEF Sound
<1>6. /\ real' \subseteq used' /\ used' \subseteq Objects
      /\ tainted' \subseteq Addrs /\ \A a \in tainted' : state'[a] # None
  BY <1>2, <1>3, StateTypes
<1> HIDE DEF lost
<1>7. QED
  BY <1>2, <1>3, <1>4, <1>5, <1>6, Finished

(* tofu state mv: the object of one address is bound to another of its type. *)
LEMMA Moving ==
    ASSUME IInv, NEW src \in Addrs, NEW dst \in Addrs, dst.type = src.type, CanMove(src, dst)
    PROVE  /\ Sound(Moved(src, dst), used)
           /\ MovedTaint(src, dst) \subseteq Addrs
           /\ \A a \in MovedTaint(src, dst) : Moved(src, dst)[a] # None
           /\ Moved(src, dst)[dst] = state[src] /\ Moved(src, dst)[src] = None
           /\ \A a \in Addrs \ {src, dst} : Moved(src, dst)[a] = state[a]
           /\ dst # src
<1> DEFINE m == Moved(src, dst)
<1>1. state[src] # None /\ state[dst] = None /\ dst # src
  BY DEF CanMove
<1>2. state \in States
  BY StateTypes
<1>3. /\ m[dst] = state[src] /\ m[src] = None
      /\ \A a \in Addrs \ {src, dst} : m[a] = state[a]
  BY <1>1, <1>2 DEF Moved, States
<1>4. m \in States
  BY <1>2 DEF Moved, States
<1> HIDE DEF m
<1>5. \A a \in Addrs : m[a] # None => m[a][1] = a.type /\ m[a] \in used
  BY <1>1, <1>3 DEF IInv, Owned, Sound
<1>6. \A a, b \in Addrs : m[a] = m[b] /\ m[a] # None => a = b
  BY <1>1, <1>3 DEF IInv, Owned, Sound
<1>7. Sound(m, used)
  BY <1>4, <1>5, <1>6 DEF Sound
<1>8. MovedTaint(src, dst) \subseteq Addrs /\ \A a \in MovedTaint(src, dst) : m[a] # None
  BY <1>1, <1>3, StateTypes DEF MovedTaint
<1>9. QED
  BY <1>1, <1>3, <1>7, <1>8 DEF m

LEMMA StateMvKeeps == ASSUME IInv, NEW t \in Terms, StateMv(t) PROVE IInv'
<1> DEFINE src == job[t].addr
           dst == RekeyAddress(src, job[t].to)
<1>1. job[t].pc = "run" /\ job[t].verb = "mv" /\ UNCHANGED <<real, used>>
  BY DEF StateMv, Running
<1>2. src \in Addrs /\ job[t].to \in Names
  BY <1>1 DEF IInv, Verbing, Arguments
<1>3. dst \in Addrs /\ dst.type = src.type
  BY <1>2, Renaming
<1>4. IF CanMove(src, dst)
      THEN Store(Moved(src, dst), MovedTaint(src, dst)) /\ Finish(t, {state[src]})
      ELSE NoChange(t)
  BY DEF StateMv, RekeyAddress
<1> HIDE DEF src, dst
<1>5. CASE CanMove(src, dst)
  <2>1. /\ state' = Moved(src, dst) /\ tainted' = MovedTaint(src, dst)
        /\ \/ serial' = serial /\ state' = state
           \/ serial' = serial + 1
    BY <1>4, <1>5, Storing
  <2>2. Sound(state, used)'
    BY <1>1, <1>2, <1>3, <1>5, <2>1, Moving DEF Sound
  <2>3. Took({state[src]})
    BY <1>2, <1>3, <1>5, <2>1, Moving DEF Took, CanMove
  <2>4. {state[src]} \in SUBSET (Objects \union {None})
    BY <1>2, StateTypes
  <2>5. tainted' \subseteq Addrs /\ \A a \in tainted' : state'[a] # None
    BY <1>2, <1>3, <1>5, <2>1, Moving
  <2>6. QED
    BY <1>1, <1>4, <1>5, <2>1, <2>2, <2>3, <2>4, <2>5, StateTypes, Finished
<1>6. CASE ~CanMove(src, dst)
  BY <1>1, <1>4, <1>6, NothingDone DEF NoChange, Cloud
<1>7. QED
  BY <1>5, <1>6

LEMMA StateRmKeeps == ASSUME IInv, NEW t \in Terms, StateRm(t) PROVE IInv'
<1> DEFINE a == job[t].addr
<1>1. /\ job[t].pc = "run" /\ job[t].verb = "rm" /\ UNCHANGED <<real, used>>
      /\ Store([state EXCEPT ![a] = None], tainted \ {a}) /\ Finish(t, {state[a]})
  BY DEF StateRm, Running
<1>2. a \in Addrs
  BY <1>1 DEF IInv, Verbing, Arguments
<1> HIDE DEF a
<1>3. /\ state' = [state EXCEPT ![a] = None] /\ tainted' = tainted \ {a}
      /\ \/ serial' = serial /\ state' = state
         \/ serial' = serial + 1
  BY <1>1, Storing
<1>4. state' \in States /\ \A b \in Addrs : state'[b] = IF b = a THEN None ELSE state[b]
  BY <1>3, StateTypes DEF States
<1>5. Sound(state, used)'
  <2>1. Sound(state', used)
    BY <1>4, SoundLess DEF IInv, Owned
  <2>2. QED
    BY <1>1, <2>1 DEF Sound
<1>6. Took({state[a]}) /\ {state[a]} \in SUBSET (Objects \union {None})
  BY <1>2, <1>4, StateTypes DEF Took
<1>7. tainted' \subseteq Addrs /\ \A b \in tainted' : state'[b] # None
  BY <1>3, <1>4, StateTypes
<1>8. QED
  BY <1>1, <1>3, <1>5, <1>6, <1>7, StateTypes, Finished

LEMMA UntaintKeeps == ASSUME IInv, NEW t \in Terms, Untaint(t) PROVE IInv'
<1>1. /\ UNCHANGED <<real, used>> /\ Store(state, tainted \ {job[t].addr})
      /\ Finish(t, {})
  BY DEF Untaint
<1>2. /\ state' = state /\ tainted' = tainted \ {job[t].addr}
      /\ \/ serial' = serial /\ state' = state
         \/ serial' = serial + 1
  BY <1>1, Storing
<1>3. Sound(state, used)' /\ Took({})
  BY <1>1, <1>2 DEF IInv, Owned, Sound, Took
<1>4. tainted' \subseteq Addrs /\ \A b \in tainted' : state'[b] # None
  BY <1>2, StateTypes
<1>5. QED
  BY <1>1, <1>2, <1>3, <1>4, StateTypes, Finished

LEMMA ImportKeeps == ASSUME IInv, NEW t \in Terms, Import(t) PROVE IInv'
<1> DEFINE a == job[t].addr
           free == {o \in real : o[1] = a.type /\ \A b \in Addrs : state[b] # o}
<1>1. job[t].pc = "run" /\ job[t].verb = "import" /\ UNCHANGED <<real, used>>
  BY DEF Import, Running
<1>2. a \in Addrs
  BY <1>1 DEF IInv, Verbing, Arguments
<1>3. \/ /\ state[a] = None
         /\ \E o \in free : Store([state EXCEPT ![a] = o], tainted) /\ Finish(t, {})
      \/ NoChange(t)
  BY DEF Import
<1>4. ASSUME state[a] = None,
             NEW o \in free, Store([state EXCEPT ![a] = o], tainted), Finish(t, {})
      PROVE  IInv'
  <2>1. /\ state' = [state EXCEPT ![a] = o] /\ tainted' = tainted
        /\ \/ serial' = serial /\ state' = state
           \/ serial' = serial + 1
    BY <1>4, Storing
  <2>2. /\ o \in used /\ o \in Objects /\ o[1] = a.type
        /\ \A b \in Addrs : state[b] # o
    BY StateTypes
  <2> HIDE DEF free, a
  <2>3. /\ state' \in States
        /\ \A b \in Addrs : state'[b] = IF b = a THEN o ELSE state[b]
    BY <2>1, <2>2, StateTypes DEF States
  <2>4. Sound(state, used)'
    BY <1>1, <2>2, <2>3 DEF IInv, Owned, Sound
  <2>5. Took({})
    BY <1>4, <2>3 DEF Took
  <2>6. tainted' \subseteq Addrs /\ \A b \in tainted' : state'[b] # None
    BY <2>1, <2>2, <2>3, StateTypes, NoneIsNoObject
  <2>7. QED
    BY <1>1, <1>4, <2>1, <2>4, <2>5, <2>6, StateTypes, Finished
<1>5. CASE NoChange(t)
  BY <1>1, <1>5, NothingDone DEF NoChange, Cloud
<1>6. QED
  BY <1>3, <1>4, <1>5

(* A push that tofu takes is of the state it was pulled from. *)
LEMMA PushKeeps == ASSUME IInv, NEW t \in Terms, Push(t) PROVE IInv'
<1> DEFINE s == file[t].state
           objs == {state[a] : a \in Addrs} \ {s[a] : a \in Addrs}
<1>1. job[t].pc = "run" /\ job[t].verb = "push" /\ UNCHANGED <<real, used>>
  BY DEF Push, Running
<1>2. file[t] # None /\ file[t].serial \in Nat /\ serial \in Nat
  BY <1>1 DEF IInv, Verbing, Arguments, Shapes, Saved
<1>3. CASE file[t].serial > serial
  <2>1. /\ state' = s /\ serial' = file[t].serial
        /\ tainted' = {a \in tainted : s[a] = state[a]}
        /\ Finish(t, objs)
    BY <1>3 DEF Push
  <2>2. file[t].serial = serial + 1
    BY <1>2, <1>3 DEF IInv, Pushable
  <2>3. s \in Edited(state)
    BY <1>2, <2>2 DEF IInv, Pushable
  <2>4. /\ s \in States
        /\ \A a \in Addrs : s[a] = None \/ s[a] = state[a]
    BY <2>3, StateTypes DEF Edited, States
  <2>5. Sound(state, used)'
    <3>1. Sound(s, used)
      BY <2>4, SoundLess DEF IInv, Owned
    <3>2. QED
      BY <1>1, <2>1, <3>1 DEF Sound
  <2>6. objs \in SUBSET (Objects \union {None})
    BY StateTypes
  <2>7. Took(objs)
    <3> SUFFICES ASSUME NEW a \in Addrs, state[a] # None, s[a] # state[a]
                 PROVE  state[a] \in objs
      BY <2>1 DEF Took
    <3>1. s[a] = None
      BY <2>4
    <3>2. ASSUME NEW b \in Addrs, s[b] = state[a] PROVE FALSE
      <4>1. s[b] = state[b]
        BY <2>4, <3>2
      <4>2. b = a
        BY <3>2, <4>1 DEF IInv, Owned, Sound
      <4>3. QED
        BY <3>1, <3>2, <4>2
    <3>3. QED
      BY <3>2
  <2>8. tainted' \subseteq Addrs /\ \A b \in tainted' : state'[b] # None
    BY <2>1, StateTypes
  <2> HIDE DEF objs
  <2>9. QED
    BY <1>1, <2>1, <2>2, <2>5, <2>6, <2>7, <2>8, StateTypes, Finished
<1>4. CASE ~(file[t].serial > serial)
  <2>1. NoChange(t)
    BY <1>4 DEF Push
  <2>2. QED
    BY <1>1, <2>1, NothingDone DEF NoChange, Cloud
<1>5. QED
  BY <1>3, <1>4

-----------------------------------------------------------------------------
(* The steps that leave the state alone *)

(* One terminal goes on; the others do not notice. *)
LEMMA Quietly ==
    ASSUME IInv, NEW t \in Terms, NEW j \in Job, job' = [job EXCEPT ![t] = j],
           UNCHANGED <<decl, staged, Cloud, file>>, Verbing(t)'
    PROVE  IInv'
<1>1. UNCHANGED <<decl, staged, state, tainted, serial, real, used, file>>
  BY DEF Cloud
<1>2. job' \in [Terms -> Job] /\ \A u \in Terms \ {t} : job'[u] = job[u]
  BY DEF IInv, Shapes
<1>3. Shapes'
  BY <1>1, <1>2 DEF IInv, Shapes
<1>4. Owned' /\ Pushable'
  BY <1>1 DEF IInv, Owned, Sound, Pushable, Edited
<1>5. \A u \in Terms \ {t} : Verbing(u)'
  BY <1>1, <1>2, Untouched DEF IInv
<1>6. QED
  BY <1>3, <1>4, <1>5 DEF IInv

LEMMA EditKeeps == ASSUME IInv, Edit PROVE IInv'
<1>1. /\ job' = [t \in Terms |-> [job[t] EXCEPT !.quiet = FALSE]]
      /\ UNCHANGED <<staged, state, tainted, serial, real, used, file>>
  BY DEF Edit, Cloud
<1>2. decl' \in [Names -> Entry]
  <2>1. PICK n \in Names, m \in Names :
          \/ n # m /\ decl[n] # "absent" /\ decl[m] = "absent" /\ decl' = Renamed(decl, n, m)
          \/ n = m /\ \E e \in Entry \ {decl[n]} : decl' = [decl EXCEPT ![n] = e]
    BY DEF Edit
  <2>2. decl \in [Names -> Entry] /\ "absent" \in Entry
    BY DEF IInv, Shapes, Entry
  <2>3. QED
    BY <2>1, <2>2 DEF Renamed
<1>3. ASSUME NEW u \in Terms
      PROVE  /\ job'[u] = [job[u] EXCEPT !.quiet = FALSE, !.others = @ \union {}]
             /\ job'[u] \in Job
  <2>1. job[u] \in Job
    BY DEF IInv, Shapes
  <2>2. job[u].others \union {} = job[u].others
    OBVIOUS
  <2>3. job'[u] = [job[u] EXCEPT !.quiet = FALSE]
    BY <1>1
  <2>4. [job[u] EXCEPT !.quiet = FALSE, !.others = job[u].others]
           = [job[u] EXCEPT !.quiet = FALSE]
    BY <2>1 DEF Job
  <2>5. job'[u] \in Job
    BY <2>1, <2>3 DEF Job
  <2>6. QED
    BY <2>2, <2>3, <2>4, <2>5
<1>4. job' \in [Terms -> Job]
  BY <1>1, <1>3
<1>5. Shapes'
  BY <1>1, <1>2, <1>4 DEF IInv, Shapes
<1>6. Owned' /\ Pushable'
  BY <1>1 DEF IInv, Owned, Sound, Pushable, Edited
<1>7. Took({})
  BY <1>1 DEF Took
<1>8. \A u \in Terms : Verbing(u)'
  BY <1>1, <1>3, <1>7, Onlooker DEF IInv
<1>9. QED
  BY <1>5, <1>6, <1>8 DEF IInv

LEMMA RunType ==
    ASSUME NEW verb \in Verbs, NEW addr \in Addrs \union {None},
           NEW from \in Names \union {None}, NEW to \in Names \union {None}
    PROVE  /\ Run(verb, addr, from, to) \in Job
           /\ Run(verb, addr, from, to).pc = "run" /\ Run(verb, addr, from, to).verb = verb
           /\ Run(verb, addr, from, to).addr = addr
           /\ Run(verb, addr, from, to).from = from /\ Run(verb, addr, from, to).to = to
<1>1. Idle \in Job
  BY IdleType
<1>2. QED
  BY <1>1 DEF Run, Job

LEMMA BeginKeeps ==
    ASSUME IInv, NEW t \in Terms, NEW verb \in Verbs, NEW addr \in Addrs \union {None},
           NEW from \in Names \union {None}, NEW to \in Names \union {None},
           verb \in {"mv", "rm", "untaint", "import"} => addr \in Addrs,
           verb \in {"mv", "rekey"} => to \in Names,
           verb = "rekey" => from # to,
           verb = "push" => file[t] # None,
           Begin(t, Run(verb, addr, from, to))
    PROVE  IInv'
<1> DEFINE j == Run(verb, addr, from, to)
<1>1. /\ j \in Job /\ j.pc = "run" /\ j.verb = verb /\ j.addr = addr
      /\ j.from = from /\ j.to = to /\ j.left = {}
  <2>1. j \in Job
    BY RunType
  <2>2. j.pc = "run" /\ j.left = {}
    BY DEF Run, Idle
  <2>3. j.verb = verb
    BY DEF Run, Idle
  <2>4. j.addr = addr /\ j.from = from /\ j.to = to
    BY RunType
  <2>5. QED
    BY <2>1, <2>2, <2>3, <2>4
<1>2. /\ staged' = decl /\ job' = Disturb(t, [job EXCEPT ![t] = j], {})
      /\ UNCHANGED <<decl, state, tainted, serial, real, used, file>>
  BY DEF Begin, Cloud
<1> HIDE DEF j
<1>3. /\ job' \in [Terms -> Job] /\ job'[t] = j
      /\ \A u \in Terms \ {t} :
            job'[u] = [job[u] EXCEPT !.quiet = FALSE, !.others = @ \union {}]
  <2>1. {} \in SUBSET (Objects \union {None})
    OBVIOUS
  <2>2. QED
    BY <1>1, <1>2, <2>1, Disturbing DEF IInv
<1>4. Shapes'
  BY <1>2, <1>3 DEF IInv, Shapes
<1>5. Owned' /\ Pushable'
  BY <1>2 DEF IInv, Owned, Sound, Pushable, Edited
<1>6. Verbing(t)'
  BY <1>1, <1>2, <1>3 DEF Verbing, Arguments, Listed, Accounted, Undisturbed, Holding
<1>7. Took({})
  BY <1>2 DEF Took
<1>8. \A u \in Terms \ {t} : Verbing(u)'
  BY <1>2, <1>3, <1>7, Onlooker DEF IInv
<1>9. QED
  BY <1>4, <1>5, <1>6, <1>8 DEF IInv

LEMMA BeginVerbKeeps == ASSUME IInv, NEW t \in Terms, BeginVerb(t) PROVE IInv'
<1> USE DEF Verbs
<1>1. CASE Begin(t, Run("apply", None, None, None))
  BY <1>1, BeginKeeps
<1>2. CASE Begin(t, Run("pull", None, None, None))
  BY <1>2, BeginKeeps
<1>3. CASE file[t] # None /\ Begin(t, Run("push", None, None, None))
  BY <1>3, BeginKeeps
<1>4. ASSUME NEW a \in Addrs, Begin(t, Run("destroy", a, None, None)) PROVE IInv'
  BY <1>4, BeginKeeps
<1>5. ASSUME NEW a \in Addrs, NEW v \in {"rm", "untaint", "import"},
             Begin(t, Run(v, a, None, None))
      PROVE  IInv'
  BY <1>5, BeginKeeps
<1>6. ASSUME NEW a \in Addrs, NEW n \in Names, Begin(t, Run("mv", a, None, n)) PROVE IInv'
  BY <1>6, BeginKeeps
<1>7. CASE Begin(t, Run("destroy", None, None, None))
  BY <1>7, BeginKeeps
<1>8. ASSUME NEW old \in Names, NEW new \in Names, old # new,
             Begin(t, Run("rekey", None, old, new))
      PROVE  IInv'
  BY <1>8, BeginKeeps
<1>9. QED
  BY <1>1, <1>2, <1>3, <1>4, <1>5, <1>6, <1>7, <1>8 DEF BeginVerb

LEMMA PullKeeps == ASSUME IInv, NEW t \in Terms, Pull(t) PROVE IInv'
<1>1. PICK s \in Edited(state) :
         file' = [file EXCEPT ![t] = [state |-> s, serial |-> serial + 1]]
  BY DEF Pull
<1>2. /\ job' = [job EXCEPT ![t] = Idle]
      /\ UNCHANGED <<decl, staged, state, tainted, serial, real, used>>
  BY DEF Pull, Cloud
<1>3. job' \in [Terms -> Job] /\ job'[t] = Idle /\ \A u \in Terms \ {t} : job'[u] = job[u]
  BY <1>2, IdleType DEF IInv, Shapes
<1>4. s \in States
  BY StateTypes DEF Edited, States
<1>5. /\ file' \in [Terms -> Saved \union {None}]
      /\ file'[t].state = s /\ file'[t].serial = serial + 1
      /\ \A u \in Terms \ {t} : file'[u] = file[u]
  BY <1>1, <1>4 DEF IInv, Shapes, Saved
<1>6. Shapes'
  BY <1>2, <1>3, <1>5 DEF IInv, Shapes
<1>7. Owned'
  BY <1>2 DEF IInv, Owned, Sound
<1>8. Pushable'
  <2> SUFFICES ASSUME NEW u \in Terms, file'[u] # None
               PROVE  /\ file'[u].serial <= serial + 1
                      /\ file'[u].serial = serial + 1 => file'[u].state \in Edited(state)
    BY <1>2 DEF Pushable, Edited
  <2>1. CASE u = t
    BY <1>5, <2>1 DEF IInv, Shapes
  <2>2. CASE u # t
    BY <1>5, <2>2 DEF IInv, Pushable
  <2>3. QED
    BY <2>1, <2>2
<1>9. Verbing(t)'
  BY <1>3, IdleVerbs
<1>10. \A u \in Terms \ {t} : Verbing(u)'
  BY <1>2, <1>3, <1>5, Untouched DEF IInv
<1>11. QED
  BY <1>6, <1>7, <1>8, <1>9, <1>10 DEF IInv

-----------------------------------------------------------------------------
(* rekey *)

LEMMA RekeyListKeeps == ASSUME IInv, NEW t \in Terms, RekeyList(t) PROVE IInv'
<1> DEFINE M == Matches(state, job[t].from)
           j == [job[t] EXCEPT !.pc = "confirm", !.held = [a \in M |-> state[a]],
                               !.left = M, !.others = {}]
<1>1. /\ job[t].pc = "run" /\ job[t].verb = "rekey"
      /\ UNCHANGED <<decl, staged, Cloud, file>>
      /\ job' = [job EXCEPT ![t] = IF RekeyRefused(state, job[t].from, job[t].to) THEN Idle
                                  ELSE j]
  BY DEF RekeyList, Running
<1>2. CASE RekeyRefused(state, job[t].from, job[t].to)
  <2>1. job' = [job EXCEPT ![t] = Idle]
    BY <1>1, <1>2
  <2>2. job'[t] = Idle
    BY <2>1 DEF IInv, Shapes
  <2>3. QED
    BY <1>1, <2>1, <2>2, IdleType, IdleVerbs, Quietly
<1>3. CASE ~RekeyRefused(state, job[t].from, job[t].to)
  <2>1. job' = [job EXCEPT ![t] = j]
    BY <1>1, <1>3
  <2>2. /\ M # {} /\ M \subseteq Addrs
        /\ \A a \in M : state[a] # None /\ Segment(a) = job[t].from
        /\ \A a \in Addrs : state[a] # None /\ Segment(a) = job[t].from => a \in M
    BY <1>3 DEF RekeyRefused, Matches
  <2> HIDE DEF M
  <2>3. [a \in M |-> state[a]] \in Listing
    <3>1. \A a \in M : state[a] \in Objects
      BY <2>2, StateTypes
    <3>2. [a \in M |-> state[a]] \in [M -> Objects]
      BY <3>1
    <3>3. QED
      BY <2>2, <3>2 DEF Listing
  <2>4. job[t] \in Job
    BY DEF IInv, Shapes
  <2>5. j \in Job
    BY <2>2, <2>3, <2>4 DEF Job, Holding
  <2>6. /\ j.pc = "confirm" /\ j.held = [a \in M |-> state[a]] /\ j.left = M
        /\ j.from = job[t].from /\ j.to = job[t].to
    BY <2>4 DEF Job
  <2> HIDE DEF j
  <2>7. job'[t] = j
    BY <2>1 DEF IInv, Shapes
  <2>8. j.to \in Names /\ j.from # j.to
    BY <1>1, <2>6 DEF IInv, Verbing, Arguments
  <2>9. state' = state
    BY <1>1 DEF Cloud
  <2>10. Arguments(t)' /\ Listed(t)' /\ Accounted(t)' /\ Undisturbed(t)'
    BY <2>2, <2>6, <2>7, <2>8, <2>9 DEF Arguments, Listed, Accounted, Undisturbed
  <2>11. QED
    BY <1>1, <2>1, <2>5, <2>10, Quietly DEF Verbing
<1>4. QED
  BY <1>2, <1>3

LEMMA RekeyConfirmKeeps == ASSUME IInv, NEW t \in Terms, RekeyConfirm(t) PROVE IInv'
<1> DEFINE j == [job[t] EXCEPT !.pc = "mv"]
<1>1. /\ job[t].pc = "confirm" /\ UNCHANGED <<decl, staged, Cloud, file>>
      /\ job' = [job EXCEPT ![t] = Idle] \/ job' = [job EXCEPT ![t] = j]
  BY DEF RekeyConfirm
<1>2. CASE job' = [job EXCEPT ![t] = Idle]
  <2>1. job'[t] = Idle
    BY <1>2 DEF IInv, Shapes
  <2>2. QED
    BY <1>1, <1>2, <2>1, IdleType, IdleVerbs, Quietly
<1>3. CASE job' = [job EXCEPT ![t] = j]
  <2>1. job[t] \in Job
    BY DEF IInv, Shapes
  <2>2. /\ j \in Job /\ j.pc = "mv" /\ j.held = job[t].held /\ j.left = job[t].left
        /\ j.from = job[t].from /\ j.to = job[t].to /\ j.quiet = job[t].quiet
        /\ j.others = job[t].others
    BY <2>1 DEF Job, Holding
  <2> HIDE DEF j
  <2>3. job'[t] = j
    BY <1>3 DEF IInv, Shapes
  <2>4. state' = state
    BY <1>1 DEF Cloud
  <2>5. Verbing(t)
    BY DEF IInv
  <2>6. Arguments(t)' /\ Listed(t)' /\ Accounted(t)' /\ Undisturbed(t)'
    BY <1>1, <2>2, <2>3, <2>4, <2>5
    DEF Verbing, Arguments, Listed, Accounted, Undisturbed, Holding
  <2>7. QED
    BY <1>1, <1>3, <2>2, <2>6, Quietly DEF Verbing
<1>4. QED
  BY <1>1, <1>2, <1>3

(* The move of one listed address.  No other listed address is in its way: of
   one type only one address has the old name. *)
LEMMA OneMoved ==
    ASSUME IInv, NEW t \in Terms, job[t].pc = "mv", NEW a \in job[t].left,
           CanMove(a, RekeyAddress(a, job[t].to)),
           Store(Moved(a, RekeyAddress(a, job[t].to)), MovedTaint(a, RekeyAddress(a, job[t].to))),
           job' = Disturb(t, [job EXCEPT ![t].left = job[t].left \ {a},
                                ![t].pc = IF job[t].left \ {a} = {} THEN "rekeyed" ELSE "mv"],
                          {state[a]}),
           UNCHANGED <<decl, staged, real, used, file>>
    PROVE  /\ IInv' /\ job'[t].others = job[t].others
           /\ job'[t].held = job[t].held /\ job'[t].to = job[t].to
<1> DEFINE j == job[t]
           dst == RekeyAddress(a, job[t].to)
           rest == job[t].left \ {a}
           k == [job[t] EXCEPT !.left = rest, !.pc = IF rest = {} THEN "rekeyed" ELSE "mv"]
<1>1. j \in Job
  BY DEF IInv, Shapes
<1>2. /\ k \in Job /\ k.pc = (IF rest = {} THEN "rekeyed" ELSE "mv") /\ k.left = rest
      /\ k.from = j.from /\ k.to = j.to /\ k.held = j.held /\ k.quiet = j.quiet
      /\ k.others = j.others
  BY <1>1 DEF Job, Holding
<1>3. job' = Disturb(t, [job EXCEPT ![t] = k], {state[a]})
  <2>1. [job EXCEPT ![t].left = job[t].left \ {a},
                    ![t].pc = IF job[t].left \ {a} = {} THEN "rekeyed" ELSE "mv"]
           = [job EXCEPT ![t] = k]
    BY <1>1 DEF IInv, Shapes
  <2>2. QED
    BY <2>1
<1>4. /\ j.to \in Names /\ j.from # j.to /\ DOMAIN j.held # {} /\ j.left \subseteq DOMAIN j.held
      /\ \A b \in DOMAIN j.held : Segment(b) = j.from
      /\ \A b \in DOMAIN j.held :
            \/ j.held[b] \in j.others
            \/ b \in j.left /\ state[b] = j.held[b]
            \/ b \notin j.left /\ state[RekeyAddress(b, j.to)] = j.held[b]
      /\ j.quiet => \A b \in Addrs : state[b] # None /\ Segment(b) = j.from => b \in j.left
  BY DEF IInv, Verbing, Listed, Accounted, Undisturbed, Holding
<1>5. DOMAIN j.held \subseteq Addrs /\ \A b \in DOMAIN j.held : j.held[b] # None
  BY <1>1, ListingType, NoneIsNoObject DEF Job
<1>6. a \in Addrs /\ a \in j.left /\ Segment(a) = j.from
  BY <1>4, <1>5
<1>7. dst \in Addrs /\ dst.type = a.type
  BY <1>4, <1>6, Renaming
<1>8. state[a] # None /\ state[dst] = None
  BY DEF CanMove
<1>9. /\ state' = Moved(a, dst) /\ tainted' = MovedTaint(a, dst)
      /\ \/ serial' = serial /\ state' = state
         \/ serial' = serial + 1
  BY Storing
<1>10. /\ Sound(state', used) /\ tainted' \subseteq Addrs
       /\ \A b \in tainted' : state'[b] # None
       /\ state'[dst] = state[a] /\ state'[a] = None /\ dst # a
       /\ \A b \in Addrs \ {a, dst} : state'[b] = state[b]
  BY <1>6, <1>7, <1>9, Moving
<1>11. {state[a]} \in SUBSET (Objects \union {None}) /\ Took({state[a]})
  <2>1. state[a] \in Objects \union {None}
    BY <1>6, StateTypes
  <2>2. QED
    BY <1>8, <1>10, <2>1 DEF Took
<1>k. k.pc \in {"rekeyed", "mv"} /\ (k.pc = "rekeyed" => rest = {})
  BY <1>2
<1>s. Shapes
  BY DEF IInv
<1> HIDE DEF k, rest, dst, j
<1>12. /\ job' \in [Terms -> Job] /\ job'[t] = k
       /\ \A u \in Terms \ {t} :
             job'[u] = [job[u] EXCEPT !.quiet = FALSE, !.others = @ \union {state[a]}]
  <2>1. job' \in [Terms -> Job]
    BY <1>2, <1>3, <1>11, <1>s, Disturbing
  <2>2. job'[t] = k
    BY <1>2, <1>3, <1>11, <1>s, Disturbing
  <2>3. ASSUME NEW u \in Terms \ {t}
        PROVE  job'[u] = [job[u] EXCEPT !.quiet = FALSE, !.others = @ \union {state[a]}]
    BY <1>3, <1>s DEF Disturb, Shapes
  <2>4. QED
    BY <2>1, <2>2, <2>3
<1>13. Shapes'
  <2>1. serial' \in Nat
    BY <1>9 DEF IInv, Shapes
  <2>2. QED
    BY <1>10, <1>12, <2>1 DEF IInv, Shapes
<1>14. Owned'
  BY <1>10 DEF Owned, Sound
<1>15. Pushable'
  <2> SUFFICES ASSUME NEW u \in Terms, file[u] # None
               PROVE  /\ file[u].serial <= serial' + 1
                      /\ file[u].serial = serial' + 1 => file[u].state \in Edited(state')
    BY DEF Pushable
  <2>1. file[u].serial \in Nat /\ serial \in Nat
    BY DEF IInv, Shapes, Saved
  <2>2. /\ file[u].serial <= serial + 1
        /\ file[u].serial = serial + 1 => file[u].state \in Edited(state)
    BY DEF IInv, Pushable
  <2>3. QED
    BY <1>9, <2>1, <2>2
<1>16. rest = j.left \ {a}
  BY DEF j, rest
<1>17. dst = RekeyAddress(a, j.to)
  BY DEF j, dst
<1>18. Arguments(t)'
  BY <1>12, <1>k DEF Arguments
<1>19. Listed(t)'
  BY <1>2, <1>k, <1>4, <1>12, <1>16 DEF Listed
<1>20. Accounted(t)'
  <2> SUFFICES ASSUME NEW b \in DOMAIN j.held
               PROVE  \/ j.held[b] \in j.others
                      \/ /\ b \in rest
                         /\ state'[b] = j.held[b]
                      \/ /\ b \notin rest
                         /\ state'[RekeyAddress(b, j.to)] = j.held[b]
    BY <1>2, <1>12 DEF Accounted
  <2>1. CASE b = a
    BY <1>4, <1>6, <1>10, <1>16, <1>17, <2>1
  <2>2. CASE b # a /\ b \in j.left
    BY <1>4, <1>5, <1>8, <1>10, <1>16, <2>2
  <2>3. CASE b \notin j.left
    <3> DEFINE e == RekeyAddress(b, j.to)
    <3>1. e \in Addrs /\ e.type = b.type
      BY <1>4, <1>5, Renaming
    <3>2. CASE j.held[b] \in j.others
      BY <3>2
    <3>3. CASE state[e] = j.held[b]
      <4>1. e # dst
        BY <1>5, <1>8, <3>3
      <4>2. e # a
        <5> SUFFICES ASSUME e = a PROVE FALSE
          OBVIOUS
        <5>1. b.type = a.type /\ Segment(b) = Segment(a) /\ b \in Addrs
          BY <1>4, <1>5, <1>6, <3>1
        <5>2. b = a
          BY <1>6, <5>1, SegmentsDiffer
        <5>3. QED
          BY <1>6, <2>3, <5>2
      <4>3. QED
        BY <1>10, <1>16, <2>3, <3>1, <3>3, <4>1, <4>2
    <3>4. QED
      BY <1>4, <2>3, <3>2, <3>3
  <2>4. QED
    BY <2>1, <2>2, <2>3
<1>21. Undisturbed(t)'
  <2> SUFFICES ASSUME j.quiet, NEW b \in Addrs, state'[b] # None, Segment(b) = j.from
               PROVE  b \in rest
    BY <1>2, <1>12 DEF Undisturbed
  <2>1. b # dst
    BY <1>6, <1>7, <1>10, SegmentsDiffer
  <2>2. QED
    BY <1>4, <1>10, <1>16, <2>1
<1>22. \A u \in Terms \ {t} : Verbing(u)'
  BY <1>11, <1>12, Onlooker DEF IInv
<1>23. QED
  BY <1>2, <1>12, <1>13, <1>14, <1>15, <1>18, <1>19, <1>20, <1>21, <1>22
  DEF IInv, Verbing, j

LEMMA RekeyMoveKeeps ==
    ASSUME IInv, NEW t \in Terms, RekeyMove(t)
    PROVE  /\ IInv'
           /\ job'[t].pc = "rekeyed" => /\ job'[t].others = job[t].others
                                        /\ job'[t].held = job[t].held
                                        /\ job'[t].to = job[t].to
<1>1. job[t].pc = "mv" /\ UNCHANGED <<decl, staged, real, used, file>>
  BY DEF RekeyMove
<1>2. PICK a \in job[t].left :
         LET dst == RekeyAddress(a, job[t].to)
             rest == job[t].left \ {a}
         IN  \/ /\ CanMove(a, dst) /\ Store(Moved(a, dst), MovedTaint(a, dst))
                /\ job' = Disturb(t, [job EXCEPT ![t].left = rest,
                             ![t].pc = IF rest = {} THEN "rekeyed" ELSE "mv"], {state[a]})
             \/ UNCHANGED <<state, tainted, serial>>
                /\ job' = [job EXCEPT ![t] = AfterFailure(t)]
  BY DEF RekeyMove
<1>3. CASE UNCHANGED <<state, tainted, serial>> /\ job' = [job EXCEPT ![t] = AfterFailure(t)]
  <2>1. job' = [job EXCEPT ![t] = Idle]
    BY <1>3 DEF AfterFailure
  <2>2. job'[t] = Idle
    BY <2>1 DEF IInv, Shapes
  <2>3. UNCHANGED <<decl, staged, Cloud, file>>
    BY <1>1, <1>3 DEF Cloud
  <2>4. job'[t].pc # "rekeyed"
    BY <2>2 DEF Idle
  <2>5. QED
    BY <2>1, <2>2, <2>3, <2>4, IdleType, IdleVerbs, Quietly
<1>4. QED
  BY <1>1, <1>2, <1>3, OneMoved

-----------------------------------------------------------------------------
(* The first state *)

(* There are objects enough for the first apply. *)
LEMMA Room ==
    ASSUME NEW A \in SUBSET Addrs
    PROVE  \E g \in [A -> Objects] : /\ \A a \in A : g[a][1] = a.type
                                     /\ \A a, b \in A : g[a] = g[b] => a = b
<1> DEFINE N == Cardinality(Names)
<1>1. N \in Nat /\ ExistsBijection(1 .. N, Names)
  BY VerbsAssumption, FS_CardinalityType
<1>2. ExistsBijection(Names, 1 .. N)
  BY <1>1, Fun_ExistsBijSymmetric
<1>3. PICK index \in Bijection(Names, 1 .. N) : TRUE
  BY <1>2 DEF ExistsBijection
<1>4. /\ index \in [Names -> 1 .. N]
      /\ \A n, m \in Names : index[n] = index[m] => n = m
  BY <1>3 DEF Bijection, Injection, IsInjective
<1>5. N <= MaxId /\ MaxId \in Nat
  BY VerbsAssumption
<1> HIDE DEF N
<1>6. \A n \in Names : index[n] \in 1 .. MaxId
  BY <1>1, <1>4, <1>5
<1> DEFINE g == [a \in A |-> <<a.type, index[a.name]>>]
<1>7. \A a \in A : a.type \in Types /\ a.name \in Names /\ a = [type |-> a.type, name |-> a.name]
  BY DEF Addrs
<1>8. g \in [A -> Objects]
  BY <1>6, <1>7 DEF Objects
<1>9. \A a \in A : g[a][1] = a.type
  OBVIOUS
<1>10. ASSUME NEW a \in A, NEW b \in A, g[a] = g[b] PROVE a = b
  <2>1. a.type = b.type /\ index[a.name] = index[b.name]
    BY <1>10
  <2>2. a.name = b.name
    BY <1>4, <1>7, <2>1
  <2>3. QED
    BY <1>7, <2>1, <2>2
<1> HIDE DEF g
<1>11. QED
  BY <1>8, <1>9, <1>10

LEMMA InitInv == ASSUME Init PROVE IInv
<1>1. PICK A \in SUBSET Addrs :
        LET f == CHOOSE g \in [A -> Objects] :
                   /\ \A a \in A : g[a][1] = a.type
                   /\ \A a, b \in A : g[a] = g[b] => a = b
        IN  /\ state = [a \in Addrs |-> IF a \in A THEN f[a] ELSE None]
            /\ real = {f[a] : a \in A} /\ used = real
  BY DEF Init
<1> DEFINE f == CHOOSE g \in [A -> Objects] :
                   /\ \A a \in A : g[a][1] = a.type
                   /\ \A a, b \in A : g[a] = g[b] => a = b
<1>2. /\ state = [a \in Addrs |-> IF a \in A THEN f[a] ELSE None]
      /\ real = {f[a] : a \in A} /\ used = real
  BY <1>1
<1>3. \E g \in [A -> Objects] : /\ \A a \in A : g[a][1] = a.type
                                /\ \A a, b \in A : g[a] = g[b] => a = b
  BY Room
<1>4. /\ f \in [A -> Objects]
      /\ \A a \in A : f[a][1] = a.type
      /\ \A a, b \in A : f[a] = f[b] => a = b
  BY <1>3, Zenon
<1> HIDE DEF f
<1>5. Sound(state, used)
  BY <1>2, <1>4, NoneIsNoObject DEF Sound, States
<1>6. used \subseteq Objects
  BY <1>2, <1>4
<1>7. /\ decl \in [Names -> Entry] /\ staged = decl /\ tainted = {} /\ serial = 0
      /\ job = [t \in Terms |-> Idle] /\ file = [t \in Terms |-> None]
  BY DEF Init
<1>8. Shapes
  BY <1>2, <1>6, <1>7, IdleType DEF Shapes
<1>9. Pushable
  BY <1>7 DEF Pushable
<1>10. ASSUME NEW t \in Terms PROVE Verbing(t)
  <2>1. job[t].pc = "idle" /\ job[t].left = {}
    BY <1>7 DEF Idle
  <2>2. QED
    BY <2>1 DEF Verbing, Arguments, Listed, Accounted, Undisturbed, Holding
<1>11. QED
  BY <1>5, <1>8, <1>9, <1>10 DEF IInv, Owned

-----------------------------------------------------------------------------
(* The theorems *)

LEMMA StepKeeps == ASSUME IInv, [Next]_vars PROVE IInv'
<1>1. CASE Edit
  BY <1>1, EditKeeps
<1>2. ASSUME NEW t \in Terms, Verb(t) PROVE IInv'
  <2>1. CASE BeginVerb(t)
    BY <2>1, BeginVerbKeeps
  <2>2. CASE Apply(t)
    BY <2>2, ApplyKeeps
  <2>3. CASE Destroy(t)
    BY <2>3, DestroyKeeps
  <2>4. CASE StateMv(t)
    BY <2>4, StateMvKeeps
  <2>5. CASE StateRm(t)
    BY <2>5, StateRmKeeps
  <2>6. CASE Untaint(t)
    BY <2>6, UntaintKeeps
  <2>7. CASE Import(t)
    BY <2>7, ImportKeeps
  <2>8. CASE Pull(t)
    BY <2>8, PullKeeps
  <2>9. CASE Push(t)
    BY <2>9, PushKeeps
  <2>10. CASE RekeyList(t)
    BY <2>10, RekeyListKeeps
  <2>11. CASE RekeyConfirm(t)
    BY <2>11, RekeyConfirmKeeps
  <2>12. CASE RekeyMove(t)
    BY <2>12, RekeyMoveKeeps
  <2>13. QED
    BY <1>2, <2>1, <2>2, <2>3, <2>4, <2>5, <2>6, <2>7, <2>8, <2>9, <2>10, <2>11, <2>12
    DEF Verb
<1>3. CASE UNCHANGED vars
  <2>1. UNCHANGED <<decl, staged, state, tainted, serial, real, used, job, file>>
    BY <1>3 DEF vars
  <2>2. Shapes' /\ Owned' /\ Pushable'
    BY <2>1 DEF IInv, Shapes, Owned, Sound, Pushable, Edited
  <2>3. \A t \in Terms : Verbing(t)'
    BY <2>1, Untouched DEF IInv
  <2>4. QED
    BY <2>2, <2>3 DEF IInv
<1>4. QED
  BY <1>1, <1>2, <1>3 DEF Next

(* The inductive invariant holds in every reachable state: whatever the verbs
   of the terminals and the edits of the manifest do to each other, every
   object has one address at most, and a rekey under way can account for every
   object it listed. *)
THEOREM Invariance == Spec => []IInv
<1>1. Init => IInv
  BY InitInv
<1>2. IInv /\ [Next]_vars => IInv'
  BY StepKeeps
<1>3. QED
  BY <1>1, <1>2, PTL DEF Spec

(* Every object has one address at most and of its own type, and a tainted
   address has an object: apply, destroy, the state verbs, a pushed state and
   the moves of a rekey never bind one object twice. *)
THEOREM TypeCorrect == Spec => []TypeOK
<1>1. ASSUME IInv PROVE TypeOK
  <2>1. ASSUME NEW t \in Terms
        PROVE  /\ job[t].verb \in Verbs
               /\ job[t].pc \in {"idle", "run", "confirm", "mv", "rekeyed"}
               /\ DOMAIN job[t].held \subseteq Addrs
    <3>1. job[t] \in Job
      BY <1>1 DEF IInv, Shapes
    <3>2. QED
      BY <3>1, ListingType DEF Job, Holding
  <2>2. ASSUME NEW t \in Terms
        PROVE  /\ job[t].left \subseteq DOMAIN job[t].held
               /\ job[t].pc \in {"confirm", "mv", "rekeyed"} => DOMAIN job[t].held # {}
               /\ file[t] \in Saved \union {None}
    BY <1>1 DEF IInv, Shapes, Verbing, Listed, Holding
  <2>3. /\ decl \in [Names -> Entry] /\ staged \in [Names -> Entry]
        /\ real \subseteq used /\ used \subseteq Objects /\ serial \in Nat
        /\ \A a \in tainted : state[a] # None
    BY <1>1 DEF IInv, Shapes
  <2>4. /\ state \in States
        /\ \A a \in Addrs : state[a] # None => state[a][1] = a.type /\ state[a] \in used
        /\ \A a, b \in Addrs : state[a] = state[b] /\ state[a] # None => a = b
    BY <1>1 DEF IInv, Owned, Sound
  <2>5. QED
    BY <2>1, <2>2, <2>3, <2>4 DEF TypeOK, Saved, States
<1>2. QED
  BY <1>1, Invariance, PTL

(* After a rename in the manifest and a rekey that nothing came between, the
   next apply destroys nothing of the old name: every type's address of it
   was listed and moved. *)
THEOREM RekeyIsInPlace == Spec => []InPlace
<1>1. ASSUME IInv PROVE InPlace
  <2> SUFFICES ASSUME NEW t \in Terms, job[t].pc = "rekeyed", job[t].quiet,
                      NEW a \in Destroys(decl), Segment(a) = job[t].from
               PROVE  FALSE
    BY DEF InPlace
  <2>1. job[t].left = {} /\ Undisturbed(t)
    BY <1>1 DEF IInv, Verbing, Listed, Holding
  <2>2. a \in Addrs /\ state[a] # None
    BY DEF Destroys
  <2>3. QED
    BY <2>1, <2>2 DEF Undisturbed, Holding
<1>2. QED
  BY <1>1, Invariance, PTL

(* Only its own last move ends a rekey. *)
LEMMA RekeyEnds ==
    ASSUME IInv, [Next]_vars, NEW t \in Terms, Rekeys(t)
    PROVE  RekeyMove(t)
<1>1. job \in [Terms -> Job] /\ job[t].pc = "mv" /\ job'[t].pc = "rekeyed"
  BY DEF IInv, Shapes, Rekeys
<1>2. ASSUME NEW u \in Terms \ {t}, NEW j, NEW objs, job' = Disturb(u, [job EXCEPT ![u] = j], objs)
      PROVE  FALSE
  <2>1. job'[t] = [job[t] EXCEPT !.quiet = FALSE, !.others = @ \union objs]
    BY <1>1, <1>2 DEF Disturb
  <2>2. job[t] \in Job
    BY <1>1
  <2>3. job'[t].pc = job[t].pc
    BY <2>1, <2>2 DEF Job
  <2>4. QED
    BY <1>1, <2>3
<1>3. ASSUME NEW u \in Terms \ {t}, NEW j, job' = [job EXCEPT ![u] = j] PROVE FALSE
  BY <1>1, <1>3
<1>4. ~Edit
  <2> SUFFICES ASSUME Edit PROVE FALSE
    OBVIOUS
  <2>1. job'[t] = [job[t] EXCEPT !.quiet = FALSE]
    BY DEF Edit
  <2>2. job[t] \in Job
    BY <1>1
  <2>3. job'[t].pc = job[t].pc
    BY <2>1, <2>2 DEF Job
  <2>4. QED
    BY <1>1, <2>3
<1>5. ASSUME NEW u \in Terms \ {t}, Verb(u) PROVE FALSE
  <2>1. ASSUME NEW j, Begin(u, j) PROVE FALSE
    BY <1>2, <2>1 DEF Begin
  <2>2. ASSUME NEW objs, Finish(u, objs) PROVE FALSE
    BY <1>2, <2>2 DEF Finish
  <2>3. CASE BeginVerb(u)
    BY <2>1, <2>3 DEF BeginVerb
  <2>4. CASE Apply(u)
    BY <2>2, <2>4 DEF Apply
  <2>5. CASE Destroy(u)
    BY <2>2, <2>5 DEF Destroy
  <2>6. CASE StateMv(u)
    BY <2>2, <2>6 DEF StateMv, NoChange
  <2>7. CASE StateRm(u)
    BY <2>2, <2>7 DEF StateRm
  <2>8. CASE Untaint(u)
    BY <2>2, <2>8 DEF Untaint
  <2>9. CASE Import(u)
    BY <2>2, <2>9 DEF Import, NoChange
  <2>10. CASE Pull(u)
    BY <1>3, <2>10 DEF Pull
  <2>11. CASE Push(u)
    BY <2>2, <2>11 DEF Push, NoChange
  <2>12. CASE RekeyList(u)
    BY <1>3, <2>12 DEF RekeyList
  <2>13. CASE RekeyConfirm(u)
    BY <1>3, <2>13 DEF RekeyConfirm
  <2>14. CASE RekeyMove(u)
    <3>1. PICK a \in job[u].left :
            \/ job' = Disturb(u, [job EXCEPT ![u].left = job[u].left \ {a},
                         ![u].pc = IF job[u].left \ {a} = {} THEN "rekeyed" ELSE "mv"], {state[a]})
            \/ job' = [job EXCEPT ![u] = AfterFailure(u)]
      BY <2>14 DEF RekeyMove
    <3>2. CASE job' = [job EXCEPT ![u] = AfterFailure(u)]
      BY <1>3, <3>2
    <3>3. CASE job' = Disturb(u, [job EXCEPT ![u].left = job[u].left \ {a},
                         ![u].pc = IF job[u].left \ {a} = {} THEN "rekeyed" ELSE "mv"], {state[a]})
      <4>1. job'[t] = [job[t] EXCEPT !.quiet = FALSE, !.others = @ \union {state[a]}]
        BY <1>1, <3>3 DEF Disturb
      <4>2. job[t] \in Job
        BY <1>1
      <4>3. job'[t].pc = job[t].pc
        BY <4>1, <4>2 DEF Job
      <4>4. QED
        BY <1>1, <4>3
    <3>4. QED
      BY <3>1, <3>2, <3>3
  <2>15. QED
    BY <1>5, <2>3, <2>4, <2>5, <2>6, <2>7, <2>8, <2>9, <2>10, <2>11, <2>12, <2>13, <2>14
    DEF Verb
<1>6. Verb(t)
  BY <1>1, <1>4, <1>5 DEF Next, vars
<1>7. ~BeginVerb(t)
  BY <1>1 DEF BeginVerb, Begin
<1>8. QED
  BY <1>1, <1>6, <1>7 DEF Verb, Running, Apply, Destroy, StateMv, StateRm, Untaint, Import,
                          Pull, Push, RekeyList, RekeyConfirm

(* A rekey that reports success has put every object it listed under the new
   name, or another verb has moved, removed or destroyed it meanwhile: at no
   interleaving of two terminals is an object lost by the moves themselves. *)
THEOREM RekeyKeepsObjects == Spec => KeptObjects
<1>1. ASSUME IInv, IInv', [Next]_vars, NEW t \in Terms, Rekeys(t), NEW a \in DOMAIN job[t].held
      PROVE  \/ state'[RekeyAddress(a, job[t].to)] = job[t].held[a]
             \/ job[t].held[a] \in job[t].others
  <2>1. RekeyMove(t) /\ job'[t].pc = "rekeyed"
    BY <1>1, RekeyEnds DEF Rekeys
  <2>2. job'[t].others = job[t].others
    BY <1>1, <2>1, RekeyMoveKeeps
  <2>3. job'[t].held = job[t].held /\ job'[t].to = job[t].to
    BY <1>1, <2>1, RekeyMoveKeeps
  <2>4. job'[t].left = {} /\ Accounted(t)'
    BY <1>1, <2>1 DEF IInv, Verbing, Listed, Holding
  <2>5. QED
    BY <1>1, <2>1, <2>2, <2>3, <2>4 DEF Accounted, Holding
<1>2. IInv /\ IInv' /\ [Next]_vars =>
        [\A t \in Terms : Rekeys(t) =>
            \A a \in DOMAIN job[t].held :
                \/ state'[RekeyAddress(a, job[t].to)] = job[t].held[a]
                \/ job[t].held[a] \in job[t].others]_vars
  BY <1>1
<1>3. QED
  BY <1>2, Invariance, PTL DEF Spec, KeptObjects
=============================================================================
