------------------------------ MODULE TfVerbs ------------------------------
(***************************************************************************)
(* The verbs of `fleet deploy tf` that act on one leaf's state: apply,     *)
(* destroy, rekey, state-mv, state-rm, state-untaint, import, state-pull   *)
(* and state-push, from two terminals in one checkout.  Every verb stages  *)
(* the leaf's configuration in the working directory they share and then   *)
(* runs tofu there; tofu locks the state for one run, so a verb of several *)
(* runs (rekey) can be interleaved with others, and with edits of the      *)
(* manifest.                                                               *)
(***************************************************************************)
EXTENDS Naturals, FiniteSets

CONSTANTS Terms,               \* terminals
          Names,               \* fleet entries
          Exact,               \* resource types named after their entry
          Derived,             \* types with a name of their own, as dns-<entry>
          MaxId,               \* bound: objects of a type ever created
          MaxJobs, MaxEdits,   \* bounds: commands, edits of the manifest
          None

Types == Exact \union Derived
Addrs == [type : Types, name : Names]
Objects == Types \X (1 .. MaxId)

ASSUME VerbsAssumption ==
    /\ Exact \cap Derived = {} /\ None \notin Objects /\ None \notin Names
    /\ MaxId \in Nat /\ MaxJobs \in Nat /\ MaxEdits \in Nat
    /\ IsFiniteSet(Names) /\ Cardinality(Names) <= MaxId     \* for the first apply

VARIABLES decl,      \* the manifest: what each entry is
          staged,    \* .tf/<slug>/config.tf.json
          state,     \* the leaf's state: an object per address
          tainted,   \* addresses the next apply replaces
          serial,    \* of the state
          real,      \* the objects that exist
          used,      \* the objects that ever existed
          job,       \* per terminal: the verb it runs
          file,      \* per terminal: a pulled state
          jobs, edits

vars == <<decl, staged, state, tainted, serial, real, used, job, file, jobs, edits>>
Cloud == <<state, tainted, serial, real, used>>

Entry == {"absent", "plain", "protected"}
Verbs == {None, "apply", "destroy", "rekey", "mv", "rm", "untaint", "import", "pull", "push"}
Idle == [verb |-> None, pc |-> "idle", from |-> None, to |-> None, addr |-> None,
         held |-> <<>>, left |-> {}, quiet |-> FALSE, others |-> {}]

(* Every object has one address at most, and of its own type. *)
TypeOK ==
    /\ decl \in [Names -> Entry] /\ staged \in [Names -> Entry]
    /\ state \in [Addrs -> Objects \union {None}]
    /\ \A a \in Addrs : state[a] # None => state[a][1] = a.type /\ state[a] \in used
    /\ \A a, b \in Addrs : state[a] = state[b] /\ state[a] # None => a = b
    /\ \A a \in tainted : state[a] # None
    /\ real \subseteq used /\ used \subseteq Objects /\ serial \in Nat
    /\ \A t \in Terms :
        /\ job[t].verb \in Verbs /\ job[t].pc \in {"idle", "run", "confirm", "mv", "rekeyed"}
        /\ job[t].left \subseteq DOMAIN job[t].held /\ DOMAIN job[t].held \subseteq Addrs
        /\ job[t].pc \in {"confirm", "mv", "rekeyed"} => DOMAIN job[t].held # {}
        /\ file[t] \in [state : [Addrs -> Objects \union {None}], serial : Nat] \union {None}

-----------------------------------------------------------------------------
(* The manifest, and the start of a verb. *)

Renamed(d, old, new) == [d EXCEPT ![old] = "absent", ![new] = d[old]]
Disturb(t, J, objs) == [u \in Terms |-> IF u = t THEN J[u] ELSE
                          [J[u] EXCEPT !.quiet = FALSE, !.others = @ \union objs]]

Edit == /\ edits < MaxEdits /\ edits' = edits + 1
        /\ \E n, m \in Names :
            \/ n # m /\ decl[n] # "absent" /\ decl[m] = "absent" /\ decl' = Renamed(decl, n, m)
            \/ n = m /\ \E e \in Entry \ {decl[n]} : decl' = [decl EXCEPT ![n] = e]
        /\ job' = [t \in Terms |-> [job[t] EXCEPT !.quiet = FALSE]]
        /\ UNCHANGED <<staged, Cloud, file, jobs>>

Protected(conf) == {n \in Names : conf[n] = "protected"}
Preflight(conf, target) == target # None => target.name \notin Protected(conf)

(* _stage_json and _ensure_init; destroy looks at its target in between. *)
Begin(t, j) ==
    /\ job[t].pc \in {"idle", "rekeyed"} /\ jobs < MaxJobs /\ jobs' = jobs + 1
    /\ staged' = decl
    /\ job' = Disturb(t, [job EXCEPT ![t] = j], {})
    /\ UNCHANGED <<decl, Cloud, file, edits>>

Run(verb, addr, from, to) == [Idle EXCEPT !.verb = verb, !.pc = "run", !.addr = addr,
                                          !.from = from, !.to = to, !.quiet = TRUE]
BeginVerb(t) ==
    \/ Begin(t, Run("apply", None, None, None))
    \/ Begin(t, Run("pull", None, None, None))
    \/ file[t] # None /\ Begin(t, Run("push", None, None, None))
    \/ \E a \in Addrs :
        \/ Preflight(decl, a) /\ Begin(t, Run("destroy", a, None, None))
        \/ \E v \in {"rm", "untaint", "import"} : Begin(t, Run(v, a, None, None))
        \/ \E n \in Names \ {a.name} : Begin(t, Run("mv", a, None, n))
    \/ Preflight(decl, None) /\ Begin(t, Run("destroy", None, None, None))
    \/ \E old, new \in Names : old # new /\ Begin(t, Run("rekey", None, old, new))

-----------------------------------------------------------------------------
(* tofu, one run of it: external. *)

Running(t, verb) == job[t].pc = "run" /\ job[t].verb = verb
Finish(t, objs) == /\ job' = Disturb(t, [job EXCEPT ![t] = Idle], objs)
                   /\ UNCHANGED <<decl, staged, file, jobs, edits>>
Store(s, tt) == /\ state' = s /\ tainted' = tt
                /\ serial' = IF s = state /\ tt = tainted THEN serial ELSE serial + 1

(* What is protected is not replaced: a plan that would is refused. *)
Destroys(conf) == {a \in Addrs : state[a] # None /\ conf[a.name] = "absent"}
Creates(conf) == {a \in Addrs : state[a] = None /\ conf[a.name] # "absent"}
Replaces(conf) == {a \in tainted : conf[a.name] \notin {"absent", "protected"}}
FreshIds(type) == {i \in 1 .. MaxId : <<type, i>> \notin used}
(* Addresses of one type get different objects; ids are given out in order. *)
News(A) == {f \in [A -> Objects] :
              /\ \A a \in A : f[a][1] = a.type /\ f[a][2] \in FreshIds(a.type)
              /\ \A a, b \in A : f[a] = f[b] => a = b
              /\ \A a \in A : \A i \in FreshIds(a.type) :
                    i < f[a][2] => <<a.type, i>> \in {f[b] : b \in A}}

(* The plan of the leaf, or of --target and what that depends on, as far as tofu
   gets: it goes on past a failure, and leaves out what depends on it.  What is
   replaced is destroyed first; what is made and not finished is tainted. *)
Apply(t) ==
    /\ Running(t, "apply")
    /\ \E gone \in SUBSET (Destroys(staged) \union Replaces(staged)) :
       \E made \in SUBSET (Creates(staged) \union (Replaces(staged) \cap gone)) :
       \E f \in News(made), bad \in SUBSET made :
          LET lost == {state[a] : a \in gone} IN
          /\ Store([a \in Addrs |-> IF a \in made THEN f[a] ELSE IF a \in gone THEN None ELSE state[a]],
                   (tainted \ gone) \union bad)
          /\ real' = (real \ lost) \union {f[a] : a \in made}
          /\ used' = used \union {f[a] : a \in made}
          /\ Finish(t, lost)

(* All of the state, or --target and what depends on it, as far as tofu gets. *)
Destroy(t) ==
    /\ Running(t, "destroy")
    /\ LET A == {a \in Addrs : state[a] # None}
           kept == {a \in A : a.name \in Protected(staged)}
       IN  \E gone \in SUBSET (A \ kept) :
            LET lost == {state[a] : a \in gone} IN
            /\ job[t].addr = None /\ kept # {} => gone = {}      \* refused
            /\ Store([a \in Addrs |-> IF a \in gone THEN None ELSE state[a]], tainted \ gone)
            /\ real' = real \ lost /\ UNCHANGED used /\ Finish(t, lost)

Moved(src, dst) == [state EXCEPT ![dst] = state[src], ![src] = None]
MovedTaint(src, dst) == (tainted \ {src}) \union (IF src \in tainted THEN {dst} ELSE {})
CanMove(src, dst) == state[src] # None /\ state[dst] = None

NoChange(t) == UNCHANGED <<state, tainted, serial>> /\ Finish(t, {})

StateMv(t) ==
    /\ Running(t, "mv") /\ UNCHANGED <<real, used>>
    /\ LET src == job[t].addr
           dst == [src EXCEPT !.name = job[t].to]
       IN  IF CanMove(src, dst)
           THEN Store(Moved(src, dst), MovedTaint(src, dst)) /\ Finish(t, {state[src]})
           ELSE NoChange(t)

StateRm(t) ==
    /\ Running(t, "rm") /\ UNCHANGED <<real, used>>
    /\ LET a == job[t].addr
       IN  Store([state EXCEPT ![a] = None], tainted \ {a}) /\ Finish(t, {state[a]})

Untaint(t) == /\ Running(t, "untaint") /\ UNCHANGED <<real, used>>
              /\ Store(state, tainted \ {job[t].addr}) /\ Finish(t, {})

(* Of an object no address has, to a declared address that has none. *)
Import(t) ==
    /\ Running(t, "import") /\ UNCHANGED <<real, used>>
    /\ LET a == job[t].addr
           free == {o \in real : o[1] = a.type /\ \A b \in Addrs : state[b] # o}
       IN  IF state[a] = None /\ staged[a.name] # "absent" /\ free # {}
           THEN \E o \in free : Store([state EXCEPT ![a] = o], tainted) /\ Finish(t, {})
           ELSE NoChange(t)

(* tofu takes a pushed state only if its serial is newer. *)
Edited(s) == {s} \union {[s EXCEPT ![a] = None] : a \in Addrs}
Pull(t) == /\ Running(t, "pull")
           /\ \E s \in Edited(state) : file' = [file EXCEPT ![t] = [state |-> s, serial |-> serial + 1]]
           /\ job' = [job EXCEPT ![t] = Idle] /\ UNCHANGED <<decl, staged, Cloud, jobs, edits>>
Push(t) == /\ Running(t, "push") /\ UNCHANGED <<real, used>>
           /\ IF file[t].serial > serial
              THEN /\ state' = file[t].state /\ serial' = file[t].serial
                   /\ tainted' = {a \in tainted : file[t].state[a] = state[a]}
                   /\ Finish(t, {state[a] : a \in Addrs} \ {file[t].state[a] : a \in Addrs})
              ELSE NoChange(t)

-----------------------------------------------------------------------------
(* rekey: list, confirm, move one by one, stop at the first failure. *)

Segment(a) == IF a.type \in Exact THEN a.name ELSE <<"dns", a.name>>
RekeyAddress(a, new) == [a EXCEPT !.name = new]
MatchesOne(s, old) ==                                                 \* mutant
    LET M == {a \in Addrs : s[a] # None /\ Segment(a) = old}
    IN  IF M = {} THEN {} ELSE {CHOOSE a \in M : TRUE}
Matches(s, old) == {a \in Addrs : s[a] # None /\ Segment(a) = old}
RekeyRefusedNot(s, old, new) == Matches(s, new) # {}                  \* mutant
RekeyRefused(s, old, new) == Matches(s, old) = {} \/ Matches(s, new) # {}

RekeyList(t) ==
    /\ Running(t, "rekey")
    /\ job' = [job EXCEPT ![t] =
         IF RekeyRefused(state, job[t].from, job[t].to) THEN Idle
         ELSE LET M == Matches(state, job[t].from) IN
              [@ EXCEPT !.pc = "confirm", !.held = [a \in M |-> state[a]], !.left = M, !.others = {}]]
    /\ UNCHANGED <<decl, staged, Cloud, file, jobs, edits>>

RekeyConfirm(t) ==       \* or --dry-run, or no
    /\ job[t].pc = "confirm"
    /\ \E j \in {Idle, [job[t] EXCEPT !.pc = "mv"]} : job' = [job EXCEPT ![t] = j]
    /\ UNCHANGED <<decl, staged, Cloud, file, jobs, edits>>

AfterFailureGoesOn(t) == [job[t] EXCEPT !.pc = "rekeyed", !.left = {}] \* mutant
AfterFailure(t) == Idle
RekeyMove(t) ==
    /\ job[t].pc = "mv" /\ UNCHANGED <<decl, staged, real, used, file, jobs, edits>>
    /\ \E a \in job[t].left :
        LET dst == RekeyAddress(a, job[t].to)
            rest == job[t].left \ {a}
        IN  \/ /\ CanMove(a, dst) /\ Store(Moved(a, dst), MovedTaint(a, dst))
               /\ job' = Disturb(t, [job EXCEPT ![t].left = rest,
                                                ![t].pc = IF rest = {} THEN "rekeyed" ELSE "mv"], {state[a]})
            \/ UNCHANGED <<state, tainted, serial>>       \* refused, or no backend
               /\ job' = [job EXCEPT ![t] = AfterFailure(t)]

-----------------------------------------------------------------------------
(* After an apply, with the entries of then. *)
Init ==
    /\ decl \in [Names -> Entry] /\ staged = decl
    /\ \E A \in SUBSET {a \in Addrs : decl[a.name] # "absent"} :
        LET f == CHOOSE g \in [A -> Objects] :
                   /\ \A a \in A : g[a][1] = a.type
                   /\ \A a, b \in A : g[a] = g[b] => a = b
        IN  /\ state = [a \in Addrs |-> IF a \in A THEN f[a] ELSE None]
            /\ real = {f[a] : a \in A} /\ used = real
    /\ tainted = {} /\ serial = 0 /\ jobs = 0 /\ edits = 0
    /\ job = [t \in Terms |-> Idle] /\ file = [t \in Terms |-> None]

Verb(t) == \/ BeginVerb(t) \/ Apply(t) \/ Destroy(t) \/ StateMv(t) \/ StateRm(t)
           \/ Untaint(t) \/ Import(t) \/ Pull(t) \/ Push(t)
           \/ RekeyList(t) \/ RekeyConfirm(t) \/ RekeyMove(t)
Next == Edit \/ \E t \in Terms : Verb(t)
Spec == Init /\ [][Next]_vars

-----------------------------------------------------------------------------
Rekeys(t) == job[t].pc = "mv" /\ job'[t].pc = "rekeyed"

(* A rekey that reports success has put every object it listed under the new
   name, whatever other verbs ran between its listing and its last move: one it
   has not, another verb moved, removed or destroyed. *)
KeptObjects == [][\A t \in Terms : Rekeys(t) =>
                    \A a \in DOMAIN job[t].held :
                        \/ state'[RekeyAddress(a, job[t].to)] = job[t].held[a]
                        \/ job[t].held[a] \in job[t].others]_vars

(* After a rename in the manifest and a rekey nothing came between, the next
   apply destroys nothing the rekeyed name owned (the docstring's "in-place
   update instead of a replace"). *)
RenameDone(t) == decl[job[t].from] = "absent" /\ decl[job[t].to] # "absent"
InPlace == \A t \in Terms :
    job[t].pc = "rekeyed" /\ job[t].quiet /\ RenameDone(t) =>
        \A a \in Destroys(decl) : Segment(a) # job[t].from

(* The docstring of rekey: its trailing plan, of the addresses moved, flags a
   destroy if the rename was incomplete (a sibling was not moved). *)
TrailingPlanFlags == \A t \in Terms :
    job[t].pc = "rekeyed" /\ job[t].quiet /\ RenameDone(t) /\ Destroys(decl) # {} =>
        \E a \in Destroys(decl) : \E b \in DOMAIN job[t].held : a = RekeyAddress(b, job[t].to)

(* A rekey that stopped can be run again (it cannot: the new name exists). *)
RekeyRetries == [][\A t \in Terms : job[t].pc = "mv" /\ job'[t].pc = "idle"
                     => ~RekeyRefused(state', job[t].from, job[t].to)]_vars

(* A protected entry of the manifest loses no object (it can: the workdir is
   staged before the edit, or the entry was renamed and not rekeyed). *)
ProtectedSurvives == [][\A a \in Addrs : decl[a.name] = "protected" /\ state[a] \in real
                          => state[a] \in real']_vars
============================================================================
