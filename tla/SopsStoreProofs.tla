--------------------------- MODULE SopsStoreProofs ---------------------------
(***************************************************************************)
(* What the secrets commands keep: for any terminals, that a clean check   *)
(* overlooks no decrypted secret; and for one terminal that writes, that   *)
(* readers see whole commands only, whatever fails or is killed on the     *)
(* way.                                                                    *)
(***************************************************************************)
EXTENDS SopsStore, TLAPS

(* A text keeps every value in a tree it has, and has none if it is empty. *)
Filed(d) ==
    /\ d \in Doc
    /\ \A k \in Keys : d.val[k] # None => TreeOf[k] \in d.trees
    /\ d.st \in {"absent", "empty"} => ~Held(d)

Documents ==
    /\ \A f \in Files : Filed(store[f])
    /\ Filed(plain)
    /\ \A t \in Terms : Filed(tmp[t])

(* The plaintext file and the temporary ones are there or they are not. *)
Temporaries ==
    /\ plain = NoDoc \/ plain.st \in {"yaml", "bad"}
    /\ \A t \in Terms : tmp[t] = NoDoc \/ tmp[t].st \in {"yaml", "bad", "sops"}

(* What was left behind with a value in it has the tree of that value. *)
Giveaways == \A d \in litter : d.held => d.trees # {}

(* What a command holds is such a text, too. *)
Buffers == \A t \in Terms : Filed(term[t].buf)

(* A command that works on one key has it. *)
OneKey == {"lookup", "set", "create", "write", "rm", "rmenc", "rmmove", "export"}
KeyNamed == \A t \in Terms : term[t].pc \in OneKey => term[t].key \in Keys

(* Terminals that read have nothing to write. *)
ReadersRead == \A t \in Readers : term[t].pc \in {"idle", "export"}

(* What a command reports, it reports at its end. *)
Running == \A t \in Terms : term[t].pc # "idle" => out[t] = "none"

IInv ==
    /\ TypeOK
    /\ Documents /\ Temporaries /\ Giveaways
    /\ Buffers /\ KeyNamed /\ ReadersRead /\ Running

-----------------------------------------------------------------------------
(* With one terminal that writes, what a command has read is still so. *)
OneWriter == \A t, u \in Writers : t = u

(* The file that is being created is not there yet, or is empty. *)
Creating ==
    \A t \in Writers :
        /\ term[t].pc = "create" => store[term[t].file].st = "absent"
        /\ term[t].pc = "write" => store[term[t].file].st = "empty"
        /\ term[t].pc = "stub" => store[Main].st = "empty"

(* The text that replaces a file is what it was, less the key. *)
Removing ==
    \A t \in Writers :
        term[t].pc \in {"rmenc", "rmmove"} =>
            tmp[t].val = [store[term[t].file].val EXCEPT ![term[t].key] = None]

(* An edit started from what the file still is. *)
Based ==
    \A t \in Writers :
        term[t].pc \in {"confirm", "enc", "move", "editor"} =>
            term[t].base = store[term[t].file].val

(* issue-tf-token files the address first and then the token. *)
Minting ==
    \A t \in Writers :
        term[t].cmd = "mint" =>
            /\ term[t].pc \in {"set", "create", "write"}
            /\ \/ /\ term[t].key = Saved[1] /\ term[t].v = Endpoint
                  /\ term[t].buf.val[Saved[2]] = token
               \/ /\ term[t].key = Saved[2] /\ term[t].v = token
                  /\ Secret(Saved[1]) = Endpoint
            /\ term[t].file = Owner(term[t].key)

(* What it filed when it succeeded is what its router says. *)
TokenSaved ==
    \A t \in Writers : out[t] = "minted" =>
        /\ Secret(Saved[1]) = Endpoint
        /\ Secret(Saved[2]) = token

Alone == Creating /\ Removing /\ Based /\ Minting /\ TokenSaved

-----------------------------------------------------------------------------
(* Texts. *)

LEMMA NoneApart == None \notin Values
  BY StoreAssumption

LEMMA OwnersAreFiles == \A k \in Keys : TreeOf[k] \in Trees /\ Owner(k) \in Files
  BY StoreAssumption DEF Owner, FileFor

LEMMA NoDocFiled ==
    /\ Filed(NoDoc) /\ NoDoc.st = "absent" /\ NoDoc.trees = {}
    /\ NoDoc.val = [k \in Keys |-> None]
  BY DEF Filed, NoDoc, Doc, Held

(* A text with another form, and none of the forms that hold no value. *)
LEMMA FormFiled ==
    ASSUME NEW d, Filed(d), NEW st \in {"sops", "yaml", "bad"}
    PROVE  /\ Filed([d EXCEPT !.st = st])
           /\ [d EXCEPT !.st = st].st = st
           /\ [d EXCEPT !.st = st].val = d.val
           /\ [d EXCEPT !.st = st].trees = d.trees
  BY DEF Filed, Doc

LEMMA EmptyFiled ==
    /\ Filed([NoDoc EXCEPT !.st = "empty"])
    /\ [NoDoc EXCEPT !.st = "empty"].st = "empty"
    /\ [NoDoc EXCEPT !.st = "empty"].val = NoDoc.val
  BY DEF Filed, NoDoc, Doc, Held

LEMMA StubFiled ==
    /\ Filed(Stub) /\ Stub.st = "yaml" /\ Stub.trees = Trees
    /\ Stub.val = NoDoc.val /\ ~Held(Stub)
  BY DEF Filed, Stub, NoDoc, Doc, Held

LEMMA SetKeyFiled ==
    ASSUME NEW d, Filed(d), d.st # "empty", NEW k \in Keys, NEW v \in Values \union {None}
    PROVE  /\ Filed(SetKey(d, k, v))
           /\ SetKey(d, k, v).st = IF d.st = "absent" THEN "sops" ELSE d.st
           /\ SetKey(d, k, v).val = [d.val EXCEPT ![k] = v]
<1> DEFINE e == SetKey(d, k, v)
<1>1. d \in Doc /\ TreeOf[k] \in Trees
  BY OwnersAreFiles DEF Filed
<1>2. /\ e.st = IF d.st = "absent" THEN "sops" ELSE d.st
      /\ e.val = [d.val EXCEPT ![k] = v]
      /\ e.trees = d.trees \union {TreeOf[k]}
  BY <1>1 DEF SetKey, Doc
<1>3. e \in Doc
  BY <1>1 DEF SetKey, Doc
<1> HIDE DEF e
<1>4. \A j \in Keys : e.val[j] # None => TreeOf[j] \in e.trees
  BY <1>1, <1>2 DEF Filed, Doc
<1>5. e.st \notin {"absent", "empty"}
  BY <1>2
<1> QED BY <1>2, <1>3, <1>4, <1>5 DEF Filed, e

LEMMA DelKeyFiled ==
    ASSUME NEW d, Filed(d), NEW k \in Keys
    PROVE  /\ Filed(DelKey(d, k)) /\ DelKey(d, k).st = d.st
           /\ DelKey(d, k).val = [d.val EXCEPT ![k] = None]
<1> DEFINE val == [d.val EXCEPT ![k] = None]
<1>1. d \in Doc
  BY DEF Filed
<1>2. DelKey(d, k) = [st |-> d.st, val |-> val, trees |-> d.trees]
  BY <1>1 DEF DelKey, Doc
<1>3. val \in [Keys -> Values \union {None}]
  BY <1>1 DEF Doc
<1>4. \A j \in Keys : val[j] # None => d.val[j] # None
  BY <1>1 DEF Doc
<1> HIDE DEF val
<1>5. DelKey(d, k) \in Doc
  BY <1>1, <1>2, <1>3 DEF Doc
<1> QED BY <1>2, <1>4, <1>5 DEF Filed, Held, val

LEMMA TrimFiled ==
    ASSUME NEW d, d \in Doc, d.st \in {"absent", "empty"} => ~Held(d)
    PROVE  Filed(Trim(d)) /\ Trim(d).st = d.st /\ Trim(d).val = d.val
<1> DEFINE trees == {TreeOf[k] : k \in {j \in Keys : d.val[j] # None}}
<1>1. Trim(d) = [st |-> d.st, val |-> d.val, trees |-> trees]
  BY DEF Trim, Doc
<1>2. trees \in SUBSET Trees /\ \A k \in Keys : d.val[k] # None => TreeOf[k] \in trees
  BY OwnersAreFiles
<1> HIDE DEF trees
<1>3. Trim(d) \in Doc
  BY <1>1, <1>2 DEF Doc
<1> QED BY <1>1, <1>2, <1>3 DEF Filed, Held

LEMMA ByHandFiled ==
    ASSUME NEW d, Filed(d), d.st # "empty", NEW new \in ByHand(d)
    PROVE  Filed(new) /\ new.st \in {d.st, "sops"} /\ (d.st = "yaml" => new.st = "yaml")
<1>1. ASSUME NEW k \in Keys, NEW v \in ValuesOf[k], new = SetKey(d, k, v)
      PROVE  Filed(new) /\ new.st \in {d.st, "sops"} /\ (d.st = "yaml" => new.st = "yaml")
  <2>1. v \in Values \union {None}
    BY StoreAssumption
  <2>2. /\ Filed(new)
        /\ new.st = IF d.st = "absent" THEN "sops" ELSE d.st
    BY <1>1, <2>1, SetKeyFiled
  <2> QED BY <2>2
<1>2. ASSUME NEW k \in Keys, new = Trim(DelKey(d, k))
      PROVE  Filed(new) /\ new.st \in {d.st, "sops"} /\ (d.st = "yaml" => new.st = "yaml")
  <2>1. Filed(DelKey(d, k)) /\ DelKey(d, k).st = d.st
    BY DelKeyFiled
  <2>2. Filed(new) /\ new.st = d.st
    BY <1>2, <2>1, TrimFiled DEF Filed
  <2> QED BY <2>2
<1>3. \/ \E k \in Keys : \E v \in ValuesOf[k] : new = SetKey(d, k, v)
      \/ \E k \in Keys : new = Trim(DelKey(d, k))
  BY DEF ByHand
<1> QED BY <1>1, <1>2, <1>3

-----------------------------------------------------------------------------
(* Commands. *)

Jobs ==
    /\ term \in [Terms -> Job] /\ out \in [Terms -> Outs]
    /\ Buffers /\ KeyNamed /\ ReadersRead /\ Running

(* What a command may become. *)
Sound(t, r) ==
    /\ r \in Job /\ Filed(r.buf)
    /\ r.pc \in OneKey => r.key \in Keys
    /\ t \in Readers => r.pc \in {"idle", "export"}

LEMMA TermsApart == \A t \in Writers : t \in Terms /\ t \notin Readers
  BY StoreAssumption DEF Terms

LEMMA IdleSound == \A t : Sound(t, Idle) /\ Idle.pc = "idle"
<1>1. Idle.pc = "idle" /\ Idle.buf = NoDoc
  BY DEF Idle
<1>2. Idle \in Job
  BY NoDocFiled, StoreAssumption DEF Idle, Job, Pcs, Commands, NoDoc, Filed
<1> QED BY <1>1, <1>2, NoDocFiled DEF Sound, OneKey

LEMMA JobReplaced ==
    ASSUME Jobs, NEW t \in Terms, NEW r, Sound(t, r), NEW o \in Outs,
           r.pc # "idle" => o = "none",
           term' = [term EXCEPT ![t] = r], out' = [out EXCEPT ![t] = o]
    PROVE  /\ Jobs' /\ term'[t] = r /\ out'[t] = o
           /\ \A u \in Terms \ {t} : term'[u] = term[u] /\ out'[u] = out[u]
<1>1. /\ term'[t] = r /\ out'[t] = o
      /\ \A u \in Terms \ {t} : term'[u] = term[u] /\ out'[u] = out[u]
  BY DEF Jobs
<1>2. term' \in [Terms -> Job] /\ out' \in [Terms -> Outs]
  BY DEF Jobs, Sound
<1> QED BY <1>1, <1>2 DEF Jobs, Sound, Buffers, KeyNamed, ReadersRead, Running

(* A command that goes on says nothing yet. *)
LEMMA JobGoesOn ==
    ASSUME Jobs, NEW t \in Terms, NEW r, Sound(t, r), r.pc # "idle" => term[t].pc # "idle",
           term' = [term EXCEPT ![t] = r], UNCHANGED out
    PROVE  /\ Jobs' /\ term'[t] = r
           /\ \A u \in Terms \ {t} : term'[u] = term[u]
<1> DEFINE o == out[t]
<1>1. out' = [out EXCEPT ![t] = o] /\ o \in Outs
  BY DEF Jobs
<1>2. r.pc # "idle" => o = "none"
  BY DEF Jobs, Running
<1> HIDE DEF o
<1>3. /\ Jobs' /\ term'[t] = r /\ out'[t] = o
      /\ \A u \in Terms \ {t} : term'[u] = term[u] /\ out'[u] = out[u]
  BY <1>1, <1>2, JobReplaced
<1> QED BY <1>3

LEMMA GotoDoes ==
    ASSUME Jobs, NEW t \in Terms, term[t].pc # "idle", NEW pc \in Pcs,
           pc \in OneKey => term[t].pc \in OneKey, t \notin Readers,
           Goto(t, pc), UNCHANGED out
    PROVE  /\ Jobs' /\ term'[t].pc = pc
           /\ term'[t].key = term[t].key /\ term'[t].v = term[t].v /\ term'[t].cmd = term[t].cmd
           /\ term'[t].file = term[t].file /\ term'[t].base = term[t].base
           /\ term'[t].buf = term[t].buf
           /\ \A u \in Terms \ {t} : term'[u] = term[u]
<1> DEFINE r == [term[t] EXCEPT !.pc = pc]
<1>1. term[t] \in Job
  BY DEF Jobs
<1>2. /\ r \in Job /\ r.pc = pc /\ r.key = term[t].key /\ r.v = term[t].v /\ r.cmd = term[t].cmd
      /\ r.file = term[t].file /\ r.base = term[t].base /\ r.buf = term[t].buf
  BY <1>1 DEF Job
<1>3. term' = [term EXCEPT ![t] = r]
  BY DEF Goto
<1> HIDE DEF r
<1>4. Sound(t, r)
  BY <1>2 DEF Sound, Jobs, Buffers, KeyNamed
<1>5. /\ Jobs' /\ term'[t] = r
      /\ \A u \in Terms \ {t} : term'[u] = term[u]
  BY <1>3, <1>4, JobGoesOn
<1> QED BY <1>2, <1>5

LEMMA EndDoes ==
    ASSUME Jobs, NEW t \in Terms, NEW o \in Outs, End(t, o)
    PROVE  /\ Jobs' /\ term'[t] = Idle /\ out'[t] = o
           /\ \A u \in Terms \ {t} : term'[u] = term[u] /\ out'[u] = out[u]
  BY JobReplaced, IdleSound DEF End

LEMMA ErrorDoes ==
    ASSUME Jobs, NEW t \in Terms, Error(t)
    PROVE  /\ Jobs' /\ term'[t] = Idle /\ out'[t] \in {"none", "not minted"}
           /\ \A u \in Terms \ {t} : term'[u] = term[u] /\ out'[u] = out[u]
<1>1. ASSUME NEW o \in {"none", "not minted"}, End(t, o)
      PROVE  /\ Jobs' /\ term'[t] = Idle /\ out'[t] \in {"none", "not minted"}
             /\ \A u \in Terms \ {t} : term'[u] = term[u] /\ out'[u] = out[u]
  <2>1. o \in Outs
    BY DEF Outs
  <2> QED BY <1>1, <2>1, EndDoes
<1> QED BY <1>1 DEF Error

LEMMA BeginDoes ==
    ASSUME Jobs, jobs \in 0 .. MaxJobs, NEW t \in Terms,
           NEW cmd \in Commands, NEW pc \in Pcs, NEW k \in Keys \union {None},
           NEW v \in Values \union {None}, NEW f \in Files,
           pc \in OneKey => k \in Keys, t \in Readers => pc = "export",
           Begin(t, cmd, pc, k, v, f)
    PROVE  /\ Jobs' /\ jobs' \in 0 .. MaxJobs /\ term[t].pc = "idle" /\ out'[t] = "none"
           /\ term'[t].pc = pc /\ term'[t].cmd = cmd /\ term'[t].key = k
           /\ term'[t].v = v /\ term'[t].file = f
           /\ \A u \in Terms \ {t} : term'[u] = term[u] /\ out'[u] = out[u]
<1> DEFINE r == [Idle EXCEPT !.pc = pc, !.cmd = cmd, !.key = k, !.v = v, !.file = f]
<1>1. Idle \in Job /\ Filed(Idle.buf)
  BY IdleSound DEF Sound
<1>2. /\ r \in Job /\ r.pc = pc /\ r.cmd = cmd /\ r.key = k /\ r.v = v /\ r.file = f
      /\ r.buf = Idle.buf
  BY <1>1 DEF Job
<1>3. /\ term[t].pc = "idle" /\ jobs' = jobs + 1 /\ jobs < MaxJobs
      /\ term' = [term EXCEPT ![t] = r] /\ out' = [out EXCEPT ![t] = "none"]
  BY DEF Begin, NewJob
<1> HIDE DEF r
<1>4. Sound(t, r)
  BY <1>1, <1>2 DEF Sound
<1>5. "none" \in Outs
  BY DEF Outs
<1>6. /\ Jobs' /\ term'[t] = r /\ out'[t] = "none"
      /\ \A u \in Terms \ {t} : term'[u] = term[u] /\ out'[u] = out[u]
  BY <1>3, <1>4, <1>5, JobReplaced
<1>7. jobs' \in 0 .. MaxJobs
  BY <1>3, StoreAssumption
<1> QED BY <1>2, <1>3, <1>6, <1>7

LEMMA SavedKeys ==
    Saved[1] \in Keys /\ Saved[2] \in Keys /\ Saved[1] # Saved[2] /\ Endpoint \in Values
  BY StoreAssumption

LEMMA FileForKeyIsFile ==
    ASSUME NEW k \in Keys, NEW o \in Files \union {None}
    PROVE  FileForKey(k, o) \in Files
  BY OwnersAreFiles DEF FileForKey

(* After the address comes the token, after any other key the end. *)
LEMMA SavedOneDoes ==
    ASSUME Jobs, NEW t \in Writers, term[t].pc \in {"set", "write"}, SavedOne(t)
    PROVE  /\ Jobs' /\ \A u \in Terms \ {t} : term'[u] = term[u] /\ out'[u] = out[u]
           /\ \/ /\ term[t].cmd = "mint" /\ term[t].key = Saved[1] /\ UNCHANGED out
                 /\ term'[t].pc = "set" /\ term'[t].cmd = "mint" /\ term'[t].key = Saved[2]
                 /\ term'[t].v = term[t].buf.val[Saved[2]] /\ term'[t].file = Owner(Saved[2])
              \/ /\ ~(term[t].cmd = "mint" /\ term[t].key = Saved[1])
                 /\ term'[t] = Idle
                 /\ out'[t] = IF term[t].cmd = "mint" THEN "minted" ELSE "none"
<1>1. t \in Terms /\ t \notin Readers
  BY TermsApart
<1>2. CASE term[t].cmd = "mint" /\ term[t].key = Saved[1]
  <2> DEFINE v == term[t].buf.val[Saved[2]]
             f == FileForKey(Saved[2], None)
             r == [term[t] EXCEPT !.pc = "set", !.key = Saved[2], !.v = v, !.file = f]
  <2>1. term' = [term EXCEPT ![t].pc = "set", ![t].key = Saved[2],
                                   ![t].v = term[t].buf.val[Saved[2]], ![t].file = f]
        /\ UNCHANGED out
    BY <1>2 DEF SavedOne
  <2>2. term[t] \in Job /\ f \in Files /\ f = Owner(Saved[2]) /\ v \in Values \union {None}
    BY <1>1, SavedKeys, OwnersAreFiles DEF Jobs, Job, Doc, FileForKey
  <2>3. term' = [term EXCEPT ![t] = r]
    BY <1>1, <2>1, <2>2 DEF Jobs, Job
  <2> HIDE DEF v, f
  <2>4. /\ r \in Job /\ r.pc = "set" /\ r.key = Saved[2] /\ r.v = v /\ r.file = f
        /\ r.cmd = "mint" /\ r.buf = term[t].buf
    BY <1>2, <2>2, SavedKeys DEF Job, Pcs
  <2> HIDE DEF r
  <2>5. Sound(t, r)
    BY <1>1, <2>4, SavedKeys DEF Sound, Jobs, Buffers
  <2>6. /\ Jobs' /\ term'[t] = r /\ \A u \in Terms \ {t} : term'[u] = term[u]
    BY <1>1, <2>1, <2>3, <2>5, JobGoesOn
  <2> QED BY <1>2, <2>1, <2>2, <2>4, <2>6 DEF v
<1>3. CASE ~(term[t].cmd = "mint" /\ term[t].key = Saved[1])
  <2> DEFINE o == IF term[t].cmd = "mint" THEN "minted" ELSE "none"
  <2>1. End(t, o) /\ o \in Outs
    BY <1>3 DEF SavedOne, Outs
  <2> HIDE DEF o
  <2>2. /\ Jobs' /\ term'[t] = Idle /\ out'[t] = o
        /\ \A u \in Terms \ {t} : term'[u] = term[u] /\ out'[u] = out[u]
    BY <1>1, <2>1, EndDoes
  <2> QED BY <1>3, <2>2 DEF o
<1> QED BY <1>2, <1>3

(* What issue-tf-token starts with, once the node has a new token. *)
LEMMA MintDoes ==
    ASSUME Jobs, jobs \in 0 .. MaxJobs, NEW t \in Writers, MintToken(t)
    PROVE  /\ Jobs' /\ jobs' \in 0 .. MaxJobs /\ UNCHANGED Disk /\ term[t].pc = "idle"
           /\ \A u \in Terms \ {t} : term'[u] = term[u] /\ out'[u] = out[u]
           /\ \/ /\ token' \in ValuesOf[Saved[2]] /\ out'[t] = "none"
                 /\ term'[t].pc = "set" /\ term'[t].cmd = "mint" /\ term'[t].key = Saved[1]
                 /\ term'[t].v = Endpoint /\ term'[t].file = Owner(Saved[1])
                 /\ term'[t].buf.val[Saved[2]] = token'
              \/ /\ token' \in ValuesOf[Saved[2]] \union {None, token}
                 /\ term'[t] = term[t] /\ out'[t] = "not minted"
<1>1. t \in Terms /\ t \notin Readers /\ UNCHANGED Disk
  BY TermsApart DEF MintToken
<1>2. term[t].pc = "idle" /\ jobs' = jobs + 1 /\ jobs < MaxJobs
  BY DEF MintToken, NewJob
<1>3. jobs' \in 0 .. MaxJobs
  BY <1>2, StoreAssumption
<1>4. ASSUME NEW v \in ValuesOf[Saved[2]] \ {token}, token' = v,
             term' = [term EXCEPT ![t] = [Idle EXCEPT !.pc = "set", !.cmd = "mint", !.key = Saved[1],
                         !.v = Endpoint, !.file = FileForKey(Saved[1], None), !.buf = SetKey(NoDoc, Saved[2], v)]],
             out' = [out EXCEPT ![t] = "none"]
      PROVE  /\ Jobs'
             /\ \A u \in Terms \ {t} : term'[u] = term[u] /\ out'[u] = out[u]
             /\ token' \in ValuesOf[Saved[2]] /\ out'[t] = "none"
             /\ term'[t].pc = "set" /\ term'[t].cmd = "mint" /\ term'[t].key = Saved[1]
             /\ term'[t].v = Endpoint /\ term'[t].file = Owner(Saved[1])
             /\ term'[t].buf.val[Saved[2]] = token'
  <2> DEFINE buf == SetKey(NoDoc, Saved[2], v)
             f == FileForKey(Saved[1], None)
             r == [Idle EXCEPT !.pc = "set", !.cmd = "mint", !.key = Saved[1],
                               !.v = Endpoint, !.file = f, !.buf = buf]
  <2>1. v \in Values
    BY SavedKeys, StoreAssumption
  <2>2. Filed(buf) /\ buf.val = [NoDoc.val EXCEPT ![Saved[2]] = v]
    BY <2>1, NoDocFiled, SavedKeys, SetKeyFiled
  <2>3. buf.val[Saved[2]] = v
    BY <2>2, NoDocFiled, SavedKeys
  <2>4. f \in Files /\ f = Owner(Saved[1])
    BY SavedKeys, OwnersAreFiles DEF FileForKey
  <2>5. term' = [term EXCEPT ![t] = r]
    BY <1>4
  <2> HIDE DEF buf, f
  <2>6. /\ r \in Job /\ r.pc = "set" /\ r.cmd = "mint" /\ r.key = Saved[1]
        /\ r.v = Endpoint /\ r.file = f /\ r.buf = buf
    BY <2>2, <2>4, IdleSound, SavedKeys DEF Sound, Job, Pcs, Commands, Filed
  <2> HIDE DEF r
  <2>7. Sound(t, r) /\ "none" \in Outs
    BY <1>1, <2>2, <2>6, SavedKeys DEF Sound, Outs
  <2>8. /\ Jobs' /\ term'[t] = r /\ out'[t] = "none"
        /\ \A u \in Terms \ {t} : term'[u] = term[u] /\ out'[u] = out[u]
    BY <1>1, <1>4, <2>5, <2>7, JobReplaced
  <2> QED BY <1>4, <2>3, <2>4, <2>6, <2>8
<1>5. ASSUME token' \in ValuesOf[Saved[2]] \union {None, token},
             out' = [out EXCEPT ![t] = "not minted"], UNCHANGED term
      PROVE  /\ Jobs'
             /\ \A u \in Terms \ {t} : term'[u] = term[u] /\ out'[u] = out[u]
             /\ term'[t] = term[t] /\ out'[t] = "not minted"
  <2>1. out' \in [Terms -> Outs] /\ out'[t] = "not minted" /\ \A u \in Terms \ {t} : out'[u] = out[u]
    BY <1>1, <1>5 DEF Jobs, Outs
  <2> QED BY <1>2, <1>5, <2>1 DEF Jobs, Buffers, KeyNamed, ReadersRead, Running
<1>6. \/ \E v \in ValuesOf[Saved[2]] \ {token} :
            /\ token' = v
            /\ term' = [term EXCEPT ![t] = [Idle EXCEPT !.pc = "set", !.cmd = "mint", !.key = Saved[1],
                           !.v = Endpoint, !.file = FileForKey(Saved[1], None), !.buf = SetKey(NoDoc, Saved[2], v)]]
            /\ out' = [out EXCEPT ![t] = "none"]
      \/ /\ token' \in ValuesOf[Saved[2]] \union {None, token}
         /\ out' = [out EXCEPT ![t] = "not minted"]
         /\ UNCHANGED term
  BY DEF MintToken
<1> QED BY <1>1, <1>2, <1>3, <1>4, <1>5, <1>6

(* Where a command is: it is one that began and has not ended. *)
Ready == Jobs /\ token \in Values \union {None} /\ jobs \in 0 .. MaxJobs

LEMMA ReadyFromIInv == IInv => Ready
  BY DEF IInv, TypeOK, Ready, Jobs

LEMMA BeginWriteDoes ==
    ASSUME Ready, NEW t \in Writers, BeginWrite(t)
    PROVE  /\ Jobs' /\ jobs' \in 0 .. MaxJobs /\ UNCHANGED <<Disk, token>>
           /\ term[t].pc = "idle" /\ out'[t] = "none"
           /\ term'[t].pc \in {"set", "lookup", "rm"} /\ term'[t].cmd \in {"add", "replace", "rm"}
           /\ \A u \in Terms \ {t} : term'[u] = term[u] /\ out'[u] = out[u]
<1>1. t \in Terms /\ t \notin Readers /\ UNCHANGED <<Disk, token>>
  BY TermsApart DEF BeginWrite
<1>2. PICK k \in Keys, o \in Files \union {None} : \E v \in ValuesOf[k] :
         \/ Begin(t, "add", "set", k, v, FileForKey(k, o))
         \/ Begin(t, "replace", "lookup", k, v, FileForKey(k, o))
         \/ Begin(t, "rm", "rm", k, None, FileForKey(k, o))
  BY DEF BeginWrite
<1>3. PICK v \in ValuesOf[k] :
         \/ Begin(t, "add", "set", k, v, FileForKey(k, o))
         \/ Begin(t, "replace", "lookup", k, v, FileForKey(k, o))
         \/ Begin(t, "rm", "rm", k, None, FileForKey(k, o))
  BY <1>2
<1>4. PICK cmd \in {"add", "replace", "rm"}, pc \in {"set", "lookup", "rm"},
           w \in Values \union {None} : Begin(t, cmd, pc, k, w, FileForKey(k, o))
  <2>1. v \in Values
    BY StoreAssumption
  <2> QED BY <1>3, <2>1
<1>5. cmd \in Commands /\ pc \in Pcs /\ k \in Keys \union {None} /\ FileForKey(k, o) \in Files
  BY FileForKeyIsFile DEF Commands, Pcs
<1> DEFINE f == FileForKey(k, o)
<1>6. f \in Files /\ Begin(t, cmd, pc, k, w, f) /\ Jobs /\ jobs \in 0 .. MaxJobs
  BY <1>4, <1>5 DEF Ready
<1> HIDE DEF f
<1>7. /\ Jobs' /\ jobs' \in 0 .. MaxJobs /\ term[t].pc = "idle" /\ out'[t] = "none"
      /\ term'[t].pc = pc /\ term'[t].cmd = cmd
      /\ \A u \in Terms \ {t} : term'[u] = term[u] /\ out'[u] = out[u]
  BY <1>1, <1>5, <1>6, BeginDoes
<1> QED BY <1>1, <1>7

LEMMA BeginEditDoes ==
    ASSUME Ready, NEW t \in Writers, BeginEdit(t)
    PROVE  /\ Jobs' /\ jobs' \in 0 .. MaxJobs /\ UNCHANGED <<Disk, token>>
           /\ term[t].pc = "idle" /\ out'[t] = "none"
           /\ term'[t].pc \in {"decrypt", "open"} /\ term'[t].cmd \in {"editp", "edit"}
           /\ \A u \in Terms \ {t} : term'[u] = term[u] /\ out'[u] = out[u]
<1>1. t \in Terms /\ t \notin Readers /\ UNCHANGED <<Disk, token>>
  BY TermsApart DEF BeginEdit
<1>2. PICK f \in Files, cmd \in {"editp", "edit"}, pc \in {"decrypt", "open"} :
         Begin(t, cmd, pc, None, None, f)
  BY StoreAssumption DEF BeginEdit
<1>3. cmd \in Commands /\ pc \in Pcs /\ pc \notin OneKey
  BY DEF Commands, Pcs, OneKey
<1>4. None \in Keys \union {None} /\ None \in Values \union {None} /\ Jobs /\ jobs \in 0 .. MaxJobs
  BY DEF Ready
<1>5. /\ Jobs' /\ jobs' \in 0 .. MaxJobs /\ term[t].pc = "idle" /\ out'[t] = "none"
      /\ term'[t].pc = pc /\ term'[t].cmd = cmd
      /\ \A u \in Terms \ {t} : term'[u] = term[u] /\ out'[u] = out[u]
  BY <1>1, <1>2, <1>3, <1>4, BeginDoes
<1> QED BY <1>1, <1>5

LEMMA BeginExportDoes ==
    ASSUME Ready, NEW t \in Readers, BeginExport(t)
    PROVE  /\ Jobs' /\ jobs' \in 0 .. MaxJobs /\ UNCHANGED <<Disk, token>>
           /\ \A u \in Terms \ {t} : term'[u] = term[u] /\ out'[u] = out[u]
<1>1. Saved[1] \in Keys \union {None} /\ Owner(Saved[1]) \in Files /\ t \in Terms
  BY SavedKeys, OwnersAreFiles DEF Terms
<1> DEFINE k == Saved[1]
           f == Owner(Saved[1])
<1>2. Begin(t, "export", "export", k, None, f) /\ k \in Keys
  BY SavedKeys DEF BeginExport
<1>3. "export" \in Commands /\ "export" \in Pcs /\ Jobs /\ jobs \in 0 .. MaxJobs
  BY DEF Commands, Pcs, Ready
<1> HIDE DEF k, f
<1>4. /\ Jobs' /\ jobs' \in 0 .. MaxJobs
      /\ \A u \in Terms \ {t} : term'[u] = term[u] /\ out'[u] = out[u]
  BY <1>1, <1>2, <1>3, BeginDoes DEF k, f
<1> QED BY <1>4 DEF BeginExport

(* init stubs the default file unless it is there. *)
LEMMA BeginInitDoes ==
    ASSUME Ready, NEW t \in Writers, BeginInit(t)
    PROVE  /\ Jobs' /\ jobs' \in 0 .. MaxJobs /\ UNCHANGED <<plain, litter, token>>
           /\ term[t].pc = "idle" /\ out'[t] # "minted"
           /\ \A u \in Terms \ {t} : term'[u] = term[u] /\ out'[u] = out[u]
           /\ \/ UNCHANGED <<store, tmp, term>>
              \/ /\ store[Main].st = "absent"
                 /\ term'[t].pc = "stub" /\ term'[t].cmd = "init"
                 /\ tmp' = [tmp EXCEPT ![t] = Stub]
                 /\ store' = [store EXCEPT ![Main] = [NoDoc EXCEPT !.st = "empty"]]
<1>1. t \in Terms /\ t \notin Readers /\ UNCHANGED <<plain, litter, token>>
  BY TermsApart DEF BeginInit
<1>2. CASE store[Main].st # "absent"
  <2>1. /\ term[t].pc = "idle" /\ jobs < MaxJobs /\ jobs' = jobs + 1
        /\ out' = [out EXCEPT ![t] = "ready"] /\ UNCHANGED <<store, tmp, term>>
    BY <1>2 DEF BeginInit, NewJob
  <2>2. out' \in [Terms -> Outs] /\ out'[t] = "ready" /\ \A u \in Terms \ {t} : out'[u] = out[u]
    BY <1>1, <2>1 DEF Ready, Jobs, Outs
  <2>3. jobs' \in 0 .. MaxJobs
    BY <2>1, StoreAssumption DEF Ready
  <2> QED BY <1>1, <2>1, <2>2, <2>3 DEF Ready, Jobs, Buffers, KeyNamed, ReadersRead, Running
<1>3. CASE store[Main].st = "absent"
  <2>1. /\ Begin(t, "init", "stub", None, None, Main)
        /\ tmp' = [tmp EXCEPT ![t] = Stub]
        /\ store' = [store EXCEPT ![Main] = [NoDoc EXCEPT !.st = "empty"]]
    BY <1>3 DEF BeginInit
  <2>2. "init" \in Commands /\ "stub" \in Pcs /\ "stub" \notin OneKey /\ Main \in Files
    BY StoreAssumption DEF Commands, Pcs, OneKey
  <2>3. None \in Keys \union {None} /\ None \in Values \union {None} /\ Jobs /\ jobs \in 0 .. MaxJobs
    BY DEF Ready
  <2>4. /\ Jobs' /\ jobs' \in 0 .. MaxJobs /\ term[t].pc = "idle" /\ out'[t] = "none"
        /\ term'[t].pc = "stub" /\ term'[t].cmd = "init"
        /\ \A u \in Terms \ {t} : term'[u] = term[u] /\ out'[u] = out[u]
    BY <1>1, <2>1, <2>2, <2>3, BeginDoes
  <2> QED BY <1>1, <1>3, <2>1, <2>4
<1> QED BY <1>2, <1>3

(* An edit keeps what it started from, and what the operator made of it. *)
LEMMA DecryptDoes ==
    ASSUME Ready, Documents, NEW t \in Writers, Decrypt(t)
    PROVE  /\ Jobs' /\ UNCHANGED <<store, tmp, litter, token, jobs>>
           /\ term[t].pc = "decrypt"
           /\ \A u \in Terms \ {t} : term'[u] = term[u] /\ out'[u] = out[u]
           /\ \/ /\ UNCHANGED plain /\ term'[t] = Idle /\ out'[t] # "minted"
              \/ /\ plain' = [store[term[t].file] EXCEPT !.st = "yaml"]
                 /\ term'[t].pc = "confirm" /\ term'[t].cmd = term[t].cmd
                 /\ term'[t].file = term[t].file
                 /\ term'[t].base = store[term[t].file].val /\ UNCHANGED out
<1>1. t \in Terms /\ t \notin Readers /\ term[t] \in Job
  BY TermsApart DEF Ready, Jobs
<1>2. term[t].pc = "decrypt" /\ UNCHANGED <<store, tmp, litter, token, jobs>>
  BY DEF Decrypt
<1> DEFINE d == store[term[t].file]
<1>3. CASE d.st = "sops"
  <2> DEFINE base == d.val
             r == [term[t] EXCEPT !.pc = "confirm", !.base = base]
  <2>1. /\ plain' = [d EXCEPT !.st = "yaml"] /\ UNCHANGED out
        /\ term' = [term EXCEPT ![t].pc = "confirm", ![t].base = base]
    BY <1>3 DEF Decrypt
  <2>2. base \in [Keys -> Values \union {None}]
    BY <1>1 DEF Documents, Filed, Doc, Job
  <2> HIDE DEF d, base
  <2>3. term' = [term EXCEPT ![t] = r]
    BY <1>1, <2>1 DEF Ready, Jobs, Job
  <2>4. /\ r \in Job /\ r.pc = "confirm" /\ r.cmd = term[t].cmd /\ r.file = term[t].file
        /\ r.base = base /\ r.buf = term[t].buf
    BY <1>1, <2>2 DEF Job, Pcs
  <2> HIDE DEF r
  <2>5. Sound(t, r)
    BY <1>1, <2>4 DEF Sound, Ready, Jobs, Buffers, OneKey
  <2>6. Jobs' /\ term'[t] = r /\ \A u \in Terms \ {t} : term'[u] = term[u]
    BY <1>1, <1>2, <2>1, <2>3, <2>5, JobGoesOn DEF Ready
  <2> QED BY <1>2, <2>1, <2>4, <2>6 DEF d, base
<1>4. CASE d.st # "sops"
  <2>1. Error(t) /\ UNCHANGED plain
    BY <1>4 DEF Decrypt
  <2> QED BY <1>1, <1>2, <2>1, ErrorDoes DEF Ready
<1> QED BY <1>3, <1>4

LEMMA SopsOpenDoes ==
    ASSUME Ready, Documents, NEW t \in Writers, SopsOpen(t)
    PROVE  /\ Jobs' /\ UNCHANGED <<Disk, token, jobs>>
           /\ term[t].pc = "open"
           /\ \A u \in Terms \ {t} : term'[u] = term[u] /\ out'[u] = out[u]
           /\ \/ /\ term'[t] = Idle /\ out'[t] # "minted"
              \/ /\ term'[t].pc = "editor" /\ term'[t].cmd = term[t].cmd
                 /\ term'[t].file = term[t].file
                 /\ term'[t].base = store[term[t].file].val /\ UNCHANGED out
<1>1. t \in Terms /\ t \notin Readers /\ term[t] \in Job
  BY TermsApart DEF Ready, Jobs
<1>2. term[t].pc = "open" /\ UNCHANGED <<Disk, token, jobs>>
  BY DEF SopsOpen
<1> DEFINE d == store[term[t].file]
<1>3. Filed(d)
  BY <1>1 DEF Documents, Job
<1>4. CASE d.st # "empty"
  <2>1. PICK new \in ByHand(d) \union {d} :
           /\ term' = [term EXCEPT ![t].pc = "editor", ![t].base = d.val, ![t].buf = new]
           /\ UNCHANGED out
    BY <1>4 DEF SopsOpen
  <2>2. Filed(new)
    BY <1>3, <1>4, ByHandFiled
  <2> DEFINE base == d.val
             r == [term[t] EXCEPT !.pc = "editor", !.base = base, !.buf = new]
  <2>3. base \in [Keys -> Values \union {None}] /\ new \in Doc
    BY <1>3, <2>2 DEF Filed, Doc
  <2>4. term' = [term EXCEPT ![t].pc = "editor", ![t].base = base, ![t].buf = new]
    BY <2>1
  <2> HIDE DEF d, base
  <2>5. term' = [term EXCEPT ![t] = r]
    BY <1>1, <2>4 DEF Ready, Jobs, Job
  <2>6. /\ r \in Job /\ r.pc = "editor" /\ r.cmd = term[t].cmd /\ r.file = term[t].file
        /\ r.base = base /\ r.buf = new
    BY <1>1, <2>3 DEF Job, Pcs
  <2> HIDE DEF r
  <2>7. Sound(t, r)
    BY <1>1, <2>2, <2>6 DEF Sound, OneKey
  <2>8. Jobs' /\ term'[t] = r /\ \A u \in Terms \ {t} : term'[u] = term[u]
    BY <1>1, <1>2, <2>1, <2>5, <2>7, JobGoesOn DEF Ready
  <2> QED BY <1>2, <2>1, <2>6, <2>8 DEF d, base
<1>5. CASE d.st = "empty"
  <2>1. Error(t)
    BY <1>5 DEF SopsOpen
  <2> QED BY <1>1, <1>2, <2>1, ErrorDoes DEF Ready
<1> QED BY <1>4, <1>5

(* An env-export takes the next secret of the pair or ends. *)
LEMMA ExportDoes ==
    ASSUME Ready, Documents, NEW t \in Readers, Export(t)
    PROVE  /\ Jobs' /\ UNCHANGED <<Disk, token, jobs>>
           /\ \A u \in Terms \ {t} : term'[u] = term[u] /\ out'[u] = out[u]
<1>1. t \in Terms /\ term[t] \in Job /\ term[t].pc = "export" /\ UNCHANGED <<Disk, token, jobs>>
  BY DEF Terms, Ready, Jobs, Export
<1> DEFINE k == term[t].key
<1>2. CASE Secret(k) # None /\ k = Saved[1]
  <2> DEFINE base == [term[t].base EXCEPT ![k] = Secret(k)]
             r == [term[t] EXCEPT !.key = Saved[2], !.base = base]
  <2>1. term' = [term EXCEPT ![t].key = Saved[2], ![t].base[k] = Secret(k)] /\ UNCHANGED out
    BY <1>2 DEF Export
  <2>2. k \in Keys /\ Secret(k) \in Values \union {None}
    BY <1>2, SavedKeys, OwnersAreFiles DEF Secret, Documents, Filed, Doc
  <2>3. term' = [term EXCEPT ![t] = r]
    BY <1>1, <2>1 DEF Ready, Jobs, Job
  <2>4. base \in [Keys -> Values \union {None}]
    BY <1>1, <2>2 DEF Job
  <2> HIDE DEF base, k
  <2>5. /\ r \in Job /\ r.pc = "export" /\ r.key = Saved[2] /\ r.buf = term[t].buf
    BY <1>1, <2>4, SavedKeys DEF Job
  <2> HIDE DEF r
  <2>6. Sound(t, r)
    BY <1>1, <2>5, SavedKeys DEF Sound, Ready, Jobs, Buffers
  <2> QED BY <1>1, <2>1, <2>3, <2>5, <2>6, JobGoesOn DEF Ready
<1>3. CASE ~(Secret(k) # None /\ k = Saved[1])
  <2>1. End(t, "none") /\ "none" \in Outs
    BY <1>3 DEF Export, Outs
  <2> QED BY <1>1, <2>1, EndDoes DEF Ready
<1> QED BY <1>2, <1>3

(* A killed command is gone. *)
LEMMA KillDoes ==
    ASSUME Ready, NEW t \in Terms, Kill(t)
    PROVE  /\ Jobs' /\ UNCHANGED <<store, plain, token, out, jobs>>
           /\ tmp' = [tmp EXCEPT ![t] = NoDoc] /\ term[t].pc # "idle"
           /\ litter' = litter \union {Remains(d, term[t].file) : d \in {tmp[t]} \ {NoDoc}}
           /\ term'[t] = Idle /\ \A u \in Terms \ {t} : term'[u] = term[u]
<1>1. Sound(t, Idle) /\ Idle.pc = "idle"
  BY IdleSound
<1>2. term' = [term EXCEPT ![t] = Idle] /\ UNCHANGED out
  BY DEF Kill
<1> DEFINE r == Idle
<1>3. Jobs' /\ term'[t] = r /\ \A u \in Terms \ {t} : term'[u] = term[u]
  <2> HIDE DEF r
  <2>1. Sound(t, r) /\ r.pc = "idle" /\ term' = [term EXCEPT ![t] = r]
    BY <1>1, <1>2 DEF r
  <2> QED BY <1>2, <2>1, JobGoesOn DEF Ready
<1> QED BY <1>3 DEF Kill

(* The steps of a command that is under way. *)
Middle(t) ==
    \/ Lookup(t) \/ SopsSet(t) \/ SopsCreate(t) \/ WriteCreated(t)
    \/ RmRead(t) \/ Encrypt(t, "rmenc", "rmmove") \/ RmMove(t)
    \/ Confirm(t) \/ Encrypt(t, "enc", "move") \/ Replace(t) \/ Unlink(t)
    \/ SopsSave(t) \/ InitEncrypt(t)

LEMMA MiddleJobs ==
    ASSUME Ready, NEW t \in Writers, Middle(t)
    PROVE  /\ Jobs' /\ UNCHANGED <<token, jobs>> /\ term[t].pc # "idle"
           /\ \A u \in Terms \ {t} : term'[u] = term[u] /\ out'[u] = out[u]
<1> USE DEF OneKey, Pcs, Ready
<1>0. t \in Terms /\ t \notin Readers
  BY TermsApart
<1> DEFINE Done == /\ Jobs' /\ UNCHANGED <<token, jobs>> /\ term[t].pc # "idle"
                   /\ \A u \in Terms \ {t} : term'[u] = term[u] /\ out'[u] = out[u]
<1> SUFFICES Done
  OBVIOUS
<1>1. CASE Lookup(t)
  BY <1>0, <1>1, GotoDoes, ErrorDoes DEF Lookup
<1>2. CASE SopsSet(t)
  BY <1>0, <1>2, GotoDoes, ErrorDoes, SavedOneDoes DEF SopsSet
<1>3. CASE SopsCreate(t)
  BY <1>0, <1>3, GotoDoes, ErrorDoes DEF SopsCreate
<1>4. CASE WriteCreated(t)
  BY <1>0, <1>4, SavedOneDoes DEF WriteCreated
<1>5. CASE RmRead(t)
  BY <1>0, <1>5, GotoDoes, ErrorDoes DEF RmRead
<1>6. CASE Encrypt(t, "rmenc", "rmmove")
  BY <1>0, <1>6, GotoDoes, ErrorDoes DEF Encrypt
<1>7. CASE RmMove(t)
  <2>1. End(t, "none") /\ "none" \in Outs
    BY <1>7 DEF RmMove, Outs
  <2> QED BY <1>0, <1>7, <2>1, EndDoes DEF RmMove
<1>8. CASE Confirm(t)
  BY <1>0, <1>8, GotoDoes, ErrorDoes DEF Confirm
<1>9. CASE Encrypt(t, "enc", "move")
  BY <1>0, <1>9, GotoDoes, ErrorDoes DEF Encrypt
<1>10. CASE Replace(t)
  BY <1>0, <1>10, GotoDoes DEF Replace
<1>11. CASE Unlink(t)
  <2>1. End(t, "none") /\ "none" \in Outs
    BY <1>11 DEF Unlink, Outs
  <2> QED BY <1>0, <1>11, <2>1, EndDoes DEF Unlink
<1>12. CASE SopsSave(t)
  <2>1. \A o \in {"none"} : o \in Outs
    BY DEF Outs
  <2> QED BY <1>0, <1>12, <2>1, EndDoes, ErrorDoes DEF SopsSave
<1>13. CASE InitEncrypt(t)
  <2>1. \A o \in {"ready"} : o \in Outs
    BY DEF Outs
  <2> QED BY <1>0, <1>13, <2>1, EndDoes, ErrorDoes DEF InitEncrypt
<1> QED BY <1>1, <1>2, <1>3, <1>4, <1>5, <1>6, <1>7, <1>8, <1>9, <1>10, <1>11, <1>12, <1>13
        DEF Middle

LEMMA WriteCases ==
    ASSUME NEW t, Write(t)
    PROVE  \/ BeginWrite(t) \/ BeginEdit(t) \/ BeginInit(t) \/ MintToken(t)
           \/ Decrypt(t) \/ SopsOpen(t) \/ Middle(t)
  BY DEF Write, Middle

LEMMA NextJobs ==
    ASSUME IInv, [Next]_vars
    PROVE  Ready'
<1> USE DEF Ready
<1>1. Ready /\ Documents
  BY ReadyFromIInv DEF IInv
<1>2. ASSUME NEW t \in Writers, Write(t)
      PROVE  Ready'
  <2>1. CASE BeginWrite(t)
    BY <1>1, <2>1, BeginWriteDoes
  <2>2. CASE BeginEdit(t)
    BY <1>1, <2>2, BeginEditDoes
  <2>3. CASE BeginInit(t)
    BY <1>1, <2>3, BeginInitDoes
  <2>4. CASE MintToken(t)
    <3>1. ValuesOf[Saved[2]] \subseteq Values
      BY SavedKeys, StoreAssumption
    <3> QED BY <1>1, <2>4, <3>1, MintDoes
  <2>5. CASE Decrypt(t)
    BY <1>1, <2>5, DecryptDoes
  <2>6. CASE SopsOpen(t)
    BY <1>1, <2>6, SopsOpenDoes
  <2>7. CASE Middle(t)
    BY <1>1, <2>7, MiddleJobs
  <2> QED BY <1>2, <2>1, <2>2, <2>3, <2>4, <2>5, <2>6, <2>7, WriteCases
<1>3. ASSUME NEW t \in Readers, Read(t)
      PROVE  Ready'
  <2>1. CASE BeginExport(t)
    BY <1>1, <2>1, BeginExportDoes DEF BeginExport
  <2>2. CASE Export(t)
    BY <1>1, <2>2, ExportDoes
  <2> QED BY <1>3, <2>1, <2>2 DEF Read
<1>4. ASSUME NEW t \in Terms, Kill(t)
      PROVE  Ready'
  BY <1>1, <1>4, KillDoes
<1>5. CASE Ide
  BY <1>1, <1>5 DEF Ide, Jobs, Buffers, KeyNamed, ReadersRead, Running
<1>6. CASE UNCHANGED vars
  BY <1>1, <1>6 DEF vars, Jobs, Buffers, KeyNamed, ReadersRead, Running
<1> QED BY <1>2, <1>3, <1>4, <1>5, <1>6 DEF Next, Terms

-----------------------------------------------------------------------------
(* The disk. *)

StoreOK == store \in [Files -> Doc] /\ \A f \in Files : Filed(store[f])
PlainOK == Filed(plain) /\ (plain = NoDoc \/ plain.st \in {"yaml", "bad"})
TmpOK ==
    /\ tmp \in [Terms -> Doc]
    /\ \A t \in Terms : Filed(tmp[t]) /\ (tmp[t] = NoDoc \/ tmp[t].st \in {"yaml", "bad", "sops"})
LitterOK ==
    \A d \in litter : /\ d.st \in {"yaml", "bad", "sops"} /\ d.trees \subseteq Trees
                      /\ d.held \in BOOLEAN /\ d.seen \in BOOLEAN /\ (d.held => d.trees # {})
DiskOK == StoreOK /\ PlainOK /\ TmpOK /\ LitterOK

LEMMA InvariantIs == IInv <=> Ready /\ DiskOK
  BY DEF IInv, TypeOK, Ready, Jobs, DiskOK, StoreOK, PlainOK, TmpOK, LitterOK, Documents,
         Temporaries, Giveaways, Filed

LEMMA StorePut ==
    ASSUME StoreOK, NEW f \in Files, NEW d, Filed(d), store' = [store EXCEPT ![f] = d]
    PROVE  StoreOK' /\ store'[f] = d /\ \A g \in Files \ {f} : store'[g] = store[g]
<1>1. store'[f] = d /\ \A g \in Files \ {f} : store'[g] = store[g]
  BY DEF StoreOK
<1>2. store' \in [Files -> Doc]
  BY DEF StoreOK, Filed
<1> QED BY <1>1, <1>2 DEF StoreOK

LEMMA TmpPut ==
    ASSUME TmpOK, NEW t \in Terms, NEW d, Filed(d), d = NoDoc \/ d.st \in {"yaml", "bad", "sops"},
           tmp' = [tmp EXCEPT ![t] = d]
    PROVE  TmpOK' /\ tmp'[t] = d /\ \A u \in Terms \ {t} : tmp'[u] = tmp[u]
<1>1. tmp'[t] = d /\ \A u \in Terms \ {t} : tmp'[u] = tmp[u]
  BY DEF TmpOK
<1>2. tmp' \in [Terms -> Doc]
  BY DEF TmpOK, Filed
<1> QED BY <1>1, <1>2 DEF TmpOK

LEMMA TmpDrop ==
    ASSUME TmpOK, NEW t \in Terms, tmp' = [tmp EXCEPT ![t] = NoDoc]
    PROVE  TmpOK' /\ tmp'[t] = NoDoc /\ \A u \in Terms \ {t} : tmp'[u] = tmp[u]
<1> DEFINE d == NoDoc
<1>1. Filed(d) /\ d = NoDoc /\ tmp' = [tmp EXCEPT ![t] = d]
  BY NoDocFiled
<1> HIDE DEF d
<1>2. TmpOK' /\ tmp'[t] = d /\ \A u \in Terms \ {t} : tmp'[u] = tmp[u]
  BY <1>1, TmpPut
<1> QED BY <1>1, <1>2

(* What a temporary file leaves behind. *)
LEMMA RemainsOK ==
    ASSUME NEW d, Filed(d), d.st \in {"yaml", "bad", "sops"}, NEW f
    PROVE  LET r == Remains(d, f) IN
           /\ r.st \in {"yaml", "bad", "sops"} /\ r.trees \subseteq Trees
           /\ r.held \in BOOLEAN /\ r.seen \in BOOLEAN /\ (r.held => r.trees # {})
<1>1. d.trees \subseteq Trees
  BY DEF Filed, Doc
<1>2. Held(d) \in BOOLEAN
  BY DEF Held
<1>3. Held(d) => d.trees # {}
  BY DEF Held, Filed
<1> QED BY <1>1, <1>2, <1>3 DEF Remains

LEMMA DocumentsFrom == DiskOK => Documents
  BY DEF DiskOK, StoreOK, PlainOK, TmpOK, Documents

(* What the steps under way do to the disk. *)
LEMMA SopsSetDisk ==
    ASSUME Ready, DiskOK, NEW t \in Writers, SopsSet(t)
    PROVE  /\ DiskOK' /\ UNCHANGED <<plain, tmp, litter>>
           /\ \/ Error(t) /\ UNCHANGED store
              \/ /\ store[term[t].file].st = "absent"
                 /\ Goto(t, "create") /\ UNCHANGED <<store, out>>
              \/ /\ SavedOne(t) /\ store[term[t].file].st = "sops"
                 /\ store'[term[t].file].val =
                       [store[term[t].file].val EXCEPT ![term[t].key] = term[t].v]
                 /\ \A f \in Files \ {term[t].file} : store'[f] = store[f]
<1>1. /\ t \in Terms /\ term[t].key \in Keys /\ term[t].file \in Files
      /\ term[t].v \in Values \union {None} /\ term[t].pc = "set"
      /\ UNCHANGED <<plain, tmp, litter>>
  BY TermsApart DEF SopsSet, Ready, Jobs, Job, KeyNamed, OneKey
<1> DEFINE f == term[t].file
           d == SetKey(store[f], term[t].key, term[t].v)
<1>2. CASE store[f].st = "sops" /\ store' = [store EXCEPT ![f] = d] /\ SavedOne(t)
  <2>1. Filed(store[f])
    BY <1>1 DEF DiskOK, StoreOK
  <2>2. Filed(d) /\ d.val = [store[f].val EXCEPT ![term[t].key] = term[t].v]
    BY <1>1, <1>2, <2>1, SetKeyFiled
  <2> HIDE DEF d
  <2>3. StoreOK' /\ store'[f] = d /\ \A g \in Files \ {f} : store'[g] = store[g]
    BY <1>1, <1>2, <2>2, StorePut DEF DiskOK
  <2> QED BY <1>1, <1>2, <2>2, <2>3 DEF DiskOK, PlainOK, TmpOK, LitterOK
<1>3. CASE \/ Error(t) /\ UNCHANGED store
           \/ store[f].st = "absent" /\ Goto(t, "create") /\ UNCHANGED <<store, out>>
  BY <1>1, <1>3 DEF DiskOK, StoreOK, PlainOK, TmpOK, LitterOK
<1>4. \/ store[f].st = "sops" /\ store' = [store EXCEPT ![f] = d] /\ SavedOne(t)
      \/ Error(t) /\ UNCHANGED store
      \/ store[f].st = "absent" /\ Goto(t, "create") /\ UNCHANGED <<store, out>>
  BY DEF SopsSet, Readable
<1> QED BY <1>2, <1>3, <1>4

LEMMA WriteCreatedDisk ==
    ASSUME Ready, DiskOK, NEW t \in Writers, WriteCreated(t)
    PROVE  /\ DiskOK' /\ UNCHANGED <<plain, tmp, litter>> /\ SavedOne(t)
           /\ store'[term[t].file].val = [NoDoc.val EXCEPT ![term[t].key] = term[t].v]
           /\ \A f \in Files \ {term[t].file} : store'[f] = store[f]
<1>1. /\ t \in Terms /\ term[t].key \in Keys /\ term[t].file \in Files
      /\ term[t].v \in Values \union {None}
  BY TermsApart DEF WriteCreated, Ready, Jobs, Job, KeyNamed, OneKey
<1> DEFINE f == term[t].file
           d == SetKey(NoDoc, term[t].key, term[t].v)
<1>2. /\ store' = [store EXCEPT ![f] = d] /\ SavedOne(t) /\ UNCHANGED <<plain, tmp, litter>>
  BY DEF WriteCreated
<1>3. Filed(d) /\ d.val = [NoDoc.val EXCEPT ![term[t].key] = term[t].v]
  BY <1>1, NoDocFiled, SetKeyFiled
<1> HIDE DEF d
<1>4. StoreOK' /\ store'[f] = d /\ \A g \in Files \ {f} : store'[g] = store[g]
  BY <1>1, <1>2, <1>3, StorePut DEF DiskOK
<1> QED BY <1>2, <1>3, <1>4 DEF DiskOK, PlainOK, TmpOK, LitterOK

LEMMA SopsCreateDisk ==
    ASSUME Ready, DiskOK, NEW t \in Writers, SopsCreate(t)
    PROVE  /\ DiskOK' /\ UNCHANGED <<plain, tmp, litter>>
           /\ \/ Error(t) /\ UNCHANGED store
              \/ /\ Goto(t, "write") /\ UNCHANGED out
                 /\ store'[term[t].file].st = "empty" /\ store'[term[t].file].val = NoDoc.val
                 /\ \A f \in Files \ {term[t].file} : store'[f] = store[f]
<1>1. term[t].file \in Files /\ UNCHANGED <<plain, tmp, litter>>
  BY TermsApart DEF SopsCreate, Ready, Jobs, Job
<1> DEFINE f == term[t].file
           d == [NoDoc EXCEPT !.st = "empty"]
<1>2. Filed(d) /\ d.st = "empty" /\ d.val = NoDoc.val
  BY EmptyFiled
<1>3. \/ store' = [store EXCEPT ![f] = d] /\ Goto(t, "write") /\ UNCHANGED out
      \/ Error(t) /\ UNCHANGED store
  BY DEF SopsCreate
<1> HIDE DEF d
<1>4. CASE store' = [store EXCEPT ![f] = d] /\ Goto(t, "write") /\ UNCHANGED out
  <2>1. StoreOK' /\ store'[f] = d /\ \A g \in Files \ {f} : store'[g] = store[g]
    BY <1>1, <1>2, <1>4, StorePut DEF DiskOK
  <2> QED BY <1>1, <1>2, <1>4, <2>1 DEF DiskOK, PlainOK, TmpOK, LitterOK
<1>5. CASE Error(t) /\ UNCHANGED store
  BY <1>1, <1>5 DEF DiskOK, StoreOK, PlainOK, TmpOK, LitterOK
<1> QED BY <1>3, <1>4, <1>5

LEMMA RmReadDisk ==
    ASSUME Ready, DiskOK, NEW t \in Writers, RmRead(t)
    PROVE  /\ DiskOK' /\ UNCHANGED <<store, plain, litter>>
           /\ \A u \in Terms \ {t} : tmp'[u] = tmp[u]
           /\ \/ Error(t)
              \/ /\ Goto(t, "rmenc") /\ UNCHANGED out
                 /\ tmp'[t].val = [store[term[t].file].val EXCEPT ![term[t].key] = None]
<1>1. /\ t \in Terms /\ term[t].file \in Files /\ term[t].key \in Keys
      /\ UNCHANGED <<store, plain, litter>>
  BY TermsApart DEF RmRead, Ready, Jobs, Job, KeyNamed, OneKey
<1> DEFINE e == DelKey(store[term[t].file], term[t].key)
           d == [e EXCEPT !.st = "yaml"]
<1>2. \/ tmp' = [tmp EXCEPT ![t] = d] /\ Goto(t, "rmenc") /\ UNCHANGED out
      \/ Error(t) /\ UNCHANGED tmp
  BY DEF RmRead
<1>3. Filed(store[term[t].file])
  BY <1>1 DEF DiskOK, StoreOK
<1>4. Filed(e) /\ e.val = [store[term[t].file].val EXCEPT ![term[t].key] = None]
  BY <1>1, <1>3, DelKeyFiled
<1> HIDE DEF e
<1>5. Filed(d) /\ d.st = "yaml" /\ d.val = e.val
  BY <1>4, FormFiled
<1> HIDE DEF d
<1>6. CASE tmp' = [tmp EXCEPT ![t] = d] /\ Goto(t, "rmenc") /\ UNCHANGED out
  <2>1. TmpOK' /\ tmp'[t] = d /\ \A u \in Terms \ {t} : tmp'[u] = tmp[u]
    BY <1>1, <1>5, <1>6, TmpPut DEF DiskOK
  <2> QED BY <1>1, <1>4, <1>5, <1>6, <2>1 DEF DiskOK, StoreOK, PlainOK, LitterOK
<1>7. CASE Error(t) /\ UNCHANGED tmp
  BY <1>1, <1>7 DEF DiskOK, StoreOK, PlainOK, TmpOK, LitterOK
<1> QED BY <1>2, <1>6, <1>7

LEMMA EncryptDisk ==
    ASSUME Ready, DiskOK, NEW t \in Writers, NEW from, NEW to, Encrypt(t, from, to)
    PROVE  /\ DiskOK' /\ UNCHANGED <<store, plain, litter>> /\ term[t].pc = from
           /\ \A u \in Terms \ {t} : tmp'[u] = tmp[u]
           /\ \/ Error(t)
              \/ Goto(t, to) /\ UNCHANGED out /\ tmp'[t].val = tmp[t].val
<1>1. t \in Terms /\ UNCHANGED <<store, plain, litter>> /\ term[t].pc = from
  BY TermsApart DEF Encrypt
<1>2. \/ /\ tmp[t].st = "yaml" /\ tmp' = [tmp EXCEPT ![t].st = "sops"]
         /\ Goto(t, to) /\ UNCHANGED out
      \/ tmp' = [tmp EXCEPT ![t] = NoDoc] /\ Error(t)
  BY DEF Encrypt
<1>3. CASE /\ tmp' = [tmp EXCEPT ![t].st = "sops"]
           /\ Goto(t, to) /\ UNCHANGED out
  <2> DEFINE d == [tmp[t] EXCEPT !.st = "sops"]
  <2>1. Filed(tmp[t])
    BY <1>1 DEF DiskOK, TmpOK
  <2>2. Filed(d) /\ d.st = "sops" /\ d.val = tmp[t].val
    BY <2>1, FormFiled
  <2>3. tmp' = [tmp EXCEPT ![t] = d]
    BY <1>3
  <2> HIDE DEF d
  <2>4. TmpOK' /\ tmp'[t] = d /\ \A u \in Terms \ {t} : tmp'[u] = tmp[u]
    BY <1>1, <2>2, <2>3, TmpPut DEF DiskOK
  <2> QED BY <1>1, <1>3, <2>2, <2>4 DEF DiskOK, StoreOK, PlainOK, LitterOK
<1>4. CASE tmp' = [tmp EXCEPT ![t] = NoDoc] /\ Error(t)
  <2>1. TmpOK' /\ \A u \in Terms \ {t} : tmp'[u] = tmp[u]
    BY <1>1, <1>4, TmpDrop DEF DiskOK
  <2> QED BY <1>1, <1>4, <2>1 DEF DiskOK, StoreOK, PlainOK, LitterOK
<1> QED BY <1>2, <1>3, <1>4

(* rm and edit put their text in the place of the file. *)
LEMMA InPlaceDisk ==
    ASSUME Ready, DiskOK, NEW t \in Writers,
           store' = [store EXCEPT ![term[t].file] = tmp[t]], tmp' = [tmp EXCEPT ![t] = NoDoc],
           UNCHANGED <<plain, litter>>
    PROVE  /\ DiskOK'
           /\ store'[term[t].file] = tmp[t]
           /\ \A f \in Files \ {term[t].file} : store'[f] = store[f]
<1>1. t \in Terms /\ term[t].file \in Files
  BY TermsApart DEF Ready, Jobs, Job
<1> DEFINE d == tmp[t]
<1>2. Filed(d) /\ store' = [store EXCEPT ![term[t].file] = d]
  BY <1>1 DEF DiskOK, TmpOK
<1> HIDE DEF d
<1>3. StoreOK' /\ store'[term[t].file] = d /\ \A g \in Files \ {term[t].file} : store'[g] = store[g]
  BY <1>1, <1>2, StorePut DEF DiskOK
<1>4. TmpOK'
  BY <1>1, TmpDrop DEF DiskOK
<1> QED BY <1>3, <1>4 DEF DiskOK, PlainOK, LitterOK, d

LEMMA ConfirmDisk ==
    ASSUME Ready, DiskOK, NEW t \in Writers, Confirm(t)
    PROVE  /\ DiskOK' /\ UNCHANGED <<store, plain, litter>>
           /\ \A u \in Terms \ {t} : tmp'[u] = tmp[u]
           /\ \/ Error(t)
              \/ Goto(t, "enc") /\ UNCHANGED out /\ tmp'[t] = plain
<1>1. t \in Terms /\ UNCHANGED <<store, plain, litter>>
  BY TermsApart DEF Confirm
<1>2. \/ /\ plain.st # "absent" /\ tmp' = [tmp EXCEPT ![t] = plain]
         /\ Goto(t, "enc") /\ UNCHANGED out
      \/ Error(t) /\ UNCHANGED tmp
  BY DEF Confirm
<1>3. CASE /\ plain.st # "absent" /\ tmp' = [tmp EXCEPT ![t] = plain]
           /\ Goto(t, "enc") /\ UNCHANGED out
  <2> DEFINE d == plain
  <2>1. Filed(d) /\ d.st \in {"yaml", "bad"} /\ tmp' = [tmp EXCEPT ![t] = d]
    BY <1>3, NoDocFiled DEF DiskOK, PlainOK
  <2> HIDE DEF d
  <2>2. TmpOK' /\ tmp'[t] = d /\ \A u \in Terms \ {t} : tmp'[u] = tmp[u]
    BY <1>1, <2>1, TmpPut DEF DiskOK
  <2> QED BY <1>1, <1>3, <2>2 DEF DiskOK, StoreOK, PlainOK, LitterOK, d
<1>4. CASE Error(t) /\ UNCHANGED tmp
  BY <1>1, <1>4 DEF DiskOK, StoreOK, PlainOK, TmpOK, LitterOK
<1> QED BY <1>2, <1>3, <1>4

LEMMA SopsSaveDisk ==
    ASSUME Ready, DiskOK, NEW t \in Writers, SopsSave(t)
    PROVE  /\ DiskOK' /\ UNCHANGED <<plain, tmp, litter>>
           /\ \/ Error(t) /\ UNCHANGED store
              \/ /\ End(t, "none") /\ term[t].pc = "editor"
                 /\ store'[term[t].file].val = term[t].buf.val
                 /\ \A f \in Files \ {term[t].file} : store'[f] = store[f]
<1>1. t \in Terms /\ term[t].file \in Files /\ UNCHANGED <<plain, tmp, litter>>
  BY TermsApart DEF Ready, Jobs, Job, SopsSave
<1> DEFINE d == [term[t].buf EXCEPT !.st = "sops"]
<1>2. \/ Error(t) /\ UNCHANGED store
      \/ store' = [store EXCEPT ![term[t].file] = d] /\ End(t, "none") /\ term[t].pc = "editor"
  BY DEF SopsSave
<1>3. Filed(term[t].buf)
  BY <1>1 DEF Ready, Jobs, Buffers
<1>4. Filed(d) /\ d.val = term[t].buf.val
  BY <1>3, FormFiled
<1> HIDE DEF d
<1>5. CASE store' = [store EXCEPT ![term[t].file] = d] /\ End(t, "none") /\ term[t].pc = "editor"
  <2>1. StoreOK' /\ store'[term[t].file] = d
        /\ \A g \in Files \ {term[t].file} : store'[g] = store[g]
    BY <1>1, <1>4, <1>5, StorePut DEF DiskOK
  <2> QED BY <1>1, <1>4, <1>5, <2>1 DEF DiskOK, PlainOK, TmpOK, LitterOK
<1>6. CASE Error(t) /\ UNCHANGED store
  BY <1>1, <1>6 DEF DiskOK, StoreOK, PlainOK, TmpOK, LitterOK
<1> QED BY <1>2, <1>5, <1>6

LEMMA InitEncryptDisk ==
    ASSUME Ready, DiskOK, NEW t \in Writers, InitEncrypt(t)
    PROVE  /\ DiskOK' /\ UNCHANGED plain /\ term[t].pc = "stub"
           /\ \/ Error(t) /\ UNCHANGED store
              \/ /\ End(t, "ready") /\ store'[Main].val = NoDoc.val
                 /\ \A f \in Files \ {Main} : store'[f] = store[f]
<1>1. /\ t \in Terms /\ Main \in Files /\ UNCHANGED plain
      /\ tmp' = [tmp EXCEPT ![t] = NoDoc] /\ term[t].pc = "stub"
  BY TermsApart, StoreAssumption DEF InitEncrypt
<1> DEFINE d == [Stub EXCEPT !.st = "sops"]
<1>2. \/ store' = [store EXCEPT ![Main] = d] /\ UNCHANGED litter /\ End(t, "ready")
      \/ litter' = litter \union {Remains(Stub, Main)} /\ UNCHANGED store /\ Error(t)
  BY DEF InitEncrypt
<1>3. Filed(d) /\ d.val = NoDoc.val
  BY StubFiled, FormFiled
<1> HIDE DEF d
<1>4. TmpOK'
  BY <1>1, TmpDrop DEF DiskOK
<1>5. CASE store' = [store EXCEPT ![Main] = d] /\ UNCHANGED litter /\ End(t, "ready")
  <2>1. StoreOK' /\ store'[Main] = d /\ \A g \in Files \ {Main} : store'[g] = store[g]
    BY <1>1, <1>3, <1>5, StorePut DEF DiskOK
  <2> QED BY <1>1, <1>3, <1>4, <1>5, <2>1 DEF DiskOK, PlainOK, LitterOK
<1>6. CASE litter' = litter \union {Remains(Stub, Main)} /\ UNCHANGED store /\ Error(t)
  <2> DEFINE r == Remains(Stub, Main)
  <2>1. /\ r.st \in {"yaml", "bad", "sops"} /\ r.trees \subseteq Trees
        /\ r.held \in BOOLEAN /\ r.seen \in BOOLEAN /\ (r.held => r.trees # {})
    BY StubFiled, RemainsOK
  <2>2. litter' = litter \union {r}
    BY <1>6
  <2> HIDE DEF r
  <2>3. LitterOK'
    BY <2>1, <2>2 DEF DiskOK, LitterOK
  <2> QED BY <1>1, <1>4, <1>6, <2>3 DEF DiskOK, PlainOK, StoreOK
<1> QED BY <1>1, <1>2, <1>5, <1>6

LEMMA MiddleDisk ==
    ASSUME Ready, DiskOK, NEW t \in Writers, Middle(t)
    PROVE  DiskOK'
<1>1. ASSUME UNCHANGED Disk
      PROVE  DiskOK'
  BY <1>1 DEF Disk, DiskOK, StoreOK, PlainOK, TmpOK, LitterOK
<1>2. CASE Lookup(t)
  BY <1>1, <1>2 DEF Lookup
<1>3. CASE SopsSet(t)
  BY <1>3, SopsSetDisk
<1>4. CASE SopsCreate(t)
  BY <1>4, SopsCreateDisk
<1>5. CASE WriteCreated(t)
  BY <1>5, WriteCreatedDisk
<1>6. CASE RmRead(t)
  BY <1>6, RmReadDisk
<1>7. CASE Encrypt(t, "rmenc", "rmmove") \/ Encrypt(t, "enc", "move")
  BY <1>7, EncryptDisk
<1>8. CASE RmMove(t)
  BY <1>8, InPlaceDisk DEF RmMove
<1>9. CASE Confirm(t)
  BY <1>9, ConfirmDisk
<1>10. CASE Replace(t)
  BY <1>10, InPlaceDisk DEF Replace
<1>11. CASE Unlink(t)
  BY <1>11, NoDocFiled DEF Unlink, DiskOK, StoreOK, PlainOK, TmpOK, LitterOK
<1>12. CASE SopsSave(t)
  BY <1>12, SopsSaveDisk
<1>13. CASE InitEncrypt(t)
  BY <1>13, InitEncryptDisk
<1> QED BY <1>2, <1>3, <1>4, <1>5, <1>6, <1>7, <1>8, <1>9, <1>10, <1>11, <1>12, <1>13 DEF Middle

LEMMA NextDisk ==
    ASSUME Ready, DiskOK, [Next]_vars
    PROVE  DiskOK'
<1>1. ASSUME UNCHANGED Disk
      PROVE  DiskOK'
  BY <1>1 DEF Disk, DiskOK, StoreOK, PlainOK, TmpOK, LitterOK
<1>2. ASSUME NEW t \in Writers, Write(t)
      PROVE  DiskOK'
  <2>1. CASE BeginWrite(t) \/ BeginEdit(t) \/ MintToken(t) \/ SopsOpen(t)
    BY <1>1, <2>1 DEF BeginWrite, BeginEdit, MintToken, SopsOpen
  <2>2. CASE BeginInit(t)
    <3>1. CASE UNCHANGED <<store, tmp>> /\ UNCHANGED <<plain, litter>>
      BY <1>1, <3>1 DEF Disk
    <3>2. CASE /\ tmp' = [tmp EXCEPT ![t] = Stub]
               /\ store' = [store EXCEPT ![Main] = [NoDoc EXCEPT !.st = "empty"]]
               /\ UNCHANGED <<plain, litter>>
      <4> DEFINE stub == Stub
                 empty == [NoDoc EXCEPT !.st = "empty"]
      <4>1. Filed(stub) /\ stub.st = "yaml" /\ Filed(empty) /\ Main \in Files /\ t \in Terms
        BY StubFiled, EmptyFiled, StoreAssumption, TermsApart
      <4>2. tmp' = [tmp EXCEPT ![t] = stub] /\ store' = [store EXCEPT ![Main] = empty]
        BY <3>2
      <4> HIDE DEF stub, empty
      <4>3. TmpOK' /\ StoreOK'
        BY <4>1, <4>2, TmpPut, StorePut DEF DiskOK
      <4> QED BY <3>2, <4>3 DEF DiskOK, PlainOK, LitterOK
    <3> QED BY <2>2, <3>1, <3>2, BeginInitDoes
  <2>3. CASE Decrypt(t)
    <3>1. UNCHANGED <<store, tmp, litter>> /\ term[t].file \in Files
      BY <2>3, TermsApart DEF Decrypt, Ready, Jobs, Job
    <3>2. PlainOK'
      <4> DEFINE d == [store[term[t].file] EXCEPT !.st = "yaml"]
      <4>1. Filed(d) /\ d.st = "yaml"
        BY <3>1, FormFiled DEF DiskOK, StoreOK
      <4>2. plain' = d \/ UNCHANGED plain
        BY <2>3 DEF Decrypt
      <4> HIDE DEF d
      <4> QED BY <4>1, <4>2 DEF DiskOK, PlainOK
    <3> QED BY <3>1, <3>2 DEF DiskOK, StoreOK, TmpOK, LitterOK
  <2>4. CASE Middle(t)
    BY <2>4, MiddleDisk
  <2> QED BY <1>2, <2>1, <2>2, <2>3, <2>4, WriteCases
<1>3. ASSUME NEW t \in Readers, Read(t)
      PROVE  DiskOK'
  BY <1>1, <1>3 DEF Read, BeginExport, Export
<1>4. ASSUME NEW t \in Terms, Kill(t)
      PROVE  DiskOK'
  <2>1. /\ UNCHANGED <<store, plain>> /\ tmp' = [tmp EXCEPT ![t] = NoDoc]
        /\ litter' = litter \union {Remains(d, term[t].file) : d \in {tmp[t]} \ {NoDoc}}
    BY <1>4 DEF Kill
  <2>2. TmpOK'
    BY <2>1, TmpDrop DEF DiskOK
  <2>3. ASSUME NEW r \in litter'
        PROVE  /\ r.st \in {"yaml", "bad", "sops"} /\ r.trees \subseteq Trees
               /\ r.held \in BOOLEAN /\ r.seen \in BOOLEAN /\ (r.held => r.trees # {})
    <3>1. CASE r \in litter
      BY <3>1 DEF DiskOK, LitterOK
    <3>2. CASE r = Remains(tmp[t], term[t].file) /\ tmp[t] # NoDoc
      <4>1. Filed(tmp[t]) /\ tmp[t].st \in {"yaml", "bad", "sops"}
        BY <3>2 DEF DiskOK, TmpOK
      <4> QED BY <3>2, <4>1, RemainsOK
    <3> QED BY <2>1, <2>3, <3>1, <3>2
  <2> QED BY <2>1, <2>2, <2>3 DEF DiskOK, StoreOK, PlainOK, LitterOK
<1>5. CASE Ide
  <2>1. /\ plain.st = "yaml" /\ plain' \in ByHand(plain) \union {[plain EXCEPT !.st = "bad"]}
        /\ UNCHANGED <<store, tmp, litter>> /\ Filed(plain)
    BY <1>5 DEF Ide, DiskOK, PlainOK
  <2> DEFINE d == plain'
  <2>2. Filed(d) /\ d.st \in {"yaml", "bad"}
    <3>1. CASE d \in ByHand(plain)
      BY <2>1, <3>1, ByHandFiled
    <3>2. CASE d = [plain EXCEPT !.st = "bad"]
      BY <2>1, <3>2, FormFiled
    <3> QED BY <2>1, <3>1, <3>2
  <2>3. PlainOK'
    BY <2>2 DEF PlainOK
  <2> QED BY <2>1, <2>3 DEF DiskOK, StoreOK, TmpOK, LitterOK
<1>6. CASE UNCHANGED vars
  BY <1>1, <1>6 DEF vars, Disk
<1> QED BY <1>2, <1>3, <1>4, <1>5, <1>6 DEF Next, Terms

LEMMA InitIInv == Init => IInv
<1> SUFFICES ASSUME Init PROVE Ready /\ DiskOK
  BY InvariantIs
<1>1. ASSUME NEW d \in Stored
      PROVE  Filed(d) /\ d.st = "sops"
  <2>1. PICK val \in [Keys -> Values \union {None}] :
           d = Trim([NoDoc EXCEPT !.st = "sops", !.val = val])
    BY <1>1 DEF Stored
  <2> DEFINE e == [NoDoc EXCEPT !.st = "sops", !.val = val]
  <2>2. e \in Doc /\ e.st = "sops"
    BY NoDocFiled DEF Filed, Doc
  <2> HIDE DEF e
  <2>3. Filed(Trim(e)) /\ Trim(e).st = "sops"
    BY <2>2, TrimFiled
  <2> QED BY <2>1, <2>3 DEF e
<1>2. \A f \in Files : Filed(store[f])
  BY <1>1, NoDocFiled DEF Init
<1>3. store \in [Files -> Doc]
  BY <1>1, NoDocFiled DEF Init, Filed
<1>4. DiskOK
  BY <1>2, <1>3, NoDocFiled DEF Init, DiskOK, StoreOK, PlainOK, TmpOK, LitterOK, Filed
<1>5. \A t \in Terms : term[t] = Idle /\ out[t] = "none"
  BY DEF Init
<1>6. term \in [Terms -> Job] /\ out \in [Terms -> Outs]
  BY IdleSound DEF Init, Sound, Outs
<1>7. 0 \in 0 .. MaxJobs
  BY StoreAssumption
<1>8. Jobs
  BY <1>5, <1>6, IdleSound DEF Jobs, Sound, Buffers, KeyNamed, ReadersRead, Running, Terms
<1> QED BY <1>4, <1>7, <1>8 DEF Init, Ready

LEMMA NextIInv == IInv /\ [Next]_vars => IInv'
<1> SUFFICES ASSUME IInv, [Next]_vars PROVE IInv'
  OBVIOUS
<1>1. Ready /\ DiskOK
  BY InvariantIs
<1>2. Ready' /\ DiskOK'
  BY <1>1, NextJobs, NextDisk
<1> QED BY <1>2
  DEF IInv, TypeOK, Ready, Jobs, DiskOK, StoreOK, PlainOK, TmpOK, LitterOK, Documents,
      Temporaries, Giveaways, Filed

(* A temporary file that gives a secret away gives away its tree. *)
LEMMA CheckSees == IInv => CheckSeesPlaintext
<1> SUFFICES ASSUME IInv, CheckOk
             PROVE  ~Held(plain) /\ \A d \in Temporary : d.st = "yaml" /\ d.seen => ~d.held
  BY DEF CheckSeesPlaintext
<1>1. DiskOK
  BY InvariantIs
<1>2. ~Held(plain)
  BY <1>1 DEF CheckOk, DiskOK, PlainOK, Filed
<1>3. ASSUME NEW d \in Temporary, d.st = "yaml", d.seen
      PROVE  ~d.held
  <2>1. d.trees \subseteq Trees /\ (d.held => d.trees # {})
    <3>1. CASE d \in litter
      BY <1>1, <3>1 DEF DiskOK, LitterOK
    <3>2. ASSUME NEW t \in Terms, tmp[t] # NoDoc, d = Remains(tmp[t], term[t].file)
          PROVE  d.trees \subseteq Trees /\ (d.held => d.trees # {})
      <4>1. Filed(tmp[t]) /\ tmp[t].st \in {"yaml", "bad", "sops"}
        BY <1>1, <3>2 DEF DiskOK, TmpOK
      <4> QED BY <3>2, <4>1, RemainsOK
    <3> QED BY <3>1, <3>2 DEF Temporary
  <2>2. \A tree \in d.trees : Misplaced(tree)
    BY <1>3 DEF Misplaced, FoundIn
  <2> QED BY <2>1, <2>2 DEF CheckOk, CheckProblems
<1> QED BY <1>2, <1>3

-----------------------------------------------------------------------------
THEOREM Invariance == Spec => []IInv
  BY InitIInv, NextIInv, PTL DEF Spec

(* The files, the temporary ones and the commands are well typed throughout, *)
(* and every value lies in a tree that its file has.                         *)
THEOREM TypeCorrect == Spec => []TypeOK
<1>1. IInv => TypeOK
  BY DEF IInv
<1> QED BY <1>1, Invariance, PTL

(* However many terminals write, and whichever are killed: a check that comes *)
(* out clean and passed over nothing has overlooked no decrypted secret.      *)
THEOREM CleanCheckIsTrue == Spec => []CheckSeesPlaintext
  BY Invariance, CheckSees, PTL

-----------------------------------------------------------------------------
(* One terminal that writes. *)

(* What is there only while a command is at a certain point. *)
MidChange == {"create", "write", "stub", "rmenc", "rmmove", "confirm", "enc", "move", "editor"}

LEMMA AloneFrame ==
    ASSUME Alone, UNCHANGED <<store, token>>,
           \A t \in Writers : term'[t] = term[t] /\ out'[t] = out[t] /\ tmp'[t] = tmp[t]
    PROVE  Alone'
  BY DEF Alone, Creating, Removing, Based, Minting, TokenSaved, Secret

LEMMA AloneFresh ==
    ASSUME OneWriter, NEW t \in Writers, term'[t].pc \notin MidChange, term'[t].cmd # "mint",
           out'[t] # "minted"
    PROVE  Alone'
  BY DEF OneWriter, MidChange, Alone, Creating, Removing, Based, Minting, TokenSaved

LEMMA AloneIdle ==
    ASSUME OneWriter, NEW t \in Writers, term'[t] = Idle, out'[t] # "minted"
    PROVE  Alone'
<1>1. Idle.pc = "idle" /\ Idle.cmd = "none"
  BY DEF Idle
<1> QED BY <1>1, AloneFresh DEF MidChange

(* A command that goes on has said nothing. *)
LEMMA NothingSaid ==
    ASSUME Jobs', NEW t \in Writers, term'[t].pc # "idle"
    PROVE  out'[t] = "none"
  BY TermsApart DEF Jobs, Running

(* Neither the address nor the token is in a file that is being created. *)
LEMMA NothingThere ==
    ASSUME DiskOK, NEW k \in Keys, store[Owner(k)].st \in {"absent", "empty"}
    PROVE  Secret(k) = None
  BY OwnersAreFiles DEF DiskOK, StoreOK, Filed, Held, Secret

(* A key that issue-tf-token saved: then it has the token to save, or is done. *)
LEMMA SavedAlone ==
    ASSUME OneWriter, Ready, Alone, NEW t \in Writers, UNCHANGED token,
           term[t].pc \in {"set", "write"}, SavedOne(t),
           store'[term[t].file].val[term[t].key] = term[t].v,
           term[t].cmd = "mint" /\ term[t].key = Saved[2] => Secret(Saved[1])' = Secret(Saved[1])
    PROVE  Alone'
<1>1. term[t].cmd = "mint" =>
         /\ \/ /\ term[t].key = Saved[1] /\ term[t].v = Endpoint
               /\ term[t].buf.val[Saved[2]] = token
            \/ /\ term[t].key = Saved[2] /\ term[t].v = token
               /\ Secret(Saved[1]) = Endpoint
         /\ term[t].file = Owner(term[t].key)
  BY DEF Alone, Minting
<1>2. ASSUME NEW k, term[t].cmd = "mint", k = term[t].key
      PROVE  Secret(k)' = term[t].v
  BY <1>1, <1>2 DEF Secret, Owner, FileFor
<1>3. CASE /\ term[t].cmd = "mint" /\ term[t].key = Saved[1]
           /\ term'[t].pc = "set" /\ term'[t].cmd = "mint" /\ term'[t].key = Saved[2]
           /\ term'[t].v = term[t].buf.val[Saved[2]] /\ term'[t].file = Owner(Saved[2])
           /\ Jobs'
  <2>1. out'[t] = "none"
    BY <1>3, NothingSaid
  <2>2. Secret(Saved[1])' = Endpoint /\ term'[t].v = token'
    BY <1>1, <1>2, <1>3, SavedKeys
  <2> QED BY <1>3, <2>1, <2>2
          DEF OneWriter, Alone, Creating, Removing, Based, Minting, TokenSaved
<1>4. CASE /\ ~(term[t].cmd = "mint" /\ term[t].key = Saved[1])
           /\ term'[t] = Idle
           /\ out'[t] = IF term[t].cmd = "mint" THEN "minted" ELSE "none"
  <2>1. CASE term[t].cmd = "mint"
    <3>1. Secret(Saved[1])' = Endpoint /\ Secret(Saved[2])' = token'
      BY <1>1, <1>2, <1>4, <2>1
    <3>2. Idle.pc = "idle" /\ Idle.cmd = "none"
      BY DEF Idle
    <3> QED BY <1>4, <3>1, <3>2
            DEF OneWriter, Alone, Creating, Removing, Based, Minting, TokenSaved
  <2>2. CASE term[t].cmd # "mint"
    BY <1>4, <2>2, AloneIdle
  <2> QED BY <2>1, <2>2
<1> QED BY <1>3, <1>4, SavedOneDoes DEF Ready

LEMMA SopsSetAlone ==
    ASSUME OneWriter, Ready, DiskOK, Alone, NEW t \in Writers, SopsSet(t)
    PROVE  Alone'
<1>1. /\ t \in Terms /\ t \notin Readers /\ term[t].file \in Files /\ term[t].key \in Keys
      /\ term[t].pc = "set" /\ UNCHANGED token
  BY TermsApart DEF SopsSet, Ready, Jobs, Job, KeyNamed, OneKey
<1>2. CASE store[term[t].file].st = "absent" /\ Goto(t, "create") /\ UNCHANGED <<store, out>>
  <2>1. /\ Jobs' /\ term'[t].pc = "create"
        /\ term'[t].key = term[t].key /\ term'[t].v = term[t].v /\ term'[t].cmd = term[t].cmd
        /\ term'[t].file = term[t].file /\ term'[t].buf = term[t].buf
    BY <1>1, <1>2, GotoDoes DEF OneKey, Pcs, Ready
  <2>2. out'[t] = "none"
    BY <2>1, NothingSaid
  <2> QED BY <1>1, <1>2, <2>1, <2>2
          DEF OneWriter, Alone, Creating, Removing, Based, Minting, TokenSaved, Secret
<1>3. CASE /\ SavedOne(t)
           /\ store'[term[t].file].val =
                 [store[term[t].file].val EXCEPT ![term[t].key] = term[t].v]
           /\ \A f \in Files \ {term[t].file} : store'[f] = store[f]
  <2>1. store[term[t].file].val \in [Keys -> Values \union {None}]
    BY <1>1 DEF DiskOK, StoreOK, Doc
  <2>2. store'[term[t].file].val[term[t].key] = term[t].v
    BY <1>1, <1>3, <2>1
  <2>3. term[t].key = Saved[2] => Secret(Saved[1])' = Secret(Saved[1])
    BY <1>3, <2>1, SavedKeys, OwnersAreFiles DEF Secret
  <2> QED BY <1>1, <1>3, <2>2, <2>3, SavedAlone
<1>4. CASE Error(t)
  BY <1>1, <1>4, ErrorDoes, AloneIdle DEF Ready
<1> QED BY <1>2, <1>3, <1>4, SopsSetDisk

LEMMA SopsCreateAlone ==
    ASSUME OneWriter, Ready, DiskOK, Alone, NEW t \in Writers, SopsCreate(t)
    PROVE  Alone'
<1>1. /\ t \in Terms /\ t \notin Readers /\ term[t].file \in Files
      /\ term[t].pc = "create" /\ UNCHANGED token
  BY TermsApart DEF SopsCreate, Ready, Jobs, Job
<1>2. CASE /\ Goto(t, "write") /\ UNCHANGED out
           /\ store'[term[t].file].st = "empty"
           /\ \A f \in Files \ {term[t].file} : store'[f] = store[f]
  <2>1. /\ Jobs' /\ term'[t].pc = "write"
        /\ term'[t].key = term[t].key /\ term'[t].v = term[t].v /\ term'[t].cmd = term[t].cmd
        /\ term'[t].file = term[t].file /\ term'[t].buf = term[t].buf
    BY <1>1, <1>2, GotoDoes DEF OneKey, Pcs, Ready
  <2>2. out'[t] = "none"
    BY <2>1, NothingSaid
  <2>3. store[term[t].file].st = "absent"
    BY <1>1 DEF Alone, Creating
  <2>4. Secret(Saved[1]) = Endpoint => Secret(Saved[1])' = Endpoint
    <3>1. Secret(Saved[1]) = Endpoint => Owner(Saved[1]) # term[t].file
      BY <2>3, NothingThere, SavedKeys, NoneApart
    <3> QED BY <1>2, <3>1, SavedKeys, OwnersAreFiles DEF Secret
  <2> QED BY <1>1, <1>2, <2>1, <2>2, <2>4
          DEF OneWriter, Alone, Creating, Removing, Based, Minting, TokenSaved
<1>3. CASE Error(t)
  BY <1>1, <1>3, ErrorDoes, AloneIdle DEF Ready
<1> QED BY <1>2, <1>3, SopsCreateDisk

LEMMA WriteCreatedAlone ==
    ASSUME OneWriter, Ready, DiskOK, Alone, NEW t \in Writers, WriteCreated(t)
    PROVE  Alone'
<1>1. /\ t \in Terms /\ term[t].file \in Files /\ term[t].key \in Keys
      /\ term[t].pc = "write" /\ UNCHANGED token
  BY TermsApart DEF WriteCreated, Ready, Jobs, Job, KeyNamed, OneKey
<1>2. /\ SavedOne(t)
      /\ store'[term[t].file].val = [NoDoc.val EXCEPT ![term[t].key] = term[t].v]
      /\ \A f \in Files \ {term[t].file} : store'[f] = store[f]
  BY WriteCreatedDisk
<1>3. store'[term[t].file].val[term[t].key] = term[t].v
  BY <1>1, <1>2, NoDocFiled
<1>4. store[term[t].file].st = "empty"
  BY <1>1 DEF Alone, Creating
<1>5. ASSUME term[t].cmd = "mint", term[t].key = Saved[2]
      PROVE  Secret(Saved[1])' = Secret(Saved[1])
  <2>1. Secret(Saved[1]) = Endpoint
    BY <1>5, SavedKeys DEF Alone, Minting
  <2>2. Owner(Saved[1]) # term[t].file
    BY <1>4, <2>1, NothingThere, SavedKeys, NoneApart
  <2> QED BY <1>2, <2>2, SavedKeys, OwnersAreFiles DEF Secret
<1> QED BY <1>1, <1>2, <1>3, <1>5, SavedAlone

LEMMA MintAlone ==
    ASSUME OneWriter, Ready, Alone, NEW t \in Writers, MintToken(t)
    PROVE  Alone'
<1>1. term[t].pc = "idle" /\ term[t].cmd # "mint"
  BY MintDoes DEF Ready, Alone, Minting
<1>2. CASE /\ out'[t] = "none"
           /\ term'[t].pc = "set" /\ term'[t].cmd = "mint" /\ term'[t].key = Saved[1]
           /\ term'[t].v = Endpoint /\ term'[t].file = Owner(Saved[1])
           /\ term'[t].buf.val[Saved[2]] = token'
  BY <1>2 DEF OneWriter, Alone, Creating, Removing, Based, Minting, TokenSaved
<1>3. CASE term'[t] = term[t] /\ out'[t] = "not minted"
  BY <1>1, <1>3, AloneFresh DEF MidChange
<1> QED BY <1>2, <1>3, MintDoes DEF Ready

(* The rest of the steps under way. *)
LEMMA MiddleAlone ==
    ASSUME OneWriter, Ready, DiskOK, Alone, NEW t \in Writers, Middle(t)
    PROVE  Alone'
<1>1. /\ t \in Terms /\ t \notin Readers /\ term[t].file \in Files /\ Jobs
      /\ UNCHANGED token
  BY TermsApart, MiddleJobs DEF Ready, Jobs, Job
<1>2. term[t].pc \notin {"set", "create", "write"} => term[t].cmd # "mint"
  BY DEF Alone, Minting
<1>3. ASSUME Error(t)
      PROVE  Alone'
  BY <1>1, <1>3, ErrorDoes, AloneIdle
<1>4. ASSUME NEW o \in {"none", "ready"}, End(t, o)
      PROVE  Alone'
  <2>1. o \in Outs /\ o # "minted"
    BY DEF Outs
  <2> QED BY <1>1, <1>4, <2>1, EndDoes, AloneIdle
<1>5. ASSUME NEW pc \in Pcs, term[t].pc \notin {"idle", "set", "create", "write"},
             pc \in OneKey => term[t].pc \in OneKey, pc # "idle", Goto(t, pc), UNCHANGED out
      PROVE  /\ term'[t].pc = pc /\ term'[t].key = term[t].key /\ term'[t].file = term[t].file
             /\ term'[t].base = term[t].base /\ term'[t].cmd # "mint" /\ out'[t] = "none"
             /\ pc \notin MidChange => Alone'
  <2>1. /\ Jobs' /\ term'[t].pc = pc /\ term'[t].key = term[t].key
        /\ term'[t].file = term[t].file
        /\ term'[t].base = term[t].base /\ term'[t].cmd = term[t].cmd
    BY <1>1, <1>5, GotoDoes
  <2>2. out'[t] = "none"
    BY <1>5, <2>1, NothingSaid
  <2> QED BY <1>2, <1>5, <2>1, <2>2, AloneFresh
<1>6. CASE Lookup(t)
  <2>1. CASE Goto(t, "set") /\ UNCHANGED out
    BY <1>5, <1>6, <2>1 DEF Lookup, OneKey, Pcs, MidChange
  <2> QED BY <1>3, <1>6, <2>1 DEF Lookup
<1>7. CASE SopsSet(t) \/ SopsCreate(t) \/ WriteCreated(t)
  BY <1>7, SopsSetAlone, SopsCreateAlone, WriteCreatedAlone
<1>8. CASE RmRead(t)
  <2>1. CASE /\ Goto(t, "rmenc") /\ UNCHANGED out
             /\ tmp'[t].val = [store[term[t].file].val EXCEPT ![term[t].key] = None]
    <3>1. term[t].pc = "rm" /\ UNCHANGED store
      BY <1>8 DEF RmRead
    <3>2. /\ term'[t].pc = "rmenc" /\ term'[t].key = term[t].key /\ term'[t].file = term[t].file
          /\ term'[t].cmd # "mint" /\ out'[t] = "none"
      BY <1>5, <2>1, <3>1 DEF OneKey, Pcs
    <3> QED BY <2>1, <3>1, <3>2
            DEF OneWriter, Alone, Creating, Removing, Based, Minting, TokenSaved
  <2> QED BY <1>3, <1>8, <2>1, RmReadDisk
<1>9. CASE Encrypt(t, "rmenc", "rmmove")
  <2>1. CASE Goto(t, "rmmove") /\ UNCHANGED out /\ tmp'[t].val = tmp[t].val
    <3>1. term[t].pc = "rmenc" /\ UNCHANGED store
      BY <1>9 DEF Encrypt
    <3>2. /\ term'[t].pc = "rmmove" /\ term'[t].key = term[t].key /\ term'[t].file = term[t].file
          /\ term'[t].cmd # "mint" /\ out'[t] = "none"
      BY <1>5, <2>1, <3>1 DEF OneKey, Pcs
    <3>3. tmp[t].val = [store[term[t].file].val EXCEPT ![term[t].key] = None]
      BY <3>1 DEF Alone, Removing
    <3> QED BY <2>1, <3>1, <3>2, <3>3
            DEF OneWriter, Alone, Creating, Removing, Based, Minting, TokenSaved
  <2> QED BY <1>3, <1>9, <2>1, EncryptDisk
<1>10. CASE RmMove(t)
  BY <1>4, <1>10 DEF RmMove
<1>11. CASE Confirm(t)
  <2>1. CASE Goto(t, "enc") /\ UNCHANGED out
    <3>1. term[t].pc = "confirm" /\ UNCHANGED store
      BY <1>11 DEF Confirm
    <3>2. /\ term'[t].pc = "enc" /\ term'[t].file = term[t].file /\ term'[t].base = term[t].base
          /\ term'[t].cmd # "mint" /\ out'[t] = "none"
      BY <1>5, <2>1, <3>1 DEF OneKey, Pcs
    <3> QED BY <2>1, <3>1, <3>2
            DEF OneWriter, Alone, Creating, Removing, Based, Minting, TokenSaved
  <2> QED BY <1>3, <1>11, <2>1, ConfirmDisk
<1>12. CASE Encrypt(t, "enc", "move")
  <2>1. CASE Goto(t, "move") /\ UNCHANGED out
    <3>1. term[t].pc = "enc" /\ UNCHANGED store
      BY <1>12 DEF Encrypt
    <3>2. /\ term'[t].pc = "move" /\ term'[t].file = term[t].file /\ term'[t].base = term[t].base
          /\ term'[t].cmd # "mint" /\ out'[t] = "none"
      BY <1>5, <2>1, <3>1 DEF OneKey, Pcs
    <3> QED BY <2>1, <3>1, <3>2
            DEF OneWriter, Alone, Creating, Removing, Based, Minting, TokenSaved
  <2> QED BY <1>3, <1>12, <2>1, EncryptDisk
<1>13. CASE Replace(t)
  BY <1>5, <1>13 DEF Replace, OneKey, Pcs, MidChange
<1>14. CASE Unlink(t)
  BY <1>4, <1>14 DEF Unlink
<1>15. CASE SopsSave(t)
  BY <1>3, <1>4, <1>15, SopsSaveDisk
<1>16. CASE InitEncrypt(t)
  BY <1>3, <1>4, <1>16, InitEncryptDisk
<1> QED BY <1>6, <1>7, <1>8, <1>9, <1>10, <1>11, <1>12, <1>13, <1>14, <1>15, <1>16 DEF Middle

(* A terminal that reads leaves the others alone. *)
LEMMA ReaderDoes ==
    ASSUME Ready, Documents, NEW t \in Readers, Read(t)
    PROVE  /\ Jobs' /\ UNCHANGED <<Disk, token>>
           /\ \A u \in Terms \ {t} : term'[u] = term[u] /\ out'[u] = out[u]
  BY BeginExportDoes, ExportDoes DEF Read

LEMMA InitAlone == Init => Alone
<1> SUFFICES ASSUME Init PROVE Alone
  OBVIOUS
<1>1. \A t \in Writers : term[t] = Idle /\ out[t] = "none"
  BY TermsApart DEF Init
<1>2. Idle.pc = "idle" /\ Idle.cmd = "none"
  BY DEF Idle
<1> QED BY <1>1, <1>2 DEF Alone, Creating, Removing, Based, Minting, TokenSaved

LEMMA NextAlone ==
    ASSUME OneWriter, IInv, Alone, [Next]_vars
    PROVE  Alone'
<1>1. Ready /\ DiskOK /\ Documents /\ Ready'
  BY InvariantIs, DocumentsFrom, NextJobs
<1>2. ASSUME NEW t \in Writers, Write(t)
      PROVE  Alone'
  <2>1. term[t].pc \notin {"set", "create", "write"} => term[t].cmd # "mint"
    BY DEF Alone, Minting
  <2>2. CASE BeginWrite(t)
    BY <1>1, <2>2, BeginWriteDoes, AloneFresh DEF MidChange
  <2>3. CASE BeginEdit(t)
    BY <1>1, <2>3, BeginEditDoes, AloneFresh DEF MidChange
  <2>4. CASE BeginInit(t)
    <3>1. CASE UNCHANGED term
      BY <1>1, <2>1, <2>4, <3>1, BeginInitDoes, AloneFresh DEF MidChange
    <3>2. CASE /\ term'[t].pc = "stub" /\ term'[t].cmd = "init"
               /\ store' = [store EXCEPT ![Main] = [NoDoc EXCEPT !.st = "empty"]]
      <4>1. store'[Main].st = "empty"
        BY <1>1, <3>2, EmptyFiled, StoreAssumption DEF DiskOK, StoreOK
      <4> QED BY <1>1, <2>4, <3>2, <4>1, BeginInitDoes
              DEF OneWriter, Alone, Creating, Removing, Based, Minting, TokenSaved
    <3> QED BY <1>1, <2>4, <3>1, <3>2, BeginInitDoes
  <2>5. CASE MintToken(t)
    BY <1>1, <2>5, MintAlone
  <2>6. CASE Decrypt(t)
    <3>1. term[t].pc = "decrypt" /\ UNCHANGED store
      BY <2>6 DEF Decrypt
    <3>2. CASE term'[t] = Idle /\ out'[t] # "minted"
      BY <3>2, AloneIdle
    <3>3. CASE /\ term'[t].pc = "confirm" /\ term'[t].cmd = term[t].cmd
               /\ term'[t].file = term[t].file
               /\ term'[t].base = store[term[t].file].val
      <4>1. out'[t] = "none"
        BY <1>1, <3>3, NothingSaid DEF Ready
      <4> QED BY <2>1, <3>1, <3>3, <4>1
              DEF OneWriter, Alone, Creating, Removing, Based, Minting, TokenSaved
    <3> QED BY <1>1, <2>6, <3>2, <3>3, DecryptDoes
  <2>7. CASE SopsOpen(t)
    <3>1. term[t].pc = "open" /\ UNCHANGED store
      BY <2>7 DEF SopsOpen, Disk
    <3>2. CASE term'[t] = Idle /\ out'[t] # "minted"
      BY <3>2, AloneIdle
    <3>3. CASE /\ term'[t].pc = "editor" /\ term'[t].cmd = term[t].cmd
               /\ term'[t].file = term[t].file
               /\ term'[t].base = store[term[t].file].val
      <4>1. out'[t] = "none"
        BY <1>1, <3>3, NothingSaid DEF Ready
      <4> QED BY <2>1, <3>1, <3>3, <4>1
              DEF OneWriter, Alone, Creating, Removing, Based, Minting, TokenSaved
    <3> QED BY <1>1, <2>7, <3>2, <3>3, SopsOpenDoes
  <2>8. CASE Middle(t)
    BY <1>1, <2>8, MiddleAlone
  <2> QED BY <1>2, <2>2, <2>3, <2>4, <2>5, <2>6, <2>7, <2>8, WriteCases
<1>3. ASSUME NEW t \in Readers, Read(t)
      PROVE  Alone'
  <2>1. /\ UNCHANGED <<store, tmp, token>>
        /\ \A u \in Writers : term'[u] = term[u] /\ out'[u] = out[u]
    BY <1>1, <1>3, ReaderDoes, TermsApart DEF Disk
  <2> QED BY <2>1, AloneFrame
<1>4. ASSUME NEW t \in Terms, Kill(t)
      PROVE  Alone'
  <2>1. /\ UNCHANGED <<store, token, out>> /\ tmp' = [tmp EXCEPT ![t] = NoDoc]
        /\ term[t].pc # "idle" /\ term'[t] = Idle
        /\ \A u \in Terms \ {t} : term'[u] = term[u] /\ tmp'[u] = tmp[u]
    BY <1>1, <1>4, KillDoes DEF DiskOK, TmpOK
  <2>2. CASE t \in Writers
    <3>1. out'[t] # "minted"
      BY <1>1, <1>4, <2>1 DEF Ready, Jobs, Running
    <3> QED BY <2>1, <2>2, <3>1, AloneIdle
  <2>3. CASE t \notin Writers
    <3>1. \A u \in Writers : term'[u] = term[u] /\ out'[u] = out[u] /\ tmp'[u] = tmp[u]
      BY <2>1, <2>3, TermsApart
    <3> QED BY <2>1, <3>1, AloneFrame
  <2> QED BY <2>2, <2>3
<1>5. CASE Ide
  BY <1>5, AloneFrame DEF Ide
<1>6. CASE UNCHANGED vars
  BY <1>6, AloneFrame DEF vars
<1> QED BY <1>2, <1>3, <1>4, <1>5, <1>6 DEF Next, Terms

(* With one terminal that writes, issue-tf-token says that it succeeded only *)
(* when what terranix reads is the token that the node accepts and the node's *)
(* address, where both routers name one file for them.                       *)
THEOREM TokenIsGood ==
    ASSUME OneWriter
    PROVE  Spec => []TokenWorks
<1>1. Init => IInv /\ Alone
  BY InitIInv, InitAlone
<1>2. IInv /\ Alone /\ [Next]_vars => IInv' /\ Alone'
  BY NextIInv, NextAlone
<1>3. IInv /\ Alone => TokenWorks
  BY SavedKeys DEF Alone, TokenSaved, TokenWorks, TofuHasToken, RoutersAgree, Secret, TfSecret
<1> QED BY <1>1, <1>2, <1>3, PTL DEF Spec

-----------------------------------------------------------------------------
(* What readers see changes by whole commands. *)

(* What a command asks for, given the plaintext file and its temporary one. *)
Wants(c, inPlain, inTmp) ==
    CASE c.pc \in {"set", "create", "write"} -> [k \in {c.key} \cap {j \in Keys : Owner(j) = c.file} |-> c.v]
      [] c.pc \in {"rmenc", "rmmove"} -> [k \in {c.key} \cap {j \in Keys : Owner(j) = c.file} |-> None]
      [] c.pc = "confirm" -> Asks(c.file, inPlain, c.base)
      [] c.pc \in {"enc", "move"} -> Asks(c.file, inTmp, c.base)
      [] c.pc = "editor" -> Asks(c.file, c.buf.val, c.base)
      [] OTHER -> [k \in {} |-> None]

OnKey(x, f, v) == [k \in {x} \cap {j \in Keys : Owner(j) = f} |-> v]
Nothing == [k \in {} |-> None]

Asking == {"set", "create", "write", "rmenc", "rmmove", "confirm", "enc", "move", "editor"}

LEMMA WantIs ==
    /\ want = [t \in Terms |-> Wants(term[t], plain.val, tmp[t].val)]
    /\ want' = [t \in Terms |-> Wants(term'[t], plain'.val, tmp'[t].val)]
  BY DEF want, Wants

LEMMA WantsCases ==
    ASSUME NEW c, NEW p, NEW d
    PROVE  /\ c.pc \in {"set", "create", "write"} => Wants(c, p, d) = OnKey(c.key, c.file, c.v)
           /\ c.pc \in {"rmenc", "rmmove"} => Wants(c, p, d) = OnKey(c.key, c.file, None)
           /\ c.pc = "confirm" => Wants(c, p, d) = Asks(c.file, p, c.base)
           /\ c.pc \in {"enc", "move"} => Wants(c, p, d) = Asks(c.file, d, c.base)
           /\ c.pc = "editor" => Wants(c, p, d) = Asks(c.file, c.buf.val, c.base)
           /\ c.pc \notin Asking => Wants(c, p, d) = Nothing
  BY DEF Wants, Asking, OnKey, Nothing

(* A map of some keys to values, or to none, is a change. *)
LEMMA ChangeIs ==
    ASSUME NEW S \in SUBSET Keys, NEW g \in [S -> Values \union {None}]
    PROVE  g \in Promise!Changes
  BY DEF Promise!Changes

LEMMA AsksChange ==
    ASSUME NEW f, NEW new \in [Keys -> Values \union {None}], NEW base
    PROVE  Asks(f, new, base) \in Promise!Changes
<1> DEFINE S == {j \in Keys : Owner(j) = f /\ new[j] # base[j]}
           g == [k \in S |-> new[k]]
<1>1. S \in SUBSET Keys /\ g \in [S -> Values \union {None}]
  OBVIOUS
<1>2. Asks(f, new, base) = g
  BY DEF Asks
<1> HIDE DEF S, g
<1> QED BY <1>1, <1>2, ChangeIs

LEMMA OnKeyChange ==
    ASSUME NEW x, NEW f, NEW v \in Values \union {None}
    PROVE  OnKey(x, f, v) \in Promise!Changes
<1> DEFINE S == {x} \cap {j \in Keys : Owner(j) = f}
           g == [k \in S |-> v]
<1>1. S \in SUBSET Keys /\ g \in [S -> Values \union {None}]
  OBVIOUS
<1>2. OnKey(x, f, v) = g
  BY DEF OnKey
<1> HIDE DEF S, g
<1> QED BY <1>1, <1>2, ChangeIs

LEMMA NoChange == Nothing \in Promise!Changes
<1> DEFINE S == {}
           g == [k \in S |-> None]
<1>1. S \in SUBSET Keys /\ g \in [S -> Values \union {None}]
  OBVIOUS
<1>2. Nothing = g
  BY DEF Nothing
<1> HIDE DEF S, g
<1> QED BY <1>1, <1>2, ChangeIs

LEMMA WantsChange ==
    ASSUME NEW c \in Job, NEW p \in [Keys -> Values \union {None}],
           NEW d \in [Keys -> Values \union {None}]
    PROVE  Wants(c, p, d) \in Promise!Changes
<1>0. /\ c.v \in Values \union {None} /\ None \in Values \union {None}
      /\ c.buf.val \in [Keys -> Values \union {None}]
  BY DEF Job, Doc
<1>1. CASE c.pc \in {"set", "create", "write"}
  BY <1>0, <1>1, WantsCases, OnKeyChange
<1>2. CASE c.pc \in {"rmenc", "rmmove"}
  BY <1>0, <1>2, WantsCases, OnKeyChange
<1>3. CASE c.pc \in {"confirm", "enc", "move", "editor"}
  BY <1>0, <1>3, WantsCases, AsksChange
<1>4. CASE c.pc \notin Asking
  BY <1>4, WantsCases, NoChange
<1> QED BY <1>1, <1>2, <1>3, <1>4 DEF Asking

(* Every terminal asks for a change, those that read for none. *)
LEMMA WantTyped == IInv => want \in [Terms -> Promise!Changes]
<1> SUFFICES ASSUME IInv PROVE want \in [Terms -> Promise!Changes]
  OBVIOUS
<1>1. ASSUME NEW t \in Terms
      PROVE  Wants(term[t], plain.val, tmp[t].val) \in Promise!Changes
  <2>1. /\ term[t] \in Job /\ plain.val \in [Keys -> Values \union {None}]
        /\ tmp[t].val \in [Keys -> Values \union {None}]
    BY DEF IInv, TypeOK, Doc
  <2> QED BY <2>1, WantsChange
<1> QED BY <1>1, WantIs

LEMMA WantTypedNext == IInv' => want' \in [Terms -> Promise!Changes]
<1> SUFFICES ASSUME IInv' PROVE want' \in [Terms -> Promise!Changes]
  OBVIOUS
<1>1. ASSUME NEW t \in Terms
      PROVE  Wants(term'[t], plain'.val, tmp'[t].val) \in Promise!Changes
  <2>1. /\ term'[t] \in Job /\ plain'.val \in [Keys -> Values \union {None}]
        /\ tmp'[t].val \in [Keys -> Values \union {None}]
    BY DEF IInv, TypeOK, Doc
  <2> QED BY <2>1, WantsChange
<1> QED BY <1>1, WantIs

LEMMA ReadersWantNothing ==
    ASSUME IInv, IInv', NEW t \in Readers
    PROVE  want'[t] = want[t]
<1>1. t \in Terms /\ term[t].pc \notin Asking /\ term'[t].pc \notin Asking
  BY DEF Terms, IInv, ReadersRead, Asking
<1> QED BY <1>1, WantIs, WantsCases

(* What the promise calls a step. *)
LEMMA SecretsTyped == IInv => [k \in Keys |-> Secret(k)] \in [Keys -> Values \union {None}]
  BY OwnersAreFiles DEF IInv, TypeOK, Doc, Secret

LEMMA Asked ==
    ASSUME IInv, IInv', NEW t \in Terms,
           \A u \in Terms \ {t} : want'[u] = want[u],
           \A k \in Keys : Secret(k)' = Secret(k)
    PROVE  Promise!Next
<1>1. Promise!Ask(t)
  BY WantTypedNext DEF Promise!Ask
<1> QED BY <1>1 DEF Promise!Next

LEMMA Committed ==
    ASSUME IInv, IInv', NEW t \in Terms,
           \A u \in Terms \ {t} : want'[u] = want[u],
           \A k \in Keys : Secret(k)' = IF k \in DOMAIN want[t] THEN want[t][k] ELSE Secret(k)
    PROVE  Promise!Next
<1>1. Promise!Commit(t)
  BY WantTypedNext DEF Promise!Commit
<1> QED BY <1>1 DEF Promise!Next

(* A file is replaced: that is what readers see of the keys it owns. *)
LEMMA PutSecret ==
    ASSUME NEW f, \A g \in Files \ {f} : store'[g] = store[g]
    PROVE  \A k \in Keys : Secret(k)' = IF Owner(k) = f THEN store'[f].val[k] ELSE Secret(k)
  BY OwnersAreFiles DEF Secret

LEMMA InitPromise == Init => Promise!Init
<1> SUFFICES ASSUME Init PROVE Promise!Init
  OBVIOUS
<1>1. [k \in Keys |-> Secret(k)] \in [Keys -> Values \union {None}]
  BY InitIInv, SecretsTyped
<1>2. Idle.pc \notin Asking /\ \A t \in Terms : term[t] = Idle
  BY DEF Init, Idle, Asking
<1>3. want = [t \in Terms |-> Nothing]
  <2>1. \A t \in Terms : Wants(term[t], plain.val, tmp[t].val) = Nothing
    BY <1>2, WantsCases
  <2> QED BY <2>1, WantIs
<1> QED BY <1>1, <1>3 DEF Promise!Init, Nothing

(* A terminal that writes: it replaces nothing, or what it asked to replace. *)
LEMMA WriterKeeps ==
    ASSUME OneWriter, IInv, IInv', NEW t \in Writers,
           \A k \in Keys : Secret(k)' = Secret(k)
    PROVE  Promise!Next
<1>1. \A u \in Terms \ {t} : want'[u] = want[u]
  BY ReadersWantNothing DEF OneWriter, Terms
<1> QED BY <1>1, TermsApart, Asked

LEMMA WriterCommits ==
    ASSUME OneWriter, IInv, IInv', NEW t \in Writers,
           \A k \in Keys : Secret(k)' = IF k \in DOMAIN want[t] THEN want[t][k] ELSE Secret(k)
    PROVE  Promise!Next
<1>1. \A u \in Terms \ {t} : want'[u] = want[u]
  BY ReadersWantNothing DEF OneWriter, Terms
<1> QED BY <1>1, TermsApart, Committed

(* The same for the one key of add, replace or rm, *)
LEMMA OneKeyCommits ==
    ASSUME OneWriter, IInv, IInv', NEW t \in Writers, NEW v,
           want[t] = OnKey(term[t].key, term[t].file, v),
           store'[term[t].file].val = [store[term[t].file].val EXCEPT ![term[t].key] = v],
           \A g \in Files \ {term[t].file} : store'[g] = store[g]
    PROVE  Promise!Next
<1> DEFINE f == term[t].file
           x == term[t].key
<1>1. \A k \in Keys : Secret(k)' = IF Owner(k) = f THEN store'[f].val[k] ELSE Secret(k)
  BY PutSecret
<1>2. f \in Files /\ store[f].val \in [Keys -> Values \union {None}]
  BY TermsApart DEF IInv, TypeOK, Job, Doc
<1>3. /\ DOMAIN want[t] = {x} \cap {j \in Keys : Owner(j) = f}
      /\ \A k \in DOMAIN want[t] : want[t][k] = v
  BY DEF OnKey
<1>4. ASSUME NEW k \in Keys
      PROVE  Secret(k)' = IF k \in DOMAIN want[t] THEN want[t][k] ELSE Secret(k)
  <2>1. CASE Owner(k) = f
    <3>1. Secret(k) = store[f].val[k]
      BY <2>1 DEF Secret
    <3>2. store'[f].val[k] = IF k = x THEN v ELSE store[f].val[k]
      BY <1>2
    <3> HIDE DEF f, x
    <3> QED BY <1>1, <1>3, <2>1, <3>1, <3>2
  <2>2. CASE Owner(k) # f
    <3> HIDE DEF f, x
    <3> QED BY <1>1, <1>3, <2>2
  <2> QED BY <2>1, <2>2
<1> QED BY <1>4, WriterCommits

(* and for all that an edit changed. *)
LEMMA EditCommits ==
    ASSUME OneWriter, IInv, IInv', NEW t \in Writers, NEW new,
           want[t] = Asks(term[t].file, new, store[term[t].file].val),
           store'[term[t].file].val = new,
           \A g \in Files \ {term[t].file} : store'[g] = store[g]
    PROVE  Promise!Next
<1> DEFINE f == term[t].file
           base == store[f].val
<1>1. \A k \in Keys : Secret(k)' = IF Owner(k) = f THEN new[k] ELSE Secret(k)
  BY PutSecret
<1>2. /\ DOMAIN want[t] = {j \in Keys : Owner(j) = f /\ new[j] # base[j]}
      /\ \A k \in DOMAIN want[t] : want[t][k] = new[k]
  BY DEF Asks
<1>3. \A k \in Keys : Owner(k) = f => Secret(k) = base[k]
  BY DEF Secret
<1> HIDE DEF f, base
<1>4. \A k \in Keys : Secret(k)' = IF k \in DOMAIN want[t] THEN want[t][k] ELSE Secret(k)
  BY <1>1, <1>2, <1>3
<1> QED BY <1>4, WriterCommits

(* A file that holds nothing is replaced by one that holds nothing. *)
LEMMA NothingReplaced ==
    ASSUME DiskOK, NEW f \in Files, store[f].st \in {"absent", "empty"},
           store'[f].val = NoDoc.val, \A g \in Files \ {f} : store'[g] = store[g]
    PROVE  \A k \in Keys : Secret(k)' = Secret(k)
<1>1. \A k \in Keys : store[f].val[k] = None
  BY DEF DiskOK, StoreOK, Filed, Held
<1>2. \A k \in Keys : store'[f].val[k] = None
  BY NoDocFiled
<1>3. \A k \in Keys : Secret(k)' = IF Owner(k) = f THEN store'[f].val[k] ELSE Secret(k)
  BY PutSecret
<1> QED BY <1>1, <1>2, <1>3 DEF Secret

LEMMA MiddlePromise ==
    ASSUME OneWriter, IInv, IInv', Alone, NEW t \in Writers, Middle(t)
    PROVE  Promise!Next
<1>1. /\ Ready /\ DiskOK /\ t \in Terms /\ term[t].file \in Files /\ term[t] \in Job
      /\ want[t] = Wants(term[t], plain.val, tmp[t].val)
  BY TermsApart, InvariantIs, WantIs DEF Ready, Jobs, Job
<1>2. ASSUME UNCHANGED store
      PROVE  Promise!Next
  BY <1>2, WriterKeeps DEF Secret
<1>3. CASE \/ Lookup(t) \/ RmRead(t) \/ Encrypt(t, "rmenc", "rmmove")
           \/ Confirm(t) \/ Encrypt(t, "enc", "move") \/ Unlink(t)
  BY <1>2, <1>3 DEF Lookup, RmRead, Encrypt, Confirm, Unlink, Disk
<1>4. CASE SopsSet(t)
  <2>1. want[t] = OnKey(term[t].key, term[t].file, term[t].v)
    BY <1>1, <1>4, WantsCases DEF SopsSet
  <2> QED BY <1>1, <1>2, <1>4, <2>1, SopsSetDisk, OneKeyCommits
<1>5. CASE SopsCreate(t)
  <2>1. store[term[t].file].st = "absent"
    BY <1>5 DEF SopsCreate, Alone, Creating
  <2> QED BY <1>1, <1>2, <1>5, <2>1, SopsCreateDisk, NothingReplaced, WriterKeeps
<1>6. CASE WriteCreated(t)
  <2>1. term[t].pc = "write" /\ store[term[t].file].st = "empty"
    BY <1>6 DEF WriteCreated, Alone, Creating
  <2>2. want[t] = OnKey(term[t].key, term[t].file, term[t].v)
    BY <1>1, <2>1, WantsCases
  <2>3. store[term[t].file].val = NoDoc.val
    <3>1. /\ store[term[t].file].val \in [Keys -> Values \union {None}]
          /\ \A k \in Keys : store[term[t].file].val[k] = None
      BY <1>1, <2>1 DEF DiskOK, StoreOK, Filed, Held, Doc
    <3> QED BY <3>1, NoDocFiled
  <2> QED BY <1>1, <1>6, <2>2, <2>3, WriteCreatedDisk, OneKeyCommits
<1>7. CASE RmMove(t)
  <2>1. term[t].pc = "rmmove"
    BY <1>7 DEF RmMove
  <2>2. want[t] = OnKey(term[t].key, term[t].file, None)
    BY <1>1, <2>1, WantsCases
  <2>3. tmp[t].val = [store[term[t].file].val EXCEPT ![term[t].key] = None]
    BY <2>1 DEF Alone, Removing
  <2>4. /\ store'[term[t].file] = tmp[t]
        /\ \A f \in Files \ {term[t].file} : store'[f] = store[f]
    BY <1>1, <1>7, InPlaceDisk DEF RmMove
  <2> QED BY <2>2, <2>3, <2>4, OneKeyCommits
<1>8. CASE Replace(t)
  <2>1. term[t].pc = "move"
    BY <1>8 DEF Replace
  <2>2. want[t] = Asks(term[t].file, tmp[t].val, store[term[t].file].val)
    BY <1>1, <2>1, WantsCases DEF Alone, Based
  <2>3. /\ store'[term[t].file] = tmp[t]
        /\ \A f \in Files \ {term[t].file} : store'[f] = store[f]
    BY <1>1, <1>8, InPlaceDisk DEF Replace
  <2> QED BY <2>2, <2>3, EditCommits
<1>9. CASE SopsSave(t)
  <2>1. term[t].pc = "editor"
    BY <1>9 DEF SopsSave
  <2>2. want[t] = Asks(term[t].file, term[t].buf.val, store[term[t].file].val)
    BY <1>1, <2>1, WantsCases DEF Alone, Based
  <2> QED BY <1>1, <1>2, <1>9, <2>2, SopsSaveDisk, EditCommits
<1>10. CASE InitEncrypt(t)
  <2>1. store[Main].st = "empty" /\ Main \in Files
    BY <1>10, StoreAssumption DEF InitEncrypt, Alone, Creating
  <2> QED BY <1>1, <1>2, <1>10, <2>1, InitEncryptDisk, NothingReplaced, WriterKeeps
<1> QED BY <1>3, <1>4, <1>5, <1>6, <1>7, <1>8, <1>9, <1>10 DEF Middle

LEMMA NextPromise ==
    ASSUME OneWriter, IInv, IInv', Alone, [Next]_vars
    PROVE  [Promise!Next]_<<[k \in Keys |-> Secret(k)], want>>
<1>1. Ready /\ DiskOK /\ Documents
  BY InvariantIs, DocumentsFrom
<1>2. ASSUME NEW t \in Writers, Write(t)
      PROVE  Promise!Next
  <2>1. ASSUME UNCHANGED store
        PROVE  Promise!Next
    BY <2>1, WriterKeeps DEF Secret
  <2>2. CASE \/ BeginWrite(t) \/ BeginEdit(t) \/ MintToken(t) \/ Decrypt(t) \/ SopsOpen(t)
    BY <2>1, <2>2 DEF BeginWrite, BeginEdit, MintToken, Decrypt, SopsOpen, Disk
  <2>3. CASE BeginInit(t)
    <3>1. CASE /\ store[Main].st = "absent"
               /\ store' = [store EXCEPT ![Main] = [NoDoc EXCEPT !.st = "empty"]]
      <4>1. /\ Main \in Files /\ store'[Main].val = NoDoc.val
            /\ \A g \in Files \ {Main} : store'[g] = store[g]
        BY <1>1, <3>1, EmptyFiled, StoreAssumption DEF DiskOK, StoreOK
      <4> QED BY <1>1, <3>1, <4>1, NothingReplaced, WriterKeeps
    <3> QED BY <1>1, <2>1, <2>3, <3>1, BeginInitDoes
  <2>4. CASE Middle(t)
    BY <2>4, MiddlePromise
  <2> QED BY <1>2, <2>2, <2>3, <2>4, WriteCases
<1>3. ASSUME NEW t \in Readers, Read(t) \/ Kill(t)
      PROVE  Promise!Next
  <2>1. /\ UNCHANGED <<store, plain>> /\ t \in Terms
        /\ \A u \in Terms \ {t} : term'[u] = term[u] /\ tmp'[u] = tmp[u]
    <3>1. CASE Read(t)
      BY <1>1, <1>3, <3>1, ReaderDoes DEF Disk, Terms
    <3>2. CASE Kill(t)
      BY <1>1, <1>3, <3>2, KillDoes DEF DiskOK, TmpOK, Terms
    <3> QED BY <1>3, <3>1, <3>2
  <2>2. \A u \in Terms \ {t} : want'[u] = want[u]
    BY <2>1, WantIs
  <2>3. \A k \in Keys : Secret(k)' = Secret(k)
    BY <2>1 DEF Secret
  <2> QED BY <2>1, <2>2, <2>3, Asked
<1>4. ASSUME NEW t \in Writers, Kill(t)
      PROVE  Promise!Next
  BY <1>4, WriterKeeps DEF Kill, Secret
<1>5. CASE Ide
  <2>1. PICK t \in Writers : term[t].pc = "confirm"
    BY <1>5 DEF Ide
  <2> QED BY <1>5, WriterKeeps DEF Ide, Secret
<1>6. CASE UNCHANGED vars
  <2>1. [k \in Keys |-> Secret(k)]' = [k \in Keys |-> Secret(k)]
    BY <1>6 DEF vars, Secret
  <2>2. UNCHANGED want
    BY <1>6, WantIs DEF vars
  <2> QED BY <2>1, <2>2
<1> QED BY <1>2, <1>3, <1>4, <1>5, <1>6 DEF Next

(* With one terminal that writes, and whatever fails or is killed on the way,   *)
(* what readers see changes by whole commands only: every key that the operator *)
(* changed, and no other.                                                       *)
THEOREM WholeCommands ==
    ASSUME OneWriter
    PROVE  Spec => AllOrNothing
<1>1. Init => Promise!Init /\ IInv /\ Alone
  BY InitPromise, InitIInv, InitAlone
<1>2. IInv /\ Alone /\ [Next]_vars => IInv' /\ Alone'
  BY NextIInv, NextAlone
<1>3. IInv /\ IInv' /\ Alone /\ [Next]_vars => [Promise!Next]_<<[k \in Keys |-> Secret(k)], want>>
  BY NextPromise
<1> QED BY <1>1, <1>2, <1>3, PTL DEF Spec, AllOrNothing, Promise!Spec
=============================================================================
