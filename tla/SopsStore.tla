----------------------------- MODULE SopsStore -----------------------------
(***************************************************************************)
(* `fleet secrets` and `fleet pve cluster issue-tf-token`: the SOPS files, *)
(* the commands that change and read them, the one plaintext file that     *)
(* `edit --plaintext` shares between terminals, and the temporary files    *)
(* that hold decrypted text on their way to being encrypted.               *)
(*                                                                         *)
(* A command can be killed between any two steps.  sops can refuse.  The   *)
(* recipients a file is encrypted to are not modelled.                     *)
(***************************************************************************)
EXTENDS Naturals, Sequences, FiniteSets

CONSTANTS Writers, Readers,   \* terminals that change the store, that read it
          Keys, Trees, Files, Values, None,
          ValuesOf,           \* the values a key may be given
          TreeOf,             \* the tree every key is in
          Routes,             \* fleet.settings.sopsFiles: some trees to files
          Default,            \* sopsSecretsFile: the file of all other trees
          Main,               \* nix/secrets/secrets.yaml, whatever is set
          TfFile,             \* tfSopsFile: the file terranix reads
          Checked,            \* the files that lie in nix/secrets
          Saved,              \* what issue-tf-token saves: endpoint, then token
          Endpoint,           \* the address of the node it mints on
          MaxLitter,          \* bound: temporary files killed commands leave
          MaxJobs             \* bound: commands begun in a behaviour

Terms == Writers \union Readers

ASSUME StoreAssumption ==
    /\ Writers \cap Readers = {}
    /\ None \notin Values
    /\ ValuesOf \in [Keys -> SUBSET Values]
    /\ TreeOf \in [Keys -> Trees]
    /\ DOMAIN Routes \subseteq Trees
    /\ \A tree \in DOMAIN Routes : Routes[tree] \in Files
    /\ Default \in Files /\ Main \in Files /\ TfFile \in Files
    /\ Checked \subseteq Files
    /\ Saved \in Keys \X Keys /\ Saved[1] # Saved[2] /\ Endpoint \in ValuesOf[Saved[1]]
    /\ MaxLitter \in Nat /\ MaxJobs \in Nat

VARIABLES store,     \* the files named .yaml
          plain,     \* secrets.plaintext.yaml
          tmp,       \* per terminal: its temporary file
          litter,    \* what temporary files of killed commands give away
          token,     \* the secret of the API token the node accepts
          term,      \* per terminal: the command, where it is, what it holds
          out,       \* per terminal: how its last command ended, if it was
                     \* issue-tf-token or init
          jobs       \* commands begun

vars == <<store, plain, tmp, litter, token, term, out, jobs>>

(* Structure is in the clear even where values are encrypted; an empty file
   and an absent one hold neither. *)
Doc == [st : {"absent", "empty", "sops", "yaml", "bad"},
        val : [Keys -> Values \union {None}], trees : SUBSET Trees]
NoDoc == [st |-> "absent", val |-> [k \in Keys |-> None], trees |-> {}]

Held(d) == \E k \in Keys : d.val[k] # None
(* A temporary file lies beside the file it is to replace. *)
Remains(d, f) == [st |-> d.st, trees |-> d.trees, held |-> Held(d), seen |-> f \in Checked]

Commands == {"none", "add", "replace", "rm", "editp", "edit", "mint", "init", "export"}
Pcs == {"idle", "lookup", "set", "create", "write", "rm", "rmenc", "rmmove", "decrypt",
        "confirm", "enc", "move", "unlink", "open", "editor", "stub", "export"}
Idle == [pc |-> "idle", cmd |-> "none", key |-> None, v |-> None, file |-> Default,
         base |-> NoDoc.val, buf |-> NoDoc]
Outs == {"none", "minted", "not minted", "ready"}
Job == [pc : Pcs, cmd : Commands, key : Keys \union {None}, v : Values \union {None},
        file : Files, base : [Keys -> Values \union {None}], buf : Doc]

TypeOK ==
    /\ store \in [Files -> Doc] /\ plain \in Doc /\ tmp \in [Terms -> Doc]
    /\ \A d \in litter : d.st \in {"yaml", "bad", "sops"} /\ d.trees \subseteq Trees
                       /\ d.held \in BOOLEAN /\ d.seen \in BOOLEAN
    /\ token \in Values \union {None} /\ jobs \in 0 .. MaxJobs
    /\ term \in [Terms -> Job] /\ out \in [Terms -> Outs]
    \* a value lies in a tree its file has
    /\ \A d \in {store[f] : f \in Files} \union {tmp[t] : t \in Terms} \union {plain} :
        \A k \in Keys : d.val[k] # None => TreeOf[k] \in d.trees

(* The launcher's router; terranix has a setting of its own. *)
FileFor(tree) == IF tree \in DOMAIN Routes THEN Routes[tree] ELSE Default
Owner(k) == FileFor(TreeOf[k])
Secret(k) == store[Owner(k)].val[k]
TfSecret(k) == store[TfFile].val[k]

Readable(f) == store[f].st = "sops"
SetKeyNoTree(d, k, v) == [d EXCEPT !.st = IF @ = "absent" THEN "sops" ELSE @, !.val[k] = v]  \* mutant
SetKey(d, k, v) == [d EXCEPT !.st = IF @ = "absent" THEN "sops" ELSE @,
                             !.val[k] = v, !.trees = @ \union {TreeOf[k]}]
DelTree(d, k) ==                       \* mutant: deletes the mapping the key is in
    [d EXCEPT !.val = [j \in Keys |-> IF TreeOf[j] = TreeOf[k] THEN None ELSE @[j]]]
(* Removing a key leaves the mapping it was in, even when that is now empty. *)
DelKey(d, k) == [d EXCEPT !.val[k] = None]
(* By hand one removes an empty mapping too. *)
Trim(d) == [d EXCEPT !.trees = {TreeOf[k] : k \in {j \in Keys : d.val[j] # None}}]
ByHand(d) == (UNION {{SetKey(d, k, v) : v \in ValuesOf[k]} : k \in Keys})
               \union {Trim(DelKey(d, k)) : k \in {j \in Keys : d.val[j] # None}}

-----------------------------------------------------------------------------
(* Ends and beginnings. *)

Goto(t, pc) == term' = [term EXCEPT ![t].pc = pc]
End(t, o) == /\ term' = [term EXCEPT ![t] = Idle]
             /\ out' = [out EXCEPT ![t] = o]
Error(t) == End(t, IF term[t].cmd = "mint" THEN "not minted" ELSE "none")
NewJob(t) == term[t].pc = "idle" /\ jobs < MaxJobs /\ jobs' = jobs + 1
Begin(t, cmd, pc, k, v, f) ==
    /\ NewJob(t)
    /\ term' = [term EXCEPT ![t] = [Idle EXCEPT !.pc = pc, !.cmd = cmd, !.key = k, !.v = v, !.file = f]]
    /\ out' = [out EXCEPT ![t] = "none"]

Disk == <<store, plain, tmp, litter>>

(* A key goes to the file its tree is routed to, unless --file names one. *)
FileForKeyDefault(k, override) == IF override = None THEN Default ELSE override  \* mutant
FileForKey(k, override) == IF override = None THEN Owner(k) ELSE override

BeginWrite(t) ==
    /\ \E k \in Keys, o \in Files \union {None} : \E v \in ValuesOf[k] :
        \/ Begin(t, "add", "set", k, v, FileForKey(k, o))
        \/ Begin(t, "replace", "lookup", k, v, FileForKey(k, o))
        \/ Begin(t, "rm", "rm", k, None, FileForKey(k, o))
    /\ UNCHANGED <<Disk, token>>

(* edit opens the one fixed file, whatever the tree the operator is after. *)
BeginEdit(t) ==
    /\ \E o \in Files \union {None} : LET f == IF o = None THEN Main ELSE o IN
        \/ Begin(t, "editp", "decrypt", None, None, f)
        \/ Begin(t, "edit", "open", None, None, f)
    /\ UNCHANGED <<Disk, token>>

Kill(t) ==
    /\ term[t].pc # "idle"
    /\ litter' = litter \union {Remains(d, term[t].file) : d \in {tmp[t]} \ {NoDoc}}
    /\ Cardinality(litter') <= MaxLitter
    /\ tmp' = [tmp EXCEPT ![t] = NoDoc]
    /\ term' = [term EXCEPT ![t] = Idle]
    /\ UNCHANGED <<store, plain, token, out, jobs>>

-----------------------------------------------------------------------------
(* keys add and keys replace; issue-tf-token saves through keys add. *)

Lookup(t) ==
    /\ term[t].pc = "lookup"
    /\ IF Readable(term[t].file) /\ store[term[t].file].val[term[t].key] # None
         THEN Goto(t, "set") /\ UNCHANGED out
         ELSE Error(t)
    /\ UNCHANGED <<Disk, token, jobs>>

(* What follows a saved key: the token after the endpoint, or the end. *)
SavedOne(t) ==
    IF term[t].cmd = "mint" /\ term[t].key = Saved[1]
      THEN /\ term' = [term EXCEPT ![t].pc = "set", ![t].key = Saved[2],
                                   ![t].v = term[t].buf.val[Saved[2]], ![t].file = FileForKey(Saved[2], None)]
           /\ UNCHANGED out
      ELSE End(t, IF term[t].cmd = "mint" THEN "minted" ELSE "none")

(* sops --set edits a file in place; a file that is not there is created. *)
SopsSet(t) ==
    /\ term[t].pc = "set"
    /\ LET f == term[t].file IN
        \/ /\ store[f].st = "absent"
           /\ Goto(t, "create") /\ UNCHANGED <<store, out>>
        \/ /\ store[f].st # "absent" /\ Readable(f)
           /\ store' = [store EXCEPT ![f] = SetKey(@, term[t].key, term[t].v)]
           /\ SavedOne(t)
        \/ store[f].st # "absent" /\ Error(t) /\ UNCHANGED store
    /\ UNCHANGED <<plain, tmp, litter, token, jobs>>

(* The text is encrypted first; opening the file for writing empties it. *)
SopsCreate(t) ==
    /\ term[t].pc = "create"
    /\ \/ /\ store' = [store EXCEPT ![term[t].file] = [NoDoc EXCEPT !.st = "empty"]]
          /\ Goto(t, "write") /\ UNCHANGED out
       \/ Error(t) /\ UNCHANGED store
    /\ UNCHANGED <<plain, tmp, litter, token, jobs>>

WriteCreated(t) ==
    /\ term[t].pc = "write"
    /\ store' = [store EXCEPT ![term[t].file] = SetKey(NoDoc, term[t].key, term[t].v)]
    /\ SavedOne(t)
    /\ UNCHANGED <<plain, tmp, litter, token, jobs>>

(* One script on the node removes the token and makes another.  It may stop
   anywhere, or its answer be lost. *)
MintToken(t) ==
    /\ NewJob(t)
    /\ \/ \E v \in ValuesOf[Saved[2]] \ {token} :
            /\ token' = v
            /\ term' = [term EXCEPT ![t] = [Idle EXCEPT !.pc = "set", !.cmd = "mint", !.key = Saved[1],
                           !.v = Endpoint, !.file = FileForKey(Saved[1], None), !.buf = SetKey(NoDoc, Saved[2], v)]]
            /\ out' = [out EXCEPT ![t] = "none"]
       \/ /\ token' \in ValuesOf[Saved[2]] \union {None, token}
          /\ out' = [out EXCEPT ![t] = "not minted"]
          /\ UNCHANGED term
    /\ UNCHANGED Disk

-----------------------------------------------------------------------------
(* keys rm: decrypt, write what is left in the clear, encrypt, replace. *)

RmRead(t) ==
    /\ term[t].pc = "rm"
    /\ LET d == store[term[t].file] IN
        IF d.st = "sops" /\ d.val[term[t].key] # None
          THEN /\ tmp' = [tmp EXCEPT ![t] = [DelKey(d, term[t].key) EXCEPT !.st = "yaml"]]
               /\ Goto(t, "rmenc") /\ UNCHANGED out
          ELSE Error(t) /\ UNCHANGED tmp
    /\ UNCHANGED <<store, plain, litter, token, jobs>>

(* Shared with edit --plaintext: what fails removes its temporary file. *)
Encrypt(t, from, to) ==
    /\ term[t].pc = from
    /\ \/ /\ tmp[t].st = "yaml"
          /\ tmp' = [tmp EXCEPT ![t].st = "sops"]
          /\ Goto(t, to) /\ UNCHANGED out
       \/ tmp' = [tmp EXCEPT ![t] = NoDoc] /\ Error(t)
    /\ UNCHANGED <<store, plain, litter, token, jobs>>

RmMove(t) ==
    /\ term[t].pc = "rmmove"
    /\ store' = [store EXCEPT ![term[t].file] = tmp[t]]
    /\ tmp' = [tmp EXCEPT ![t] = NoDoc]
    /\ End(t, "none")
    /\ UNCHANGED <<plain, litter, token, jobs>>

-----------------------------------------------------------------------------
(* edit --plaintext: one plaintext file for every terminal and every --file. *)

Decrypt(t) ==
    /\ term[t].pc = "decrypt"
    /\ LET d == store[term[t].file] IN
        IF d.st = "sops"
          THEN /\ plain' = [d EXCEPT !.st = "yaml"]
               /\ term' = [term EXCEPT ![t].pc = "confirm", ![t].base = d.val] /\ UNCHANGED out
          ELSE Error(t) /\ UNCHANGED plain
    /\ UNCHANGED <<store, tmp, litter, token, jobs>>

(* The operator edits the file in an IDE, or spoils it.  What is typed while no
   command waits is lost: the next one decrypts over it. *)
Ide ==
    /\ plain.st = "yaml" /\ \E t \in Writers : term[t].pc = "confirm"
    /\ plain' \in ByHand(plain) \union {[plain EXCEPT !.st = "bad"]}
    /\ UNCHANGED <<store, tmp, litter, token, term, out, jobs>>

(* Told not to save, the command leaves the plaintext where it is. *)
Confirm(t) ==
    /\ term[t].pc = "confirm"
    /\ \/ /\ plain.st # "absent"
          /\ tmp' = [tmp EXCEPT ![t] = plain]
          /\ Goto(t, "enc") /\ UNCHANGED out
       \/ Error(t) /\ UNCHANGED tmp
    /\ UNCHANGED <<store, plain, litter, token, jobs>>

Replace(t) ==
    /\ term[t].pc = "move"
    /\ store' = [store EXCEPT ![term[t].file] = tmp[t]]
    /\ tmp' = [tmp EXCEPT ![t] = NoDoc]
    /\ Goto(t, "unlink")
    /\ UNCHANGED <<plain, litter, token, out, jobs>>

Unlink(t) ==
    /\ term[t].pc = "unlink"
    /\ plain' = NoDoc
    /\ End(t, "none")
    /\ UNCHANGED <<store, tmp, litter, token, jobs>>

-----------------------------------------------------------------------------
(* edit: the command becomes sops, which opens the file, runs the editor and
   saves what comes back, unless nothing changed. *)
SopsOpen(t) ==
    /\ term[t].pc = "open"
    /\ LET d == store[term[t].file] IN
        IF d.st # "empty"
          THEN \E new \in ByHand(d) \union {d} :
                 /\ term' = [term EXCEPT ![t].pc = "editor", ![t].base = d.val, ![t].buf = new]
                 /\ UNCHANGED out
          ELSE Error(t)
    /\ UNCHANGED <<Disk, token, jobs>>

SopsSave(t) ==
    /\ term[t].pc = "editor"
    /\ IF term[t].buf.val = term[t].base
         THEN Error(t) /\ UNCHANGED store
         ELSE /\ store' = [store EXCEPT ![term[t].file] = [term[t].buf EXCEPT !.st = "sops"]]
              /\ End(t, "none")
    /\ UNCHANGED <<plain, tmp, litter, token, jobs>>

-----------------------------------------------------------------------------
(* secrets init: a stub in the clear, then its encryption into the file. *)

Stub == [NoDoc EXCEPT !.st = "yaml", !.trees = Trees]

BeginInit(t) ==
    /\ IF store[Main].st # "absent"
         THEN /\ NewJob(t)
              /\ out' = [out EXCEPT ![t] = "ready"]
              /\ UNCHANGED <<store, tmp, term>>
         ELSE /\ Begin(t, "init", "stub", None, None, Main)
              /\ tmp' = [tmp EXCEPT ![t] = Stub]
              /\ store' = [store EXCEPT ![Main] = [NoDoc EXCEPT !.st = "empty"]]
    /\ UNCHANGED <<plain, litter, token>>

(* A sops that fails ends the command there: the stub and the empty file stay. *)
InitEncrypt(t) ==
    /\ term[t].pc = "stub"
    /\ \/ /\ store' = [store EXCEPT ![Main] = [Stub EXCEPT !.st = "sops"]]
          /\ End(t, "ready") /\ UNCHANGED litter
       \/ /\ litter' = litter \union {Remains(Stub, Main)}
          /\ Cardinality(litter') <= MaxLitter
          /\ Error(t) /\ UNCHANGED store
    /\ tmp' = [tmp EXCEPT ![t] = NoDoc]
    /\ UNCHANGED <<plain, token, jobs>>

-----------------------------------------------------------------------------
(* Reading. *)

KeysGet(k, override) ==
    LET d == store[FileForKey(k, override)] IN IF d.st = "sops" THEN d.val[k] ELSE None

KeysList == {k \in Keys : store[Main].val[k] # None}

(* env-export decrypts the secrets of an instance one after the other, here the
   pair that issue-tf-token saves, then writes the .env file. *)
BeginExport(t) ==
    /\ Begin(t, "export", "export", Saved[1], None, Owner(Saved[1]))
    /\ UNCHANGED <<Disk, token>>

Export(t) ==
    /\ term[t].pc = "export"
    /\ LET k == term[t].key IN
        IF Secret(k) # None /\ k = Saved[1]
          THEN term' = [term EXCEPT ![t].key = Saved[2], ![t].base[k] = Secret(k)] /\ UNCHANGED out
          ELSE End(t, "none")
    /\ UNCHANGED <<Disk, token, jobs>>

(* secrets check reads the key names of every *.yaml of nix/secrets but the
   plaintext one, temporary files included, and passes over what it cannot parse. *)
Temporary == {Remains(tmp[t], term[t].file) : t \in {u \in Terms : tmp[u] # NoDoc}} \union litter
FoundIn(d) == d.seen /\ d.st # "bad"
MisplacedInFiles(tree) ==              \* mutant: files only
    \E f \in Checked \ {FileFor(tree)} : tree \in store[f].trees
Misplaced(tree) ==
    \/ \E f \in Checked \ {FileFor(tree)} : tree \in store[f].trees
    \/ \E d \in Temporary : FoundIn(d) /\ tree \in d.trees
CheckProblems == {tree \in Trees : Misplaced(tree)}
CheckSkips == \E d \in Temporary : d.seen /\ d.st = "bad"
CheckOk == CheckProblems = {} /\ plain.st = "absent"

-----------------------------------------------------------------------------
(* Every file is absent, or holds any keys, in place or not. *)
Stored == {Trim([NoDoc EXCEPT !.st = "sops", !.val = val]) :
             val \in {val \in [Keys -> Values \union {None}] :
                        \A k \in Keys : val[k] \in ValuesOf[k] \union {None}}}
Init ==
    /\ store \in [Files -> Stored \union {NoDoc}]
    /\ plain = NoDoc /\ tmp = [t \in Terms |-> NoDoc] /\ litter = {}
    /\ token = None
    /\ term = [t \in Terms |-> Idle] /\ out = [t \in Terms |-> "none"]
    /\ jobs = 0

Write(t) ==
    \/ BeginWrite(t) \/ BeginEdit(t) \/ BeginInit(t) \/ MintToken(t)
    \/ Lookup(t) \/ SopsSet(t) \/ SopsCreate(t) \/ WriteCreated(t)
    \/ RmRead(t) \/ Encrypt(t, "rmenc", "rmmove") \/ RmMove(t)
    \/ Decrypt(t) \/ Confirm(t) \/ Encrypt(t, "enc", "move") \/ Replace(t) \/ Unlink(t)
    \/ SopsOpen(t) \/ SopsSave(t) \/ InitEncrypt(t)
Read(t) == BeginExport(t) \/ Export(t)

Next ==
    \/ \E t \in Writers : Write(t) \/ Kill(t)
    \/ \E t \in Readers : Read(t) \/ Kill(t)
    \/ Ide

Spec == Init /\ [][Next]_vars

-----------------------------------------------------------------------------
(* What a command is about to change of what readers see. *)

Asks(f, new, base) == [k \in {j \in Keys : Owner(j) = f /\ new[j] # base[j]} |-> new[k]]

want == [t \in Terms |->
    LET c == term[t] IN
    CASE c.pc \in {"set", "create", "write"} -> [k \in {c.key} \cap {j \in Keys : Owner(j) = c.file} |-> c.v]
      [] c.pc \in {"rmenc", "rmmove"} -> [k \in {c.key} \cap {j \in Keys : Owner(j) = c.file} |-> None]
      [] c.pc = "confirm" -> Asks(c.file, plain.val, c.base)
      [] c.pc \in {"enc", "move"} -> Asks(c.file, tmp[t].val, c.base)
      [] c.pc = "editor" -> Asks(c.file, c.buf.val, c.base)
      [] OTHER -> [k \in {} |-> None]]

Promise == INSTANCE AtomicSecrets WITH secret <- [k \in Keys |-> Secret(k)], want <- want

(* With one terminal that writes, whatever fails or is killed on the way, the
   values readers see change only by a whole command at a time: all keys that the
   operator changed, and no other. *)
AllOrNothing == Promise!Spec

(* A `secrets check` that comes out clean, with nothing passed over, has not
   overlooked decrypted secrets in nix/secrets: neither the plaintext file nor a
   temporary file that a killed command left behind, although it looks for the
   first only. *)
CheckSeesPlaintext ==
    CheckOk /\ ~CheckSkips =>
        ~Held(plain) /\ \A d \in Temporary : d.st = "yaml" /\ d.seen => ~d.held

(* After issue-tf-token succeeds, what terranix reads is the token the node
   accepts and the node's address, where sopsFiles routes both of them to the
   file that tfSopsFile names. *)
RoutersAgree == \A i \in {1, 2} : Owner(Saved[i]) = TfFile
TofuHasToken ==
    \A t \in Writers : out[t] = "minted" =>
        /\ TfSecret(Saved[1]) = Endpoint
        /\ TfSecret(Saved[2]) = token
TokenWorks == RoutersAgree => TofuHasToken

-----------------------------------------------------------------------------
(* What the documentation says and the code does not do. *)

(* "The CLI and the terranix layer cannot hold different opinions about layout":
   a minted token is where terranix reads, whatever the settings are. *)
TokenReachesTofu == TofuHasToken

(* Decrypted files are "reported separately": with --json too. *)
JsonSeesPlaintext == CheckProblems = {} /\ ~CheckSkips => ~Held(plain)

(* "keys list: list all secret key paths". *)
ListShowsAll == {k \in Keys : KeysGet(k, None) # None} \subseteq KeysList

(* "Scaffold this fleet's SOPS store (idempotent)": an init that succeeds leaves a
   store that commands can use. *)
InitMakesStore == \A t \in Writers : out[t] = "ready" => Readable(Main)

(* "The store path is ... overridable via fleet.settings.sopsSecretsFile": an init
   that succeeds leaves the file which that setting names. *)
InitObeysSetting == \A t \in Writers : out[t] = "ready" => store[Default].st # "absent"

(* Once every copy is trimmed out of the files that do not own it, as check
   advises, check is content. *)
TrimmingSuffices ==
    /\ \A f \in Files, k \in Keys : store[f].val[k] # None => f = Owner(k)
    /\ \A tree \in Trees : tree \in store[FileFor(tree)].trees
    /\ Temporary = {}
    => CheckProblems = {}

(* env-export writes a credential together with the address it goes with. *)
ExportsOneMoment ==
    \A t \in Terms : term[t].pc = "export" /\ term[t].key = Saved[2] =>
        term[t].base[Saved[1]] = Secret(Saved[1])
============================================================================
