----------------------------- MODULE AllowList -----------------------------
(***************************************************************************)
(* The inbound-peer allow-list (peer/allow.go), its editor in the web      *)
(* server (web/federation.go handlePeersAllow) and its copy in the config  *)
(* table (peer/allow_store.go), over edits, failed writes and restarts.    *)
(*                                                                         *)
(* Every edit is an HTTP request with a goroutine of its own: it changes   *)
(* the live list, reads the whole of it back and writes that to the store, *)
(* in three steps that other requests come between.  Callsigns are         *)
(* canonical here: normCallsign is applied at every entry of the code.     *)
(***************************************************************************)
EXTENDS FiniteSets

CONSTANTS
  Calls,
  Seed,       \* PDN_BPQCHAT_PEER_ALLOW
  Dialled,    \* the peers the configuration dials (DialedPeerCallsigns)
  Editors,    \* edit requests that may be under way at once
  NoValue     \* the config table holds no list

ASSUME AllowAssumption ==
  /\ Seed \subseteq Calls /\ Dialled \subseteq Calls
  /\ \A s \in SUBSET Calls : NoValue # s

VARIABLES
  allowed,   \* the editable set
  pinned,    \* the peers we dial
  stored,    \* the set in the config table
  step,      \* editor -> "idle", "changed", "read"
  on,        \* editor -> the callsign it edits
  snap,      \* editor -> the entries it read, to be written
  confirmed, \* callsigns whose last edit was answered with success
  added,     \* callsigns an operator has ever added
  torn       \* since the daemon started, two edits have overlapped or a
             \* write has failed

allowVars == <<allowed, pinned, stored, step, on, snap, confirmed, added, torn>>

AllowTypeOK ==
  /\ allowed \subseteq Calls /\ pinned \subseteq Calls
  /\ stored \subseteq Calls
  /\ step \in [Editors -> {"idle", "changed", "read"}]
  /\ on \in [Editors -> Calls]
  /\ snap \in [Editors -> SUBSET Calls]
  /\ confirmed \subseteq Calls /\ added \subseteq Calls
  /\ torn \in BOOLEAN

-----------------------------------------------------------------------------
(* LoadAllowList: a stored set wins, an empty one too; without one the     *)
(* environment seeds the list, which is stored at once.                    *)
LoadedNonEmpty(s) == IF s \in {NoValue, {}} THEN Seed ELSE s
Loaded(s)         == IF s = NoValue THEN Seed ELSE s

AllowInit ==
  /\ stored = Loaded(NoValue)
  /\ allowed = stored
  /\ pinned = Dialled
  /\ step = [e \in Editors |-> "idle"]
  /\ on \in [Editors -> Calls]
  /\ snap = [e \in Editors |-> {}]
  /\ confirmed = {} /\ added = {} /\ torn = FALSE

(* The daemon stops, at any point, and starts again.                       *)
Restart ==
  /\ allowed' = Loaded(stored)
  /\ pinned' = Dialled
  /\ step' = [e \in Editors |-> "idle"]
  /\ snap' = [e \in Editors |-> {}]
  /\ torn' = FALSE
  /\ UNCHANGED <<stored, on, confirmed, added>>

-----------------------------------------------------------------------------
(* An edit that changes the list goes on to be stored; one that changes    *)
(* nothing is answered.                                                    *)
Begin(e, c, changed) ==
  /\ step[e] = "idle"
  /\ on' = [on EXCEPT ![e] = c]
  /\ step' = [step EXCEPT ![e] = IF changed THEN "changed" ELSE "idle"]
  /\ confirmed' = IF changed THEN confirmed \ {c} ELSE confirmed \cup {c}
  /\ torn' = (torn \/ \E o \in Editors : step[o] # "idle")
  /\ UNCHANGED <<stored, snap>>

Add(e, c) ==
  /\ Begin(e, c, c \notin allowed)
  /\ allowed' = allowed \cup {c}
  /\ added' = added \cup {c}
  /\ UNCHANGED pinned

Remove(e, c) ==
  /\ Begin(e, c, c \in allowed)
  /\ allowed' = allowed \ {c}
  /\ UNCHANGED <<pinned, added>>

(* PersistAllowList: Entries reads the list under its lock ...             *)
EntriesAll == allowed \cup pinned
Entries    == allowed

ReadEntries(e) ==
  /\ step[e] = "changed"
  /\ snap' = [snap EXCEPT ![e] = Entries]
  /\ step' = [step EXCEPT ![e] = "read"]
  /\ UNCHANGED <<allowed, pinned, stored, on, confirmed, added, torn>>

(* ... and SetConfig writes it; the request is answered.                   *)
Answer(e) == step' = [step EXCEPT ![e] = "idle"] /\ snap' = [snap EXCEPT ![e] = {}]

SetConfig(e) ==
  /\ step[e] = "read"
  /\ Answer(e)
  /\ stored' = snap[e]
  /\ confirmed' = confirmed \cup {on[e]}
  /\ UNCHANGED <<allowed, pinned, on, added, torn>>

(* The write fails; the live list keeps the edit and the editor is told.   *)
SetConfigFails(e) ==
  /\ step[e] = "read"
  /\ Answer(e)
  /\ torn' = TRUE
  /\ confirmed' = confirmed \ {on[e]}
  /\ UNCHANGED <<allowed, pinned, stored, on, added>>

AllowNext ==
  \/ Restart
  \/ \E e \in Editors :
       \/ ReadEntries(e) \/ SetConfig(e) \/ SetConfigFails(e)
       \/ \E c \in Calls : Add(e, c) \/ Remove(e, c)

AllowSpec == AllowInit /\ [][AllowNext]_allowVars

-----------------------------------------------------------------------------
Allowed(c) == c \in allowed \/ c \in pinned

(* "a restart never silently reverts an operator's changes"                *)
(* (allow_store.go:29): for a callsign whose last edit was answered with   *)
(* success, the store says what the live list says, whatever edits and     *)
(* restarts went before; unless edits overlap or a write fails.            *)
ConfirmedIsStored == ~torn => \A c \in confirmed : c \in stored <=> c \in allowed

(* An editor "can never strip the implicit trust of a peer we actively     *)
(* dial" (allow.go:22), and those peers are never "persisted"              *)
(* (allow_store.go:36): through any mix of edits, failed writes and        *)
(* restarts they stay trusted, and what else is trusted, or stored and so  *)
(* trusted after the next start, came from the operator's seed or edits.   *)
TrustIsOperators ==
  /\ \A c \in Dialled : Allowed(c)
  /\ stored \cup {c \in Calls \ Dialled : Allowed(c)} \subseteq Seed \cup added
=============================================================================
