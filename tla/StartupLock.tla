----------------------------- MODULE StartupLock -----------------------------
(***************************************************************************)
(* One background job of the gunicorn workers (app/main.py): every worker  *)
(* starts the job's loop, and a Redis key set with NX and a TTL is meant   *)
(* to let one of them run it.  The loop of the OCR poller holds the key    *)
(* and renews it between passes; the keepalive and inspection loops take   *)
(* it for one pass and give it back.  Without Redis the job runs unlocked. *)
(***************************************************************************)
EXTENDS Naturals, FiniteSets

CONSTANTS
  Procs,      \* the gunicorn workers
  NoOne,      \* the key is not set
  Ghost,      \* the key still holds the token of a worker that died
  MaxLapses   \* bound: how often Redis fails a call, forgets a key or a worker dies

VARIABLES
  key,        \* whose token the key holds
  loop,       \* loop[p]: "out", "in" (under the key) or "free" (Redis unavailable)
  lapsed,     \* history: those running under a key that is theirs no longer
  lapses      \* failures so far

lockVars == <<key, loop, lapsed, lapses>>

LockTypeOK ==
  /\ key \in Procs \cup {NoOne, Ghost}
  /\ loop \in [Procs -> {"out", "in", "free"}]
  /\ lapsed \in SUBSET Procs
  /\ lapses \in 0 .. MaxLapses

LockInit ==
  /\ key = NoOne
  /\ loop = [p \in Procs |-> "out"]
  /\ lapsed = {}
  /\ lapses = 0

MayLapse == lapses < MaxLapses /\ lapses' = lapses + 1

\* acquire_lock_checked: SET key token NX EX ttl.  A busy key changes nothing.
Acquire(p) ==
  /\ loop[p] = "out"
  /\ key = NoOne
  /\ key' = p
  /\ loop' = [loop EXCEPT ![p] = "in"]
  /\ lapsed' = lapsed \ {p}
  /\ UNCHANGED lapses

\* The call fails, or there is no Redis: the job runs without the key.
Unavailable(p) ==
  /\ loop[p] = "out"
  /\ MayLapse
  /\ loop' = [loop EXCEPT ![p] = "free"]
  /\ UNCHANGED <<key, lapsed>>

\* Mutant: DEL without the comparison.
KeyReleasedBy_Any(p) == NoOne

\* What release_lock leaves of the key: the script compares the token.
KeyReleasedBy(p) == IF key = p THEN NoOne ELSE key

\* The loop or the pass under the key ends; release_lock gives the key back.
Release(p) ==
  /\ loop[p] = "in"
  /\ loop' = [loop EXCEPT ![p] = "out"]
  /\ key' = KeyReleasedBy(p)
  /\ lapsed' = lapsed \ {p}
  /\ UNCHANGED lapses

\* A renewal fails, or the release does: the loop ends, the key stays for its TTL.
ReleaseFails(p) ==
  /\ loop[p] = "in"
  /\ MayLapse
  /\ loop' = [loop EXCEPT ![p] = "out"]
  /\ lapsed' = lapsed \ {p}
  /\ UNCHANGED key

\* The TTL of a key nobody works under runs out.
OrphanExpires ==
  /\ key \in {Ghost} \cup {p \in Procs : loop[p] # "in"}
  /\ key' = NoOne
  /\ UNCHANGED <<loop, lapsed, lapses>>

\* The TTL runs out under a pass that takes longer.
ExpiresDuringPass ==
  /\ key \in Procs /\ loop[key] = "in"
  /\ MayLapse
  /\ lapsed' = lapsed \cup {key}
  /\ key' = NoOne
  /\ UNCHANGED loop

\* A worker dies; its key stays for the TTL, its successor has another token.
LockCrash(p) ==
  /\ loop[p] # "out"
  /\ MayLapse
  /\ loop' = [loop EXCEPT ![p] = "out"]
  /\ key' = IF key = p THEN Ghost ELSE key
  /\ lapsed' = lapsed \ {p}

\* A job that runs without Redis ends its pass and tries the key again next time.
FreePassEnds(p) ==
  /\ loop[p] = "free"
  /\ loop' = [loop EXCEPT ![p] = "out"]
  /\ UNCHANGED <<key, lapsed, lapses>>

LockNext ==
  \/ \E p \in Procs :
       Acquire(p) \/ Unavailable(p) \/ Release(p) \/ ReleaseFails(p) \/ FreePassEnds(p) \/ LockCrash(p)
  \/ OrphanExpires
  \/ ExpiresDuringPass

LockSpec == LockInit /\ [][LockNext]_lockVars

-----------------------------------------------------------------------------
(* Two workers work under the key at once only if one of them has outlived  *)
(* its TTL: what the NX of the acquisition and the comparison of the        *)
(* release are for (main.py 104-151).                                       *)
AloneUnlessLapsed ==
  \A p, q \in Procs :
    p # q /\ loop[p] = "in" /\ loop[q] = "in" => lapsed \cap {p, q} # {}
=============================================================================
