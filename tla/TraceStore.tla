------------------------------ MODULE TraceStore ------------------------------
(***************************************************************************)
(* The traces of actions on disk (TraceStore in daemon/src/trace-store.ts)  *)
(* and the requests that write them (handleInteractive, daemon/src/         *)
(* daemon.ts): an id is allocated, a screenshot may be taken before the     *)
(* action, the trace is saved when the action is over, and every save       *)
(* removes what is too old.  Saves run one at a time; everything else runs  *)
(* beside them, and the daemon may crash at any time and be started again.  *)
(*                                                                         *)
(* A file is what kind it is and the trace it belongs to.  What it contains *)
(* is left out, and so are two daemons on one directory.                    *)
(***************************************************************************)
EXTENDS Clock, FiniteSets, Sequences

CONSTANTS
  Traces,      \* the ids that are ever allocated
  NoTrace,     \* no id
  Retention,   \* TRACE_RETENTION: how many traces are kept
  Grace        \* ORPHAN_GRACE_MS, in ticks

VARIABLES
  stage,    \* how far the request of a trace got
  active,   \* #activeIds
  queue,    \* #queue: the traces to be saved, the first of them now
  files,    \* the directory
  changed,  \* when a file was written last
  count,    \* how many traces were written so far
  rank,     \* the number of the trace among them, the newest the highest
  last,     \* the trace the file LAST names, if there is one and it is not empty
  doomed    \* the removals a clean-up has decided on

traceVars == <<now, stage, active, queue, files, changed, count, rank, last, doomed>>

Files == {"json", "png"} \X Traces
Json(i) == <<"json", i>>
Png(i) == <<"png", i>>

TraceTypeOK ==
  /\ now \in 0..MaxTime
  /\ stage \in [Traces -> {"unused", "acting", "queued", "written", "naming", "cleaning",
                           "removing", "saved", "failed"}]
  /\ active \subseteq Traces
  /\ queue \in Seq(Traces)
  /\ files \subseteq Files
  /\ changed \in [Files -> 0..MaxTime]
  /\ count \in Nat
  /\ rank \in [Traces -> 0..count]
  /\ last \in Traces \cup {NoTrace}
  /\ doomed \subseteq Files
  /\ \A i \in Traces :
       stage[i] \in {"written", "naming", "cleaning", "removing"}
         => queue # <<>> /\ Head(queue) = i

TraceInit ==
  /\ now = 0
  /\ stage = [i \in Traces |-> "unused"]
  /\ active = {}
  /\ queue = <<>>
  /\ files = {}
  /\ changed = [f \in Files |-> 0]
  /\ count = 0
  /\ rank = [i \in Traces |-> 0]
  /\ last = NoTrace
  /\ doomed = {}

-----------------------------------------------------------------------------
Becomes(i, s) == stage' = [stage EXCEPT ![i] = s]

Write(f) ==
  /\ files' = files \cup {f}
  /\ changed' = [changed EXCEPT ![f] = now]

(* allocateId, at the start of a request that is traced.                    *)
Allocate(i) ==
  /\ stage[i] = "unused"
  /\ Becomes(i, "acting")
  /\ active' = active \cup {i}
  /\ UNCHANGED <<now, queue, files, changed, count, rank, last, doomed>>

(* The screenshot before the action; the request goes on without it.        *)
Screenshot(i) ==
  /\ stage[i] = "acting"
  /\ Png(i) \notin files
  /\ Write(Png(i))
  /\ UNCHANGED <<now, stage, active, queue, count, rank, last, doomed>>

(* The action succeeded or failed: finishTrace has its trace saved.         *)
Save(i) ==
  /\ stage[i] = "acting"
  /\ Becomes(i, "queued")
  /\ queue' = Append(queue, i)
  /\ UNCHANGED <<now, active, files, changed, count, rank, last, doomed>>

IsNext(i) == queue # <<>> /\ Head(queue) = i

(* The steps of a save, in their order: its file, then LAST, then #cleanup. *)
(* A file is emptied before it is written.  That of the trace is new, and   *)
(* there from then on; LAST names nothing until the second step of the two. *)
WriteTrace(i) ==
  /\ stage[i] = "queued" /\ IsNext(i)
  /\ Becomes(i, "written")
  /\ Write(Json(i))
  /\ count' = count + 1
  /\ rank' = [rank EXCEPT ![i] = count + 1]
  /\ UNCHANGED <<now, active, queue, last, doomed>>

TruncateLast(i) ==
  /\ stage[i] = "written"
  /\ Becomes(i, "naming")
  /\ last' = NoTrace
  /\ UNCHANGED <<now, active, queue, files, changed, count, rank, doomed>>

WriteLast(i) ==
  /\ stage[i] = "naming"
  /\ Becomes(i, "cleaning")
  /\ last' = i
  /\ UNCHANGED <<now, active, queue, files, changed, count, rank, doomed>>

(* The traces on disk with fewer than Retention newer ones.                 *)
Kept ==
  LET saved == {i \in Traces : Json(i) \in files}
  IN {i \in saved : Cardinality({j \in saved : rank[j] > rank[i]}) < Retention}

Expired == {i \in Traces : Json(i) \in files} \ Kept

(* The id a file's name yields as that of an artifact: what is before its   *)
(* last dash that /^([a-z0-9-]{8,80})-/ can reach.  For a screenshot that   *)
(* is the trace; the name of a trace has its dash inside the id, and what   *)
(* is before it is the time of the allocation, which is nobody's id.        *)
ArtifactOf(f) == IF f[1] = "png" THEN f[2] ELSE NoTrace

Old(f) == now - changed[f] >= Grace

Removable(f) ==
  \/ f[1] = "json" /\ f[2] \in Expired
  \/ /\ ArtifactOf(f) \notin Kept \cup active
     /\ Old(f) \/ ArtifactOf(f) \in Expired

CleanupDecides(i) ==
  /\ stage[i] = "cleaning"
  /\ Becomes(i, "removing")
  /\ doomed' = {f \in files : Removable(f)}
  /\ UNCHANGED <<now, active, queue, files, changed, count, rank, last>>

SaveIsOver(i, how) ==
  /\ Becomes(i, how)
  /\ active' = active \ {i}
  /\ queue' = Tail(queue)
  /\ doomed' = {}

CleanupRemoves(i) ==
  /\ stage[i] = "removing"
  /\ files' = files \ doomed
  /\ SaveIsOver(i, "saved")
  /\ UNCHANGED <<now, changed, count, rank, last>>

(* A save fails, perhaps with LAST emptied or some of its removals done: its *)
(* artifacts are removed, if they can be, and the next one takes its turn.  *)
SaveFails(i) ==
  /\ IsNext(i)
  /\ \E gone \in SUBSET doomed, own \in SUBSET ({Png(i)} \cap files) :
       files' = files \ (gone \cup own)
  /\ SaveIsOver(i, "failed")
  /\ UNCHANGED <<now, changed, count, rank, last>>

(* The daemon is killed; a new one knows of no id.  A file that was being   *)
(* written is there or not, and LAST empty or not, as the steps left them.  *)
Crash ==
  /\ active # {}
  /\ stage' = [i \in Traces |-> IF stage[i] \in {"unused", "saved"} THEN stage[i] ELSE "failed"]
  /\ active' = {}
  /\ queue' = <<>>
  /\ doomed' = {}
  /\ \E gone \in SUBSET doomed : files' = files \ gone
  /\ UNCHANGED <<now, changed, count, rank, last>>

(* A save takes much less than the grace period.                            *)
TimeGoesOn ==
  /\ \A i \in Traces : stage[i] \notin {"written", "naming", "cleaning", "removing"}
  /\ TimePasses
  /\ UNCHANGED <<stage, active, queue, files, changed, count, rank, last, doomed>>

-----------------------------------------------------------------------------
Request(i) == Allocate(i) \/ Screenshot(i) \/ Save(i)

SaveStep(i) ==
  \/ WriteTrace(i) \/ TruncateLast(i) \/ WriteLast(i)
  \/ CleanupDecides(i) \/ CleanupRemoves(i) \/ SaveFails(i)

TraceNext ==
  \/ \E i \in Traces : Request(i) \/ SaveStep(i)
  \/ Crash
  \/ TimeGoesOn

TraceSpec == TraceInit /\ [][TraceNext]_traceVars

-----------------------------------------------------------------------------
(* A screenshot is removed neither while its action is under way or waits   *)
(* to be saved, unless its own save fails, nor without the trace that       *)
(* refers to it.  (trace-store.ts:146-157 and 126-132)                      *)
ScreenshotsSpared ==
  [][\A i \in Traces : Png(i) \in files \ files' =>
       \/ IsNext(i) /\ SaveFails(i)
       \/ i \notin active /\ (Json(i) \in files => Json(i) \in doomed)]_traceVars

(* A trace that LAST names is there.  LAST may name none: a save that ends  *)
(* between the two steps of its writing leaves it empty until the next.     *)
(* (trace-store.ts:92-97 and 118-124, temp-files.ts:203-211)                *)
LastIsThere == last # NoTrace => Json(last) \in files

(* LAST names the newest trace on disk if that one was saved to the end,    *)
(* whatever failed or crashed before or after.  (trace-store.ts:94-96)      *)
LastIsNewest ==
  \A i \in Traces : stage[i] = "saved" /\ rank[i] = count => last = i

(* README.md:98: the most recent traces are retained, as many as Retention. *)
RecentTracesAreRetained ==
  \A i \in Traces : stage[i] = "saved" /\ count - rank[i] < Retention => Json(i) \in files
===============================================================================
