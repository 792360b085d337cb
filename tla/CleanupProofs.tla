---------------------------- MODULE CleanupProofs ----------------------------
(***************************************************************************)
(* Proofs about what is cleaned up and what is left behind: the files of    *)
(* traces, by the clean-ups of saves (TraceStore), and the pages of a       *)
(* script, at the end of its run (ScriptRun).                               *)
(*                                                                         *)
(* Of the traces, for any number of them, however many are kept and however *)
(* long orphans are spared, one needs to know that saves run one at a time  *)
(* (TraceTypeOK says that the one under way is the first of the queue),     *)
(* that it is the newest and was written in the current tick, and that      *)
(* nothing a clean-up has decided to remove comes to be needed before it    *)
(* does.  Of the pages, for any number of them and of commands, that each   *)
(* open one is listed in exactly one place, although the guest, the browser *)
(* and the host all go on while the list is worked off.                     *)
(***************************************************************************)
EXTENDS TraceStore, ScriptRun, FiniteSetTheorems, SequenceTheorems, TLAPS

-----------------------------------------------------------------------------
(* The files of traces.                                                     *)

TraceParameters ==
  /\ NoTrace \notin Traces
  /\ Retention \in Nat \ {0}
  /\ Grace \in Nat \ {0}

Saving == {"written", "naming", "cleaning", "removing"}

(* The save under way has written its trace, which is the newest.           *)
NewestIsBeingSaved ==
  \A i \in Traces :
    /\ stage[i] \in Saving =>
         /\ Json(i) \in files /\ changed[Json(i)] = now
         /\ rank[i] = count /\ \A j \in Traces \ {i} : rank[j] < count
    /\ stage[i] \in {"cleaning", "removing"} => last = i

(* What is going to be removed is neither that trace nor a screenshot that  *)
(* somebody still needs.                                                    *)
RemovalsAreSafe ==
  /\ doomed \subseteq files
  /\ doomed # {} => \E i \in Traces : stage[i] = "removing" /\ Json(i) \notin doomed
  /\ \A i \in Traces :
       Png(i) \in doomed => i \notin active /\ (Json(i) \in files => Json(i) \in doomed)

TraceIInv ==
  /\ TraceTypeOK
  /\ LastIsThere
  /\ LastIsNewest
  /\ NewestIsBeingSaved
  /\ RemovalsAreSafe
  /\ \A i \in Traces : stage[i] = "unused" => Png(i) \notin files

-----------------------------------------------------------------------------
(* The newest trace is always kept and never taken for an orphan.           *)
LEMMA NewestIsNotRemovable ==
  ASSUME TraceParameters, TraceTypeOK, NEW i \in Traces,
         Json(i) \in files, changed[Json(i)] = now, rank[i] = count
  PROVE  ~Removable(Json(i))
<1> DEFINE saved == {j \in Traces : Json(j) \in files}
           newer == {j \in saved : rank[j] > rank[i]}
<1>1. newer = {}
  BY DEF TraceTypeOK
<1>2. Cardinality(newer) = 0
  BY <1>1, FS_EmptySet
<1>3. i \in Kept
  <2>1. Cardinality({j \in saved : rank[j] > rank[i]}) < Retention
    BY <1>2 DEF TraceParameters
  <2> HIDE DEF newer
  <2>2. QED
    BY <2>1 DEF Kept
<1>4. i \notin Expired
  BY <1>3 DEF Expired
<1>5. ArtifactOf(Json(i)) = NoTrace
  BY DEF ArtifactOf, Json
<1>6. NoTrace \notin Expired
  BY DEF TraceParameters, Expired
<1>7. ~Old(Json(i))
  BY DEF TraceParameters, TraceTypeOK, Old
<1>8. Json(i)[2] = i
  BY DEF Json
<1>9. QED
  BY <1>4, <1>5, <1>6, <1>7, <1>8 DEF Removable

(* A screenshot that may be removed is nobody's, or that of a trace that     *)
(* goes with it.                                                            *)
LEMMA RemovableScreenshot ==
  ASSUME NEW i \in Traces, Png(i) \in files, Removable(Png(i))
  PROVE  i \notin active /\ (Json(i) \in files => Removable(Json(i)))
<1>1. Png(i)[1] = "png" /\ Png(i)[2] = i /\ Json(i)[1] = "json" /\ Json(i)[2] = i
  BY DEF Png, Json
<1>2. i \notin Kept \cup active
  BY <1>1 DEF Removable, ArtifactOf
<1>3. Json(i) \in files => i \in Expired
  BY <1>2 DEF Expired
<1>4. QED
  BY <1>1, <1>2, <1>3 DEF Removable

-----------------------------------------------------------------------------
(* The steps.                                                               *)

LEMMA TraceInitEstablishes ==
  ASSUME TraceInit PROVE TraceIInv
<1>1. TraceTypeOK
  BY MaxTimeAssumption DEF TraceInit, TraceTypeOK, Files
<1>2. LastIsThere /\ LastIsNewest /\ NewestIsBeingSaved /\ RemovalsAreSafe
  BY DEF TraceInit, LastIsThere, LastIsNewest, NewestIsBeingSaved, RemovalsAreSafe, Saving
<1>3. \A i \in Traces : Png(i) \notin files
  BY DEF TraceInit
<1>4. QED
  BY <1>1, <1>2, <1>3 DEF TraceIInv

(* Only the request at the head of the queue is being saved.                *)
LEMMA OneSaveAtATime ==
  ASSUME TraceTypeOK, NEW i \in Traces, NEW j \in Traces, stage[i] \in Saving, IsNext(j)
  PROVE  i = j
  BY DEF TraceTypeOK, Saving, IsNext

LEMMA RequestKeeps ==
  ASSUME TraceIInv, NEW i \in Traces, Request(i) PROVE TraceIInv'
<1>1. CASE Allocate(i)
  <2>1. TraceTypeOK'
    BY <1>1 DEF TraceIInv, TraceTypeOK, Allocate, Becomes
  <2>2. LastIsThere' /\ LastIsNewest' /\ NewestIsBeingSaved'
    BY <1>1
       DEF TraceIInv, TraceTypeOK, LastIsThere, LastIsNewest, NewestIsBeingSaved, Saving,
           Allocate, Becomes
  <2>3. Png(i) \notin doomed
    BY <1>1 DEF TraceIInv, RemovalsAreSafe, Allocate
  <2>4. RemovalsAreSafe'
    BY <1>1, <2>3 DEF TraceIInv, TraceTypeOK, RemovalsAreSafe, Allocate, Becomes, Png
  <2>5. QED
    BY <1>1, <2>1, <2>2, <2>4 DEF TraceIInv, TraceTypeOK, Allocate, Becomes
<1>2. CASE Screenshot(i)
  <2>1. Png(i) \in Files /\ \A j \in Traces : Json(j) # Png(i) /\ (Png(j) = Png(i) => j = i)
    BY DEF Png, Json, Files
  <2>2. TraceTypeOK'
    BY <1>2, <2>1 DEF TraceIInv, TraceTypeOK, Screenshot, Write
  <2>3. LastIsThere' /\ LastIsNewest' /\ NewestIsBeingSaved'
    BY <1>2, <2>1
       DEF TraceIInv, TraceTypeOK, LastIsThere, LastIsNewest, NewestIsBeingSaved, Saving,
           Screenshot, Write, Files, Json
  <2>4. RemovalsAreSafe'
    BY <1>2, <2>1 DEF TraceIInv, TraceTypeOK, RemovalsAreSafe, Screenshot, Write
  <2>5. QED
    BY <1>2, <2>1, <2>2, <2>3, <2>4 DEF TraceIInv, Screenshot, Write
<1>3. CASE Save(i)
  <2> queue \in Seq(Traces)
    BY DEF TraceIInv, TraceTypeOK
  <2>1. queue # <<>> => Head(Append(queue, i)) = Head(queue)
    OBVIOUS
  <2>2. Append(queue, i) # <<>> /\ Append(queue, i) \in Seq(Traces)
    BY AppendProperties
  <2>3. TraceTypeOK'
    BY <1>3, <2>1, <2>2 DEF TraceIInv, TraceTypeOK, Save, Becomes
  <2>4. LastIsThere' /\ LastIsNewest' /\ NewestIsBeingSaved' /\ RemovalsAreSafe'
    BY <1>3
       DEF TraceIInv, TraceTypeOK, LastIsThere, LastIsNewest, NewestIsBeingSaved, RemovalsAreSafe,
           Saving, Save, Becomes
  <2>5. QED
    BY <1>3, <2>3, <2>4 DEF TraceIInv, TraceTypeOK, Save, Becomes
<1>4. QED
  BY <1>1, <1>2, <1>3 DEF Request

LEMMA WriteTraceKeeps ==
  ASSUME TraceParameters, TraceIInv, NEW i \in Traces, WriteTrace(i) PROVE TraceIInv'
<1>1. Json(i) \in Files /\ \A j \in Traces : Png(j) # Json(i) /\ (Json(j) = Json(i) => j = i)
  BY DEF Png, Json, Files
<1>2. \A j \in Traces : stage[j] \notin Saving
  BY OneSaveAtATime DEF TraceIInv, WriteTrace, Saving
<1>3. doomed = {}
  BY <1>2 DEF TraceIInv, RemovalsAreSafe, Saving
<1>4. TraceTypeOK'
  BY <1>1, <1>2 DEF TraceIInv, TraceTypeOK, WriteTrace, Write, Becomes, IsNext, Saving
<1>5. NewestIsBeingSaved'
  <2>1. stage' = [stage EXCEPT ![i] = "written"] /\ Json(i) \in files' /\ changed'[Json(i)] = now'
    BY <1>1 DEF TraceIInv, TraceTypeOK, WriteTrace, Write, Becomes
  <2>2. rank'[i] = count' /\ \A j \in Traces \ {i} : rank'[j] < count'
    BY DEF TraceIInv, TraceTypeOK, WriteTrace
  <2>3. QED
    BY <2>1, <2>2, <1>2 DEF TraceIInv, TraceTypeOK, NewestIsBeingSaved, Saving
<1>6. LastIsThere' /\ RemovalsAreSafe'
  BY <1>3 DEF TraceIInv, LastIsThere, RemovalsAreSafe, WriteTrace, Write
<1>7. LastIsNewest'
  <2>1. ASSUME NEW j \in Traces PROVE stage'[j] # "saved" \/ rank'[j] # count'
    BY DEF TraceIInv, TraceTypeOK, WriteTrace, Becomes
  <2>2. QED
    BY <2>1 DEF LastIsNewest
<1>8. QED
  BY <1>1, <1>4, <1>5, <1>6, <1>7 DEF TraceIInv, TraceTypeOK, WriteTrace, Write, Becomes

LEMMA LastKeeps ==
  ASSUME TraceParameters, TraceIInv, NEW i \in Traces, TruncateLast(i) \/ WriteLast(i)
  PROVE  TraceIInv'
<1>1. stage[i] \in {"written", "naming"} /\ stage'[i] \in {"naming", "cleaning"}
  BY DEF TraceIInv, TraceTypeOK, TruncateLast, WriteLast, Becomes
<1>2. /\ stage' = [stage EXCEPT ![i] = stage'[i]]
      /\ last' = IF stage'[i] = "cleaning" THEN i ELSE NoTrace
      /\ UNCHANGED <<now, active, queue, files, changed, count, rank, doomed>>
  BY DEF TraceIInv, TraceTypeOK, TruncateLast, WriteLast, Becomes
<1>3. \A j \in Traces : stage[j] \in Saving => j = i
  BY <1>1, OneSaveAtATime DEF TraceIInv, TraceTypeOK, Saving, IsNext
<1>4. TraceTypeOK'
  BY <1>1, <1>2 DEF TraceIInv, TraceTypeOK
<1>5. LastIsThere' /\ NewestIsBeingSaved'
  BY <1>1, <1>2, <1>3 DEF TraceIInv, TraceTypeOK, LastIsThere, NewestIsBeingSaved, Saving
<1>6. LastIsNewest'
  <2>1. \A j \in Traces \ {i} : rank[j] < count
    BY <1>1 DEF TraceIInv, NewestIsBeingSaved, Saving
  <2>2. QED
    BY <1>1, <1>2, <2>1 DEF TraceIInv, TraceTypeOK, LastIsNewest
<1>7. doomed = {}
  BY <1>1, <1>3 DEF TraceIInv, RemovalsAreSafe, Saving
<1>8. RemovalsAreSafe'
  BY <1>2, <1>7 DEF RemovalsAreSafe
<1>9. QED
  BY <1>1, <1>2, <1>4, <1>5, <1>6, <1>8 DEF TraceIInv, TraceTypeOK

LEMMA CleanupDecidesKeeps ==
  ASSUME TraceParameters, TraceIInv, NEW i \in Traces, CleanupDecides(i) PROVE TraceIInv'
<1>1. \A j \in Traces : stage[j] \in Saving => j = i
  BY OneSaveAtATime DEF TraceIInv, TraceTypeOK, CleanupDecides, Saving, IsNext
<1>2. Json(i) \in files /\ ~Removable(Json(i))
  BY NewestIsNotRemovable DEF TraceIInv, NewestIsBeingSaved, CleanupDecides, Saving
<1>3. TraceTypeOK'
  BY DEF TraceIInv, TraceTypeOK, CleanupDecides, Becomes
<1>4. LastIsThere' /\ LastIsNewest' /\ NewestIsBeingSaved'
  BY <1>1
     DEF TraceIInv, TraceTypeOK, LastIsThere, LastIsNewest, NewestIsBeingSaved, Saving,
         CleanupDecides, Becomes
<1>5. RemovalsAreSafe'
  <2>1. doomed' \subseteq files' /\ Json(i) \notin doomed' /\ stage'[i] = "removing"
    BY <1>2 DEF TraceIInv, TraceTypeOK, CleanupDecides, Becomes
  <2>2. ASSUME NEW j \in Traces, Png(j) \in doomed'
        PROVE  j \notin active' /\ (Json(j) \in files' => Json(j) \in doomed')
    BY <2>2, RemovableScreenshot DEF CleanupDecides
  <2>3. QED
    BY <2>1, <2>2 DEF RemovalsAreSafe
<1>6. QED
  BY <1>3, <1>4, <1>5 DEF TraceIInv, TraceTypeOK, CleanupDecides, Becomes

(* What a removal, complete or not, takes away is not what LAST names.      *)
LEMMA LastSurvivesRemovals ==
  ASSUME TraceParameters, TraceIInv, NEW gone \in SUBSET doomed
  PROVE  last # NoTrace => Json(last) \in files \ gone
<1>1. CASE doomed = {}
  BY <1>1 DEF TraceIInv, LastIsThere
<1>2. CASE doomed # {}
  BY <1>2 DEF TraceIInv, LastIsThere, RemovalsAreSafe, NewestIsBeingSaved
<1>3. QED
  BY <1>1, <1>2

(* The end of a save, whatever of `doomed' and of its own screenshot it     *)
(* removed.                                                                 *)
LEMMA SaveIsOverKeeps ==
  ASSUME TraceParameters, TraceIInv, NEW i \in Traces, NEW how \in {"saved", "failed"}, IsNext(i),
         SaveIsOver(i, how), how = "saved" => stage[i] = "removing", NEW gone \in SUBSET doomed, NEW own \in SUBSET {Png(i)},
         files' = files \ (gone \cup own), UNCHANGED <<now, changed, count, rank, last>>
  PROVE  TraceIInv'
<1>1. \A j \in Traces : j # i => stage[j] \notin Saving
  BY OneSaveAtATime DEF TraceIInv
<1>2. Tail(queue) \in Seq(Traces)
  BY DEF TraceIInv, TraceTypeOK, IsNext
<1>3. \A j \in Traces : stage'[j] \notin Saving
  BY <1>1 DEF TraceIInv, TraceTypeOK, SaveIsOver, Becomes, Saving
<1>4. TraceTypeOK'
  BY <1>2, <1>3 DEF TraceIInv, TraceTypeOK, SaveIsOver, Becomes, Saving
<1>5. \A j \in Traces : Json(j) # Png(i)
  BY DEF Json, Png
<1>6. LastIsThere'
  BY <1>5, LastSurvivesRemovals DEF TraceIInv, TraceTypeOK, LastIsThere
<1>7. NewestIsBeingSaved' /\ RemovalsAreSafe'
  BY <1>3 DEF NewestIsBeingSaved, RemovalsAreSafe, Saving, SaveIsOver
<1>8. LastIsNewest'
  <2>1. \A j \in Traces : j # i => stage'[j] = stage[j]
    BY DEF TraceIInv, TraceTypeOK, SaveIsOver, Becomes
  <2>2. stage'[i] = "saved" => last = i
    BY DEF TraceIInv, TraceTypeOK, NewestIsBeingSaved, SaveIsOver, Becomes
  <2>3. QED
    BY <2>1, <2>2 DEF TraceIInv, LastIsNewest
<1>9. QED
  BY <1>4, <1>6, <1>7, <1>8 DEF TraceIInv, TraceTypeOK, SaveIsOver, Becomes

LEMMA CrashKeeps ==
  ASSUME TraceParameters, TraceIInv, Crash PROVE TraceIInv'
<1>1. \A j \in Traces : stage'[j] \notin Saving
  BY DEF TraceIInv, TraceTypeOK, Crash, Saving
<1>2. TraceTypeOK'
  BY <1>1 DEF TraceIInv, TraceTypeOK, Crash, Saving
<1>3. LastIsThere'
  BY LastSurvivesRemovals DEF LastIsThere, Crash
<1>4. NewestIsBeingSaved' /\ RemovalsAreSafe'
  BY <1>1 DEF NewestIsBeingSaved, RemovalsAreSafe, Saving, Crash
<1>5. LastIsNewest'
  BY DEF TraceIInv, TraceTypeOK, LastIsNewest, Crash
<1>6. QED
  BY <1>2, <1>3, <1>4, <1>5 DEF TraceIInv, TraceTypeOK, Crash

LEMMA TimeGoesOnKeeps ==
  ASSUME TraceIInv, TimeGoesOn PROVE TraceIInv'
<1>1. TraceTypeOK'
  BY MaxTimeAssumption DEF TraceIInv, TraceTypeOK, TimeGoesOn, TimePasses
<1>2. QED
  BY <1>1
     DEF TraceIInv, LastIsThere, LastIsNewest, NewestIsBeingSaved, RemovalsAreSafe, Saving,
         TimeGoesOn

LEMMA TraceNextKeeps ==
  ASSUME TraceParameters, TraceIInv, [TraceNext]_traceVars PROVE TraceIInv'
<1>1. ASSUME NEW i \in Traces, Request(i) PROVE TraceIInv'
  BY <1>1, RequestKeeps
<1>2. ASSUME NEW i \in Traces, SaveStep(i) PROVE TraceIInv'
  <2>1. CASE WriteTrace(i)
    BY <2>1, WriteTraceKeeps
  <2>2. CASE TruncateLast(i) \/ WriteLast(i)
    BY <2>2, LastKeeps
  <2>3. CASE CleanupDecides(i)
    BY <2>3, CleanupDecidesKeeps
  <2>4. CASE CleanupRemoves(i)
    <3>1. IsNext(i)
      BY <2>4 DEF TraceIInv, TraceTypeOK, CleanupRemoves, IsNext
    <3>2. files' = files \ (doomed \cup {}) /\ UNCHANGED <<now, changed, count, rank, last>>
      BY <2>4 DEF CleanupRemoves
    <3>3. SaveIsOver(i, "saved") /\ stage[i] = "removing"
      BY <2>4 DEF CleanupRemoves
    <3>4. doomed \in SUBSET doomed /\ {} \in SUBSET {Png(i)}
      OBVIOUS
    <3>5. QED
      BY <3>1, <3>2, <3>3, <3>4, SaveIsOverKeeps
  <2>5. CASE SaveFails(i)
    <3>1. PICK gone \in SUBSET doomed, own \in SUBSET ({Png(i)} \cap files) :
            files' = files \ (gone \cup own)
      BY <2>5 DEF SaveFails
    <3>2. QED
      BY <2>5, <3>1, SaveIsOverKeeps DEF SaveFails
  <2>6. QED
    BY <1>2, <2>1, <2>2, <2>3, <2>4, <2>5 DEF SaveStep
<1>3. CASE Crash
  BY <1>3, CrashKeeps
<1>4. CASE TimeGoesOn
  BY <1>4, TimeGoesOnKeeps
<1>5. CASE UNCHANGED traceVars
  BY <1>5
     DEF TraceIInv, TraceTypeOK, LastIsThere, LastIsNewest, NewestIsBeingSaved, RemovalsAreSafe,
         traceVars
<1>6. QED
  BY <1>1, <1>2, <1>3, <1>4, <1>5 DEF TraceNext

-----------------------------------------------------------------------------
(* The inductive invariant holds in every reachable state.                  *)
THEOREM TraceInvariance ==
  ASSUME TraceParameters PROVE TraceSpec => []TraceIInv
<1>1. TraceInit => TraceIInv
  BY TraceInitEstablishes
<1>2. TraceIInv /\ [TraceNext]_traceVars => TraceIInv'
  BY TraceNextKeeps
<1>3. QED
  BY <1>1, <1>2, PTL DEF TraceSpec

(* The type invariant, of which the order of saves is a part.               *)
THEOREM TraceTypeCorrect ==
  ASSUME TraceParameters PROVE TraceSpec => []TraceTypeOK
<1>1. TraceIInv => TraceTypeOK
  BY DEF TraceIInv
<1>2. QED
  BY <1>1, TraceInvariance, PTL

(* A trace that LAST names is there, and LAST names the newest one if that   *)
(* was saved to the end, though saves fail at every step, clean-ups stop    *)
(* half way and the daemon crashes.  What is not claimed is that LAST names *)
(* one: it is empty after a save that ended while writing it.               *)
(* (trace-store.ts:92-97 and 118-124, temp-files.ts:203-211)                *)
THEOREM LastStaysThere ==
  ASSUME TraceParameters PROVE TraceSpec => [](LastIsThere /\ LastIsNewest)
<1>1. TraceIInv => LastIsThere /\ LastIsNewest
  BY DEF TraceIInv
<1>2. QED
  BY <1>1, TraceInvariance, PTL

(* A screenshot is there for as long as its action is under way and its     *)
(* trace refers to it.  (trace-store.ts:146-157 and 126-132)                *)
THEOREM ScreenshotsAreSpared ==
  ASSUME TraceParameters PROVE TraceSpec => ScreenshotsSpared
<1> DEFINE Spared(i) ==
      \/ IsNext(i) /\ SaveFails(i)
      \/ i \notin active /\ (Json(i) \in files => Json(i) \in doomed)
<1>1. ASSUME TraceIInv, [TraceNext]_traceVars, NEW i \in Traces, Png(i) \in files \ files'
      PROVE  Spared(i)
  <2>1. Png(i) \in doomed => Spared(i)
    BY <1>1 DEF TraceIInv, RemovalsAreSafe
  <2>2. \A j \in Traces : ~Request(j)
    BY <1>1 DEF Request, Allocate, Screenshot, Save, Write
  <2>3. ASSUME NEW j \in Traces, SaveStep(j) PROVE Spared(i)
    <3>1. ~WriteTrace(j) /\ ~TruncateLast(j) /\ ~WriteLast(j) /\ ~CleanupDecides(j)
      BY <1>1 DEF WriteTrace, TruncateLast, WriteLast, CleanupDecides, Write
    <3>2. CASE CleanupRemoves(j)
      BY <1>1, <2>1, <3>2 DEF CleanupRemoves
    <3>3. CASE SaveFails(j)
      <4>1. CASE j = i
        BY <3>3, <4>1 DEF SaveFails
      <4>2. CASE j # i
        <5>1. Png(i) # Png(j)
          BY <4>2 DEF Png
        <5>2. QED
          BY <1>1, <2>1, <3>3, <5>1 DEF SaveFails
      <4>3. QED
        BY <4>1, <4>2
    <3>4. QED
      BY <2>3, <3>1, <3>2, <3>3 DEF SaveStep
  <2>4. CASE Crash
    BY <1>1, <2>1, <2>4 DEF Crash
  <2>5. ~TimeGoesOn /\ ~UNCHANGED traceVars
    BY <1>1 DEF TimeGoesOn, traceVars
  <2>6. QED
    BY <1>1, <2>2, <2>3, <2>4, <2>5 DEF TraceNext
<1>2. TraceIInv /\ [TraceNext]_traceVars
        => [\A i \in Traces : Png(i) \in files \ files' => Spared(i)]_traceVars
  BY <1>1
<1>3. QED
  BY <1>2, TraceInvariance, PTL DEF TraceSpec, ScreenshotsSpared

-----------------------------------------------------------------------------
(* The pages of a script.                                                   *)

(* An open page is in #anonymousPages or still to be closed, and never in   *)
(* both.  Once dispose has listed what there was, only late ones come in.   *)
PagesTracked ==
  /\ anonymous \cap toClose = {}
  /\ \A p \in toClose : page[p] \notin {"none", "opening"}
  /\ \A p \in Pages : page[p] = "open" => p \in anonymous \cup toClose
  /\ loop \in {"disposing", "gone"} => \A p \in anonymous : page[p] = "late"

ScriptIInv == TypeOK /\ PagesTracked

LEMMA ScriptInitEstablishes ==
  ASSUME Init PROVE ScriptIInv
BY DEF Init, ScriptIInv, TypeOK, PagesTracked

(* Whatever is delivered, a command is somewhere on its way.                *)
LEMMA DeliveredType ==
  ASSUME TypeOK
  PROVE  Delivered \in [Commands -> Pending \cup {"unsent", "over", "known"}]
<1>1. ASSUME NEW c \in Commands PROVE Delivered[c] \in {"read", "known", command[c]}
  BY DEF Delivered
<1>2. Delivered = [c \in Commands |-> Delivered[c]]
  BY DEF Delivered
<1>3. QED
  BY <1>1, <1>2 DEF TypeOK, Pending, Kinds

(* The guest, and the host's loop up to its end, leave the pages alone, but *)
(* for those the guest asks for.                                            *)
LEMMA GuestStepKeeps ==
  ASSUME ScriptIInv, GuestStep \/ TimesUp PROVE ScriptIInv'
<1>1. ASSUME NEW how \in {"done", "failed"}, Settle(how) PROVE ScriptIInv'
  BY <1>1 DEF ScriptIInv, TypeOK, PagesTracked, Settle, pageVars
<1>2. ASSUME NEW c \in Commands, Send(c) \/ Answer(c) PROVE ScriptIInv'
  BY <1>2 DEF ScriptIInv, TypeOK, PagesTracked, Send, Answer, Pending, Kinds, guestVars, pageVars
<1>3. ASSUME NEW p \in Pages, AskForPage(p) PROVE ScriptIInv'
  BY <1>3 DEF ScriptIInv, TypeOK, PagesTracked, AskForPage, guestVars
<1>4. ASSUME ClearTimer PROVE ScriptIInv'
  BY <1>4 DEF ScriptIInv, TypeOK, PagesTracked, ClearTimer, pageVars
<1>5. QED
  BY <1>1, <1>2, <1>3, <1>4 DEF GuestStep, ScriptEnds, TimesUp

LEMMA CommandKeeps ==
  ASSUME ScriptIInv, NEW c \in Commands, Pose(c) \/ CommandEnds(c) PROVE ScriptIInv'
<1>1. error' \in BOOLEAN
  BY DEF ScriptIInv, TypeOK, Pose, CommandEnds
<1>2. command' \in [Commands -> Pending \cup {"unsent", "over", "known"}]
  BY DEF ScriptIInv, TypeOK, Pose, CommandEnds, Pending
<1>3. UNCHANGED <<guestVars, loop, raced, pageVars>>
  BY DEF Pose, CommandEnds
<1>4. QED
  BY <1>1, <1>2, <1>3 DEF ScriptIInv, TypeOK, PagesTracked, guestVars, pageVars

LEMMA BrowserKeeps ==
  ASSUME ScriptIInv, NEW p \in Pages, PageOpens(p) \/ PageGoes(p) PROVE ScriptIInv'
<1>1. CASE PageOpens(p)
  <2>1. TypeOK'
    BY <1>1 DEF ScriptIInv, TypeOK, PageOpens, guestVars
  <2>2. PagesTracked'
    BY <1>1 DEF ScriptIInv, TypeOK, PagesTracked, PageOpens
  <2>3. QED
    BY <2>1, <2>2 DEF ScriptIInv
<1>2. CASE PageGoes(p)
  BY <1>2 DEF ScriptIInv, TypeOK, PagesTracked, PageGoes, guestVars
<1>3. QED
  BY <1>1, <1>2

LEMMA LoopKeeps ==
  ASSUME ScriptIInv, Turn \/ RaceOver \/ NextTurn PROVE ScriptIInv'
<1>1. CASE Turn
  BY <1>1, DeliveredType DEF ScriptIInv, TypeOK, PagesTracked, Turn, pageVars
<1>2. CASE RaceOver
  BY <1>2, DeliveredType DEF ScriptIInv, TypeOK, PagesTracked, RaceOver, guestVars, pageVars
<1>3. CASE NextTurn
  BY <1>3 DEF ScriptIInv, TypeOK, PagesTracked, NextTurn, guestVars, pageVars
<1>4. QED
  BY <1>1, <1>2, <1>3

(* Leaving the loop and disposing move every page that is open from one     *)
(* list to the other.                                                       *)
LEMMA ListingKeeps ==
  ASSUME ScriptIInv, LeaveLoop \/ DrainThrows \/ Dispose PROVE ScriptIInv'
<1>1. toClose = {} /\ ListPagesToClose /\ UNCHANGED page /\ loop' \in {"closing", "disposing"}
  BY DEF ScriptIInv, TypeOK, LeaveLoop, Leave, DrainThrows, Dispose
<1>2. command' \in {command, Delivered} /\ UNCHANGED <<guestVars, error>> /\ raced' = {}
  BY DEF ScriptIInv, TypeOK, LeaveLoop, Leave, DrainThrows, Dispose
<1>3. TypeOK'
  BY <1>1, <1>2, DeliveredType DEF ScriptIInv, TypeOK, ListPagesToClose, guestVars
<1>4. PagesTracked'
  BY <1>1 DEF ScriptIInv, TypeOK, PagesTracked, ListPagesToClose
<1>5. QED
  BY <1>3, <1>4 DEF ScriptIInv

(* A page that is taken off the list has been closed, or is known to be     *)
(* left; giving up leaves all that are on it.                               *)
LEMMA ClosingKeeps ==
  ASSUME ScriptIInv, NEW p \in Pages, Close(p) \/ CloseFails(p) PROVE ScriptIInv'
<1>1. CASE Close(p)
  BY <1>1 DEF ScriptIInv, TypeOK, PagesTracked, Close, guestVars
<1>2. CASE CloseFails(p)
  <2> DEFINE given == IF loop = "closing" THEN toClose ELSE {p}
  <2>1. /\ page' = [q \in Pages |-> IF q \in given /\ page[q] # "closed" THEN "left" ELSE page[q]]
        /\ toClose' = toClose \ given
        /\ UNCHANGED <<guestVars, loop, command, raced, error, anonymous>>
    BY <1>2 DEF CloseFails
  <2>2. given \subseteq toClose
    BY <1>2 DEF CloseFails
  <2>3. \A q \in anonymous : page'[q] = page[q]
    BY <2>1, <2>2 DEF ScriptIInv, TypeOK, PagesTracked
  <2> HIDE DEF given
  <2>4. TypeOK'
    BY <2>1, <2>2, <2>3 DEF ScriptIInv, TypeOK, guestVars
  <2>5. PagesTracked'
    BY <2>1, <2>2, <2>3 DEF ScriptIInv, TypeOK, PagesTracked
  <2>6. QED
    BY <2>4, <2>5 DEF ScriptIInv
<1>3. QED
  BY <1>1, <1>2

LEMMA ScriptNextKeeps ==
  ASSUME ScriptIInv, [Next]_vars PROVE ScriptIInv'
<1>1. CASE UNCHANGED vars
  BY <1>1 DEF ScriptIInv, TypeOK, PagesTracked, vars, guestVars, pageVars
<1>2. CASE Disposed
  BY <1>2 DEF ScriptIInv, TypeOK, PagesTracked, Disposed, guestVars, pageVars
<1>3. QED
  BY <1>1, <1>2, GuestStepKeeps, CommandKeeps, BrowserKeeps, LoopKeeps, ListingKeeps, ClosingKeeps
     DEF Next, HostStep

(* The inductive invariant of the run of a script.                          *)
THEOREM ScriptInvariance == Spec => []ScriptIInv
<1>1. Init => ScriptIInv
  BY ScriptInitEstablishes
<1>2. ScriptIInv /\ [Next]_vars => ScriptIInv'
  BY ScriptNextKeeps
<1>3. QED
  BY <1>1, <1>2, PTL DEF Spec

(* The type invariant, which says that commands are raced only while the    *)
(* loop waits for them, and that pages are listed for closing only when the *)
(* loop is over.                                                            *)
THEOREM ScriptTypeCorrect == Spec => []TypeOK
<1>1. ScriptIInv => TypeOK
  BY DEF ScriptIInv
<1>2. QED
  BY <1>1, ScriptInvariance, PTL

(* When the sandbox of a script is gone, so are the pages it opened, but    *)
(* for those that opened after dispose had listed them and for those left   *)
(* by a closing that failed: in dispose the one page, in executeScript that *)
(* page and all not tried yet, of which dispose knows nothing any more.     *)
(* (#cleanupAnonymousPages, quickjs-sandbox.ts:731-757)                     *)
THEOREM NoPageIsLeft == Spec => []NoPageLeftBehind
<1>1. ScriptIInv => NoPageLeftBehind
  BY DEF ScriptIInv, TypeOK, PagesTracked, NoPageLeftBehind
<1>2. QED
  BY <1>1, ScriptInvariance, PTL
=============================================================================
