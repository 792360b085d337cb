---------------------------- MODULE WaitEngineProofs ----------------------------
(***************************************************************************)
(* Proofs about inputs that wait for their effects, for any number of       *)
(* actions on a page and of requests.  The argument for what an attempt has *)
(* noticed: as long as it may still look, either its capture is in the      *)
(* document or the document it was in has been replaced, which it has       *)
(* noticed (Evidence).  For the setters: the manager's never lie on one     *)
(* another (Apart), so what is below them is the page's.  For `settled': an *)
(* attempt counts the requests that it saw begin, as long as no other was   *)
(* counted off (Counts).  Evidence is also what the refinement of           *)
(* ObservedInputs comes down to.                                            *)
(***************************************************************************)
EXTENDS WaitEngine, FiniteSetTheorems, SequenceTheorems, TLAPS

Evidence ==
  ~closed => \A a \in Actions :
    /\ a \in did => a \in noticed \/ (a \in undrained /\ pc[a] \in Watching)
    /\ pc[a] \in Watching => a \in captures \/ a \in noticed

Apart == \A n \in 1..Len(setters)-1 : ~(setters[n] = "ours" /\ setters[n+1] = "ours")

Counts ==
  \A a \in Actions :
    /\ inFlight[a] \in Nat /\ inFlight[a] <= Cardinality(open)
    /\ a \notin strays => inFlight[a] = Cardinality(begun[a])
    /\ a \notin Counting => inFlight[a] = 0 /\ begun[a] = {}

(* An action that is over has no attempts.                                  *)
Fresh == \A a \in Actions : pc[a] = "idle" => attempt[a] = 0

IInv == TypeOK /\ Evidence /\ Apart /\ NothingLeftBehind /\ Counts /\ Fresh

-----------------------------------------------------------------------------
(* Parts of steps.                                                          *)

(* Counting nothing is counting right.                                      *)
LEMMA CountingNothing ==
  ASSUME IInv, NEW a \in Actions, CountsNothing(a), UNCHANGED open,
         \A b \in Actions : b # a => pc'[b] = pc[b]
  PROVE  /\ polls' \in [Actions -> 0..2]
         /\ moved' \subseteq Actions /\ strays' \subseteq Actions
         /\ inFlight' \in [Actions -> 0..Cardinality(Requests)]
         /\ begun' \in [Actions -> SUBSET open']
         /\ Counts'
<1>1. IsFiniteSet(open) /\ Cardinality(open) \in Nat /\ Cardinality(Requests) \in Nat
  BY RequestsAssumption, FS_Subset, FS_CardinalityType DEF IInv, TypeOK
<1>2. Cardinality({}) = 0
  BY FS_EmptySet
<1>3. /\ polls' = [polls EXCEPT ![a] = 0] /\ moved' = moved \ {a}
      /\ inFlight' = [inFlight EXCEPT ![a] = 0] /\ begun' = [begun EXCEPT ![a] = {}]
      /\ strays' = strays \ {a} /\ open' = open
  BY DEF CountsNothing
<1>4. /\ polls' \in [Actions -> 0..2]
      /\ moved' \subseteq Actions /\ strays' \subseteq Actions
      /\ inFlight' \in [Actions -> 0..Cardinality(Requests)]
      /\ begun' \in [Actions -> SUBSET open']
  BY <1>1, <1>3 DEF IInv, TypeOK
<1>5. ASSUME NEW b \in Actions
      PROVE  /\ inFlight'[b] \in Nat /\ inFlight'[b] <= Cardinality(open')
             /\ b \notin strays' => inFlight'[b] = Cardinality(begun'[b])
             /\ b \notin Counting' => inFlight'[b] = 0 /\ begun'[b] = {}
  <2>1. CASE b = a
    BY <1>1, <1>2, <1>3, <2>1 DEF IInv, TypeOK
  <2>2. CASE b # a
    <3>1. inFlight'[b] = inFlight[b] /\ begun'[b] = begun[b] /\ (b \in strays' <=> b \in strays)
      BY <1>3, <2>2 DEF IInv, TypeOK
    <3>2. b \in Counting' <=> b \in Counting
      BY <2>2 DEF Counting
    <3>3. QED
      BY <1>3, <3>1, <3>2 DEF IInv, Counts
  <2>3. QED
    BY <2>1, <2>2
<1>6. QED
  BY <1>4, <1>5 DEF Counts

(* Nothing of the counts changes, and who counts does not either.           *)
LEMMA CountsStay ==
  ASSUME IInv, UNCHANGED <<inFlight, begun, strays, open>>,
         \A b \in Actions : b \in Counting <=> b \in Counting'
  PROVE  Counts'
BY DEF IInv, Counts

-----------------------------------------------------------------------------
(* The steps of an attempt.                                                 *)

LEMMA InitEstablishes ==
  ASSUME Init PROVE IInv
<1>1. Cardinality({}) = 0
  BY FS_EmptySet
<1>2. IsFiniteSet(open) /\ Cardinality(open) \in Nat /\ Cardinality(Requests) \in Nat
  BY RequestsAssumption, FS_Subset, FS_CardinalityType DEF Init
<1>3. setters \in Seq({"ours", "page"}) /\ Len(setters) = 0
  BY EmptySeq DEF Init
<1>4. TypeOK
  <2>1. inFlight \in [Actions -> 0..Cardinality(Requests)] /\ begun \in [Actions -> SUBSET open]
    BY <1>2 DEF Init
  <2>2. polls \in [Actions -> 0..2] /\ attempt \in [Actions -> 0..2]
    BY DEF Init
  <2>3. QED
    BY <1>3, <2>1, <2>2 DEF Init, TypeOK
<1>5. Evidence /\ Apart /\ NothingLeftBehind /\ Fresh
  BY <1>3 DEF Init, Evidence, Apart, NothingLeftBehind, Fresh, Watching, Waiting
<1>6. Counts
  BY <1>1, <1>2 DEF Init, Counts
<1>7. QED
  BY <1>4, <1>5, <1>6 DEF IInv

(* A new attempt.                                                           *)
LEMMA ListenKeeps ==
  ASSUME IInv, NEW a \in Actions, Begin(a) \/ Repeat(a) PROVE IInv'
<1>1. /\ ~closed /\ pc' = [pc EXCEPT ![a] = "installing"] /\ attempt' = [attempt EXCEPT ![a] = @ + 1]
      /\ late' = late \ {a} /\ noticed' = noticed \ {a} /\ did' = did \ {a} /\ CountsNothing(a)
      /\ UNCHANGED <<open, captures, undrained, setters, closed>>
  BY DEF Begin, Repeat, Listen, Goes, StartsAfresh, documentVars
<1>2. pc[a] \in {"idle", "deciding"} /\ attempt[a] \in 0..1
  BY DEF IInv, TypeOK, Fresh, Begin, Repeat, MayRepeat
<1>3. \A b \in Actions : b # a => pc'[b] = pc[b]
  BY <1>1 DEF IInv, TypeOK
<1>4. TypeOK' /\ Counts'
  BY <1>1, <1>2, <1>3, CountingNothing DEF IInv, TypeOK
<1>5. Evidence'
  BY <1>1, <1>2 DEF IInv, TypeOK, Evidence, Watching, Waiting
<1>6. Apart' /\ Fresh'
  BY <1>1 DEF IInv, TypeOK, Apart, Fresh
<1>7. NothingLeftBehind'
  BY <1>1, <1>2 DEF IInv, TypeOK, NothingLeftBehind, InPage, Watching, Waiting, Top
<1>8. QED
  BY <1>4, <1>5, <1>6, <1>7 DEF IInv

LEMMA StopKeeps ==
  ASSUME IInv, NEW a \in Actions, Stop(a) PROVE IInv'
<1>1. /\ pc[a] = "deciding" /\ pc' = [pc EXCEPT ![a] = "idle"] /\ attempt' = [attempt EXCEPT ![a] = 0]
      /\ late' = late \ {a} /\ noticed' = noticed \ {a} /\ did' = did \ {a} /\ CountsNothing(a)
      /\ UNCHANGED <<open, captures, undrained, setters, closed>>
  BY DEF Stop, Goes, StartsAfresh, documentVars
<1>2. \A b \in Actions : b # a => pc'[b] = pc[b]
  BY <1>1 DEF IInv, TypeOK
<1>3. TypeOK' /\ Counts'
  BY <1>1, <1>2, CountingNothing DEF IInv, TypeOK
<1>4. Evidence'
  BY <1>1 DEF IInv, TypeOK, Evidence, Watching, Waiting
<1>5. Apart' /\ Fresh'
  BY <1>1 DEF IInv, TypeOK, Apart, Fresh
<1>6. NothingLeftBehind'
  BY <1>1 DEF IInv, TypeOK, NothingLeftBehind, InPage, Watching, Waiting, Top
<1>7. QED
  BY <1>3, <1>4, <1>5, <1>6 DEF IInv

(* The manager's setters go over the page's.                                *)
LEMMA InstallKeeps ==
  ASSUME IInv, NEW a \in Actions, Install(a) PROVE IInv'
<1>1. /\ pc[a] = "installing" /\ pc' = [pc EXCEPT ![a] = "dispatching"]
      /\ captures' = captures \cup {a}
      /\ setters' = IF captures = {} THEN Append(setters, "ours") ELSE setters
      /\ UNCHANGED <<attempt, late, noticed, did, polls, moved, inFlight, begun, strays, open,
                     undrained, closed>>
  BY DEF Install, Goes, evidenceVars, settledVars
<1>2. setters' \in Seq({"ours", "page"}) /\ Apart'
  <2>1. CASE captures # {}
    BY <1>1, <2>1 DEF IInv, TypeOK, Apart
  <2>2. CASE captures = {}
    <3>1. /\ setters \in Seq({"ours", "page"}) /\ setters' = Append(setters, "ours")
          /\ Len(setters) \in Nat /\ setters' \in Seq({"ours", "page"})
          /\ Len(setters') = Len(setters) + 1
          /\ \A n \in 1..Len(setters) : setters'[n] = setters[n]
      BY <1>1, <2>2, LenProperties, AppendProperties DEF IInv, TypeOK
    <3>2. Len(setters) > 0 => setters[Len(setters)] = "page"
      BY <2>2, <3>1, EmptySeq DEF IInv, NothingLeftBehind, Top
    <3>3. QED
      BY <3>1, <3>2 DEF IInv, Apart
  <2>3. QED
    BY <2>1, <2>2
<1>3. TypeOK'
  BY <1>1, <1>2 DEF IInv, TypeOK, InPage, Watching, Waiting
<1>4. Evidence'
  BY <1>1 DEF IInv, TypeOK, Evidence, Watching, Waiting
<1>5. NothingLeftBehind'
  BY <1>1 DEF IInv, TypeOK, NothingLeftBehind, InPage, Watching, Waiting
<1>6. Counts' /\ Fresh'
  BY <1>1, CountsStay DEF IInv, TypeOK, Fresh, Counting, Waiting
<1>7. QED
  BY <1>2, <1>3, <1>4, <1>5, <1>6 DEF IInv

(* The attempt goes on within its wait, or leaves it without having looked. *)
LEMMA WaitKeeps ==
  ASSUME IInv, NEW a \in Actions,
         Dispatched(a) \/ Poll(a) \/ PollsAgain(a) PROVE IInv'
<1>1. PICK step \in {"polling", "observing"} : pc' = [pc EXCEPT ![a] = step]
  BY DEF Dispatched, Poll, PollsAgain, Goes
<1>2. /\ pc[a] \in Waiting
      /\ UNCHANGED <<attempt, did, inFlight, begun, strays, open, captures, setters, closed, late>>
      /\ \/ UNCHANGED <<noticed, undrained>>
         \/ Drained(a)
  BY DEF Dispatched, Poll, PollsAgain, Observes, Waiting, evidenceVars, settledVars, documentVars
<1>3. polls' \in [Actions -> 0..2] /\ moved' \subseteq Actions
  <2>1. polls \in [Actions -> 0..2] /\ moved \subseteq Actions
    BY DEF IInv, TypeOK
  <2>2. QuietPolls(a) \in 0..2
    BY <2>1 DEF QuietPolls
  <2>3. \/ polls' = polls /\ moved' = moved
        \/ polls' \in {polls, [polls EXCEPT ![a] = QuietPolls(a)]} /\ moved' = moved \ {a}
    BY DEF Dispatched, Poll, PollsAgain, settledVars
  <2>4. QED
    BY <2>1, <2>2, <2>3
<1>4. noticed' \subseteq Actions /\ undrained' \subseteq captures
  BY <1>2 DEF IInv, TypeOK, Drained
<1>5. TypeOK'
  BY <1>1, <1>2, <1>3, <1>4 DEF IInv, TypeOK, InPage, Watching, Waiting
<1>6. Evidence'
  BY <1>1, <1>2 DEF IInv, TypeOK, Evidence, Drained, Watching, Waiting
<1>7. Apart' /\ Fresh'
  BY <1>1, <1>2 DEF IInv, TypeOK, Apart, Fresh
<1>8. NothingLeftBehind'
  BY <1>1, <1>2 DEF IInv, TypeOK, NothingLeftBehind, InPage, Watching, Waiting, Top
<1>9. Counts'
  BY <1>1, <1>2, CountsStay DEF IInv, TypeOK, Counting, Waiting
<1>10. QED
  BY <1>5, <1>6, <1>7, <1>8, <1>9 DEF IInv

LEMMA WaitEndsKeeps ==
  ASSUME IInv, NEW a \in Actions,
         InstallFails(a) \/ SettlesQuietly(a) \/ Passes(a) \/ Late(a) \/ Fails(a) PROVE IInv'
<1>1. PICK step \in {"cleaning", "collecting", "leaving"} :
        pc' = [pc EXCEPT ![a] = step] /\ (step = "cleaning" => pc[a] = "installing")
  BY DEF InstallFails, SettlesQuietly, Passes, Late, Fails, Goes
<1>2. /\ pc[a] \in Watching \cup {"installing"}
      /\ step # "cleaning" => pc[a] \in Watching
      /\ CountsNothing(a) /\ late' \in SUBSET Actions
      /\ UNCHANGED <<attempt, noticed, did, open, captures, undrained, setters, closed>>
  BY <1>1 DEF IInv, TypeOK, InstallFails, SettlesQuietly, Passes, Late, Fails, Observes, Goes,
         Watching, Waiting, evidenceVars, documentVars
<1>3. \A b \in Actions : b # a => pc'[b] = pc[b]
  BY <1>1 DEF IInv, TypeOK
<1>4. TypeOK' /\ Counts'
  BY <1>1, <1>2, <1>3, CountingNothing DEF IInv, TypeOK, InPage, Watching, Waiting
<1>5. Evidence'
  BY <1>1, <1>2 DEF IInv, TypeOK, Evidence, Watching, Waiting
<1>6. Apart' /\ Fresh'
  BY <1>1, <1>2 DEF IInv, TypeOK, Apart, Fresh
<1>7. NothingLeftBehind'
  BY <1>1, <1>2 DEF IInv, TypeOK, NothingLeftBehind, InPage, Watching, Waiting, Top
<1>8. QED
  BY <1>4, <1>5, <1>6, <1>7 DEF IInv

LEMMA LeaveKeeps ==
  ASSUME IInv, NEW a \in Actions, Collected(a) \/ Leave(a) PROVE IInv'
<1>1. /\ pc[a] \in {"collecting", "leaving"}
      /\ UNCHANGED <<attempt, late, did, polls, moved, inFlight, begun, strays, open, captures, setters, closed>>
      /\ \/ pc' = [pc EXCEPT ![a] = "leaving"] /\ UNCHANGED <<noticed, undrained>>
         \/ pc' = [pc EXCEPT ![a] = "cleaning"] /\ Drained(a)
  BY DEF Collected, Leave, Goes, evidenceVars, settledVars, documentVars
<1>2. TypeOK'
  BY <1>1 DEF IInv, TypeOK, Drained, InPage, Watching, Waiting
<1>3. Evidence'
  BY <1>1 DEF IInv, TypeOK, Evidence, Drained, Watching, Waiting
<1>4. Apart' /\ Fresh'
  BY <1>1 DEF IInv, TypeOK, Apart, Fresh
<1>5. NothingLeftBehind'
  BY <1>1 DEF IInv, TypeOK, NothingLeftBehind, InPage, Watching, Waiting, Top
<1>6. Counts'
  BY <1>1, CountsStay DEF IInv, TypeOK, Counting, Waiting
<1>7. QED
  BY <1>2, <1>3, <1>4, <1>5, <1>6 DEF IInv

(* Below the manager's setters there are none of its own.                   *)
LEMMA RestoredIsThePages ==
  ASSUME IInv
  PROVE  /\ Restored \in Seq({"ours", "page"})
         /\ \A n \in 1..Len(Restored)-1 : ~(Restored[n] = "ours" /\ Restored[n+1] = "ours")
         /\ Restored # <<>> => Top(Restored) = "page"
         /\ \A n \in DOMAIN setters : setters[n] = "page" => n \in DOMAIN Restored /\ Restored[n] = "page"
<1>1. /\ setters \in Seq({"ours", "page"}) /\ Len(setters) \in Nat /\ DOMAIN setters = 1..Len(setters)
      /\ \A n \in 1..Len(setters) : setters[n] \in {"ours", "page"}
  BY LenProperties, ElementOfSeq DEF IInv, TypeOK
<1>2. CASE setters = <<>>
  BY <1>1, <1>2 DEF Restored, IInv, Apart
<1>3. CASE setters # <<>> /\ Top(setters) # "ours"
  <2>1. Restored = setters /\ Len(setters) > 0
    BY <1>1, <1>3, EmptySeq DEF Restored
  <2>2. QED
    BY <1>1, <1>3, <2>1 DEF IInv, Apart, Top
<1>4. CASE setters # <<>> /\ Top(setters) = "ours"
  <2>1. Restored = SubSeq(setters, 1, Len(setters) - 1) /\ Len(setters) > 0
    BY <1>1, <1>4, EmptySeq DEF Restored
  <2>2. setters[Len(setters)] = "ours"
    BY <1>4 DEF Top
  <2>3. /\ Restored \in Seq({"ours", "page"}) /\ Len(Restored) = Len(setters) - 1
        /\ \A n \in 1..Len(setters)-1 : Restored[n] = setters[n]
    <3>1. \A n \in 1..Len(setters)-1 : setters[n] \in {"ours", "page"}
      BY <1>1
    <3>2. QED
      BY <1>1, <2>1, <3>1, SubSeqProperties
  <2>4. DOMAIN Restored = 1..Len(setters)-1
    BY <2>3, LenProperties
  <2>5. Restored # <<>> => Top(Restored) = "page"
    <3>1. SUFFICES ASSUME Restored # <<>> PROVE Top(Restored) = "page"
      OBVIOUS
    <3>2. Len(setters) - 1 > 0
      BY <1>1, <2>3, <3>1, EmptySeq
    <3>3. setters[Len(setters) - 1] # "ours"
      BY <1>1, <2>2, <3>2 DEF IInv, Apart
    <3>4. QED
      BY <1>1, <2>3, <3>2, <3>3 DEF Top
  <2>6. QED
    BY <1>1, <2>2, <2>3, <2>4, <2>5 DEF IInv, Apart
<1>5. QED
  BY <1>2, <1>3, <1>4

LEMMA CleanUpKeeps ==
  ASSUME IInv, NEW a \in Actions, CleanUp(a) PROVE IInv'
<1>1. /\ pc[a] = "cleaning" /\ pc' = [pc EXCEPT ![a] = "deciding"]
      /\ captures' = captures \ {a} /\ undrained' = undrained \ {a}
      /\ setters' = IF captures = {a} THEN Restored ELSE setters
      /\ UNCHANGED <<attempt, late, noticed, did, polls, moved, inFlight, begun, strays, open, closed>>
  BY DEF CleanUp, Goes, evidenceVars, settledVars
<1>2. setters' \in Seq({"ours", "page"}) /\ Apart'
  BY <1>1, RestoredIsThePages DEF IInv, TypeOK, Apart
<1>3. TypeOK'
  BY <1>1, <1>2 DEF IInv, TypeOK
<1>4. Evidence'
  BY <1>1 DEF IInv, TypeOK, Evidence, Watching, Waiting
<1>5. NothingLeftBehind'
  <2>1. \A b \in captures' : pc'[b] \in InPage
    BY <1>1 DEF IInv, TypeOK, NothingLeftBehind
  <2>2. captures' = {} => captures = {} \/ captures = {a}
    BY <1>1
  <2>3. CASE captures = {a}
    BY <1>1, <2>1, <2>3, RestoredIsThePages DEF NothingLeftBehind
  <2>4. CASE captures # {a}
    BY <1>1, <2>1, <2>2, <2>4 DEF IInv, NothingLeftBehind, Top
  <2>5. QED
    BY <2>3, <2>4
<1>6. Counts' /\ Fresh'
  BY <1>1, CountsStay DEF IInv, TypeOK, Fresh, Counting, Waiting
<1>7. QED
  BY <1>2, <1>3, <1>4, <1>5, <1>6 DEF IInv

-----------------------------------------------------------------------------
(* The steps of the page.                                                   *)

LEMMA DocumentKeeps ==
  ASSUME IInv, DocumentChanges \/ Navigates \/ PageCloses PROVE IInv'
<1>1. UNCHANGED <<pc, attempt, late, polls, inFlight, begun, strays, open>>
  BY DEF DocumentChanges, Navigates, PageCloses, attemptVars, settledVars
<1>2. /\ moved' \subseteq Actions /\ did' \subseteq Actions /\ noticed' \subseteq Actions
      /\ closed' \in BOOLEAN
  <2>1. moved \subseteq Actions /\ did \subseteq Actions /\ noticed \subseteq Actions /\ closed \in BOOLEAN
    BY DEF IInv, TypeOK
  <2>2. Changes => moved' \subseteq Actions
    BY <2>1, SettlingAssumption DEF Changes
  <2>3. Happens => did' \subseteq Actions
    BY <2>1 DEF Happens
  <2>4. CASE DocumentChanges
    BY <2>1, <2>2, <2>3, <2>4 DEF DocumentChanges
  <2>5. CASE Navigates
    BY <2>1, <2>2, <2>3, <2>5 DEF Navigates, Listening
  <2>6. CASE PageCloses
    BY <2>1, <2>6 DEF PageCloses, evidenceVars, settledVars
  <2>7. QED
    BY <2>4, <2>5, <2>6
<1>3. /\ \/ captures' = captures /\ setters' = setters
         \/ captures' = {} /\ setters' = <<>>
      /\ undrained' \subseteq captures'
  BY DEF DocumentChanges, Navigates, PageCloses
<1>4. TypeOK'
  BY <1>1, <1>2, <1>3, EmptySeq DEF IInv, TypeOK
<1>5. Evidence'
  <2>1. CASE DocumentChanges
    BY <2>1 DEF IInv, TypeOK, Evidence, DocumentChanges, Happens, attemptVars
  <2>2. CASE Navigates
    BY <2>2 DEF IInv, TypeOK, Evidence, Navigates, Happens, Listening, InPage, attemptVars
  <2>3. CASE PageCloses
    BY <2>3 DEF Evidence, PageCloses
  <2>4. QED
    BY <2>1, <2>2, <2>3
<1>6. Apart' /\ NothingLeftBehind'
  <2>1. Len(<<>>) = 0
    BY EmptySeq
  <2>2. QED
    BY <1>1, <1>3, <2>1 DEF IInv, Apart, NothingLeftBehind, Top
<1>7. Counts' /\ Fresh'
  BY <1>1, CountsStay DEF IInv, Fresh, Counting
<1>8. QED
  BY <1>4, <1>5, <1>6, <1>7 DEF IInv

LEMMA PagePatchesKeeps ==
  ASSUME IInv, PagePatches PROVE IInv'
<1>1. /\ setters' = Append(setters, "page")
      /\ UNCHANGED <<pc, attempt, late, noticed, did, polls, moved, inFlight, begun, strays, open,
                     captures, undrained, closed>>
  BY DEF PagePatches, attemptVars, evidenceVars, settledVars
<1>2. /\ setters \in Seq({"ours", "page"}) /\ Len(setters) \in Nat
      /\ setters' \in Seq({"ours", "page"}) /\ Len(setters') = Len(setters) + 1
      /\ \A n \in 1..Len(setters) : setters'[n] = setters[n]
      /\ setters'[Len(setters')] = "page"
  BY <1>1, LenProperties, AppendProperties DEF IInv, TypeOK
<1>3. TypeOK'
  BY <1>1, <1>2 DEF IInv, TypeOK
<1>4. Apart'
  BY <1>2 DEF IInv, Apart
<1>5. Evidence' /\ NothingLeftBehind' /\ Fresh'
  BY <1>1, <1>2 DEF IInv, Evidence, NothingLeftBehind, Fresh, Top
<1>6. Counts'
  BY <1>1, CountsStay DEF Counting
<1>7. QED
  BY <1>3, <1>4, <1>5, <1>6 DEF IInv

LEMMA RequestBeginsKeeps ==
  ASSUME IInv, NEW r \in Requests, RequestBegins(r) PROVE IInv'
<1>1. /\ r \notin open /\ open' = open \cup {r} /\ ~closed
      /\ did' = did \cup {a \in Actions : pc[a] \in Watching}
      /\ noticed' = noticed \cup Listening
      /\ inFlight' = [a \in Actions |-> inFlight[a] + IF a \in Counting THEN 1 ELSE 0]
      /\ begun' = [a \in Actions |-> begun[a] \cup IF a \in Counting THEN {r} ELSE {}]
      /\ UNCHANGED <<pc, attempt, late, polls, moved, strays, captures, undrained, setters, closed>>
  BY DEF RequestBegins, Happens, attemptVars, documentVars
<1>2. /\ IsFiniteSet(open) /\ Cardinality(open) \in Nat /\ Cardinality(Requests) \in Nat
      /\ Cardinality(open') = Cardinality(open) + 1 /\ Cardinality(open') <= Cardinality(Requests)
  <2>1. IsFiniteSet(open) /\ open' \subseteq Requests
    BY <1>1, RequestsAssumption, FS_Subset DEF IInv, TypeOK
  <2>2. QED
    BY <1>1, <2>1, RequestsAssumption, FS_Subset, FS_CardinalityType, FS_AddElement
<1>3. Counts'
  <2>1. SUFFICES ASSUME NEW a \in Actions
                 PROVE  /\ inFlight'[a] \in Nat /\ inFlight'[a] <= Cardinality(open')
                        /\ a \notin strays' => inFlight'[a] = Cardinality(begun'[a])
                        /\ a \notin Counting' => inFlight'[a] = 0 /\ begun'[a] = {}
    BY DEF Counts
  <2>2. Counting' = Counting
    BY <1>1 DEF Counting
  <2>3. r \notin begun[a] /\ IsFiniteSet(begun[a])
    BY <1>1, <1>2, FS_Subset DEF IInv, TypeOK
  <2>4. Cardinality(begun[a] \cup {r}) = Cardinality(begun[a]) + 1
    BY <2>3, FS_AddElement
  <2>5. CASE a \in Counting
    BY <1>1, <1>2, <2>2, <2>4, <2>5 DEF IInv, Counts
  <2>6. CASE a \notin Counting
    BY <1>1, <1>2, <2>2, <2>6 DEF IInv, Counts
  <2>7. QED
    BY <2>5, <2>6
<1>4. TypeOK'
  <2>1. \A a \in Actions : inFlight'[a] \in 0..Cardinality(Requests)
    BY <1>2, <1>3 DEF Counts
  <2>2. inFlight' \in [Actions -> 0..Cardinality(Requests)]
    BY <1>1, <2>1
  <2>3. begun' \in [Actions -> SUBSET open']
    BY <1>1 DEF IInv, TypeOK
  <2>4. QED
    BY <1>1, <2>2, <2>3 DEF IInv, TypeOK, Listening
<1>5. Evidence'
  BY <1>1 DEF IInv, TypeOK, Evidence, Listening, InPage
<1>6. Apart' /\ NothingLeftBehind' /\ Fresh'
  BY <1>1 DEF IInv, Apart, NothingLeftBehind, Fresh, Top
<1>7. QED
  BY <1>3, <1>4, <1>5, <1>6 DEF IInv

LEMMA RequestEndsKeeps ==
  ASSUME IInv, NEW r \in Requests, RequestEnds(r) PROVE IInv'
<1>1. /\ r \in open /\ open' = open \ {r}
      /\ inFlight' = [a \in Actions |-> CountedOff(a)]
      /\ begun' = [a \in Actions |-> begun[a] \ {r}]
      /\ strays' = strays \cup {a \in Counting : r \notin begun[a] /\ inFlight[a] > 0}
      /\ UNCHANGED <<pc, attempt, late, noticed, did, polls, moved, captures, undrained, setters, closed>>
  BY DEF RequestEnds, attemptVars, evidenceVars, documentVars
<1>2. /\ IsFiniteSet(open) /\ Cardinality(open) \in Nat /\ Cardinality(Requests) \in Nat
      /\ Cardinality(open') = Cardinality(open) - 1 /\ Cardinality(open) <= Cardinality(Requests)
      /\ Cardinality(open') \in Nat
  <2>1. IsFiniteSet(open) /\ open \subseteq Requests
    BY RequestsAssumption, FS_Subset DEF IInv, TypeOK
  <2>2. Cardinality(open') = Cardinality(open) - 1 /\ IsFiniteSet(open')
    BY <1>1, <2>1, FS_RemoveElement
  <2>3. QED
    BY <2>1, <2>2, RequestsAssumption, FS_Subset, FS_CardinalityType
<1>3. Counts'
  <2>1. SUFFICES ASSUME NEW a \in Actions
                 PROVE  /\ inFlight'[a] \in Nat /\ inFlight'[a] <= Cardinality(open')
                        /\ a \notin strays' => inFlight'[a] = Cardinality(begun'[a])
                        /\ a \notin Counting' => inFlight'[a] = 0 /\ begun'[a] = {}
    BY DEF Counts
  <2>2. Counting' = Counting
    BY <1>1 DEF Counting
  <2>3. /\ inFlight[a] \in Nat /\ inFlight[a] <= Cardinality(open)
        /\ inFlight'[a] = IF inFlight[a] = 0 THEN 0 ELSE inFlight[a] - 1
    BY <1>1 DEF IInv, Counts, CountedOff
  <2>4. inFlight'[a] \in Nat /\ inFlight'[a] <= Cardinality(open')
    BY <1>2, <2>3
  <2>5. ASSUME a \notin strays' PROVE inFlight'[a] = Cardinality(begun'[a])
    <3>1. a \notin strays /\ inFlight[a] = Cardinality(begun[a]) /\ begun'[a] = begun[a] \ {r}
      BY <1>1, <2>5 DEF IInv, Counts
    <3>2. IsFiniteSet(begun[a]) /\ Cardinality(begun[a]) \in Nat
      BY <1>2, FS_Subset, FS_CardinalityType DEF IInv, TypeOK
    <3>3. CASE r \in begun[a]
      <4>1. Cardinality(begun'[a]) = Cardinality(begun[a]) - 1 /\ Cardinality(begun'[a]) \in Nat
        BY <3>1, <3>2, <3>3, FS_RemoveElement, FS_CardinalityType
      <4>2. QED
        BY <2>3, <3>1, <3>2, <4>1
    <3>4. CASE r \notin begun[a]
      <4>1. begun'[a] = begun[a]
        BY <3>1, <3>4
      <4>2. a \notin Counting \/ ~(inFlight[a] > 0)
        BY <1>1, <2>5, <3>4
      <4>3. inFlight[a] = 0
        BY <2>3, <4>2 DEF IInv, Counts
      <4>4. QED
        BY <2>3, <3>1, <4>1, <4>3
    <3>5. QED
      BY <3>3, <3>4
  <2>6. a \notin Counting' => inFlight'[a] = 0 /\ begun'[a] = {}
    BY <1>1, <2>2, <2>3 DEF IInv, Counts
  <2>7. QED
    BY <2>4, <2>5, <2>6
<1>4. TypeOK'
  <2>1. \A a \in Actions : inFlight'[a] \in 0..Cardinality(Requests)
    BY <1>2, <1>3 DEF Counts
  <2>2. inFlight' \in [Actions -> 0..Cardinality(Requests)]
    BY <1>1, <2>1
  <2>3. begun' \in [Actions -> SUBSET open']
    BY <1>1 DEF IInv, TypeOK
  <2>4. open' \subseteq Requests /\ strays' \subseteq Actions
    BY <1>1, SettlingAssumption DEF IInv, TypeOK, Counting
  <2>5. QED
    BY <1>1, <2>2, <2>3, <2>4 DEF IInv, TypeOK
<1>5. Evidence' /\ Apart' /\ NothingLeftBehind' /\ Fresh'
  BY <1>1 DEF IInv, Evidence, Apart, NothingLeftBehind, Fresh, Top
<1>6. QED
  BY <1>3, <1>4, <1>5 DEF IInv

LEMMA NextKeeps ==
  ASSUME IInv, [Next]_vars PROVE IInv'
<1>1. ASSUME NEW a \in Actions, Begin(a) \/ Step(a) PROVE IInv'
  BY <1>1, ListenKeeps, StopKeeps, InstallKeeps, WaitKeeps, WaitEndsKeeps, LeaveKeeps, CleanUpKeeps
     DEF Step
<1>2. CASE Page
  BY <1>2, DocumentKeeps, PagePatchesKeeps, RequestBeginsKeeps, RequestEndsKeeps DEF Page
<1>3. CASE UNCHANGED vars
  <2>1. UNCHANGED <<pc, attempt, late, noticed, did, polls, moved, inFlight, begun, strays, open,
                    captures, undrained, setters, closed>>
    BY <1>3 DEF vars, attemptVars, evidenceVars, settledVars, documentVars
  <2>2. Counts'
    BY <2>1, CountsStay DEF Counting
  <2>3. QED
    BY <2>1, <2>2 DEF IInv, TypeOK, Evidence, Apart, NothingLeftBehind, Fresh, Top
<1>4. QED
  BY <1>1, <1>2, <1>3 DEF Next

-----------------------------------------------------------------------------
(* The inductive invariant holds in every reachable state.                  *)
THEOREM WaitInvariance == Spec => []IInv
<1>1. Init => IInv
  BY InitEstablishes
<1>2. IInv /\ [Next]_vars => IInv'
  BY NextKeeps
<1>3. QED
  BY <1>1, <1>2, PTL DEF Spec

(* The type invariant.                                                      *)
THEOREM WaitTypeCorrect == Spec => []TypeOK
<1>1. IInv => TypeOK
  BY DEF IInv
<1>2. QED
  BY <1>1, WaitInvariance, PTL

(* Whatever happened after an attempt's dispatch is in its events.          *)
(* (wait-engine.ts:504-720 and 1132-1146)                                   *)
THEOREM EverythingIsNoticed == Spec => []NothingUnnoticed
<1>1. IInv => NothingUnnoticed
  BY DEF IInv, TypeOK, Evidence, NothingUnnoticed, Watching, Waiting
<1>2. QED
  BY <1>1, WaitInvariance, PTL

(* When nobody waits the manager and its setters are gone.                  *)
(* (wait-engine.ts:596-615)                                                 *)
THEOREM DocumentsAreLeftClean == Spec => []NothingLeftBehind
<1>1. IInv => NothingLeftBehind
  BY DEF IInv
<1>2. QED
  BY <1>1, WaitInvariance, PTL

(* A safe retry repeats no input after which anything happened.             *)
(* (retry-policy.ts:44-67)                                                  *)
THEOREM SafeRetriesAreSafe == Spec => SafeRetriesOnly
<1>1. ASSUME IInv, Next, NEW a \in Actions, attempt[a] = 1, attempt'[a] = 2, Policy[a] = "safe"
      PROVE  a \notin did
  <2>1. PICK b \in Actions : Begin(b) \/ Repeat(b) \/ Stop(b)
    BY <1>1 DEF Next, Page, Step, Install, InstallFails, Dispatched, Poll, SettlesQuietly, Passes, Late,
                PollsAgain, Observes, Collected, Fails, Leave, CleanUp, DocumentChanges, Navigates,
                PagePatches, PageCloses, RequestBegins, RequestEnds, attemptVars
  <2>2. b = a
    BY <1>1, <2>1 DEF IInv, TypeOK, Begin, Repeat, Listen, Stop
  <2>3. Repeat(a)
    BY <1>1, <2>1, <2>2 DEF IInv, TypeOK, Fresh, Begin, Stop
  <2>4. pc[a] = "deciding" /\ ~closed /\ a \notin noticed
    BY <1>1, <2>3 DEF Repeat, Listen, MayRepeat
  <2>5. QED
    BY <1>1, <2>4 DEF IInv, Evidence, Watching, Waiting
<1>2. IInv /\ [Next]_vars =>
        [\A a \in Actions :
           attempt[a] = 1 /\ attempt'[a] = 2 /\ Policy[a] = "safe" => a \notin did]_vars
  BY <1>1
<1>3. QED
  BY <1>2, WaitInvariance, PTL DEF Spec, SafeRetriesOnly

(* Setters of the page are never undone.  (wait-engine.ts:578-595)          *)
THEOREM SettersOfThePageStay == Spec => PageSettersStay
<1>1. ASSUME IInv, Next, NEW n \in DOMAIN setters, setters[n] = "page"
      PROVE  Navigates \/ PageCloses \/ (n \in DOMAIN setters' /\ setters'[n] = "page")
  <2>1. /\ setters \in Seq({"ours", "page"}) /\ Len(setters) \in Nat /\ n \in 1..Len(setters)
    BY <1>1, LenProperties DEF IInv, TypeOK
  <2>2. ASSUME NEW e \in {"ours", "page"}, setters' = Append(setters, e)
        PROVE  n \in DOMAIN setters' /\ setters'[n] = "page"
    <3>1. /\ setters' \in Seq({"ours", "page"}) /\ Len(setters') = Len(setters) + 1
          /\ \A m \in 1..Len(setters) : setters'[m] = setters[m]
      BY <2>1, <2>2, AppendProperties
    <3>2. QED
      BY <1>1, <2>1, <3>1, LenProperties
  <2>3. ASSUME NEW a \in Actions, CleanUp(a) PROVE n \in DOMAIN setters' /\ setters'[n] = "page"
    BY <1>1, <2>3, RestoredIsThePages DEF CleanUp
  <2>4. \/ setters' = setters \/ Navigates \/ PageCloses
        \/ \E e \in {"ours", "page"} : setters' = Append(setters, e)
        \/ \E a \in Actions : CleanUp(a)
    BY <1>1 DEF Next, Page, Step, Begin, Repeat, Stop, Listen, Install, InstallFails, Dispatched, Poll,
                SettlesQuietly, Passes, Late, PollsAgain, Observes, Collected, Fails, Leave,
                DocumentChanges, PagePatches, RequestBegins, RequestEnds, documentVars
  <2>5. QED
    BY <1>1, <2>2, <2>3, <2>4
<1>2. IInv /\ [Next]_vars =>
        [\A n \in DOMAIN setters : setters[n] = "page" =>
           \/ Navigates
           \/ PageCloses
           \/ n \in DOMAIN setters' /\ setters'[n] = "page"]_vars
  BY <1>1
<1>3. QED
  BY <1>2, WaitInvariance, PTL DEF Spec, PageSettersStay

(* A wait settles quietly with none of its requests open, unless the end of *)
(* an older one was counted off.  (wait-engine.ts:856-864 and 890-908)      *)
THEOREM QuietWaitsAreQuiet == Spec => QuietUnlessStray
<1>1. ASSUME IInv, NEW a \in Actions, SettlesQuietly(a), a \notin strays
      PROVE  begun[a] = {}
  <2>1. Cardinality(begun[a]) = 0
    BY <1>1 DEF IInv, Counts, SettlesQuietly, Quietly
  <2>2. IsFiniteSet(begun[a])
    BY <1>1, RequestsAssumption, FS_Subset DEF IInv, TypeOK
  <2>3. QED
    BY <2>1, <2>2, FS_EmptySet
<1>2. IInv /\ [Next]_vars =>
        [\A a \in Actions :
           pc[a] = "observing" /\ SettlesQuietly(a) => begun[a] = {} \/ a \in strays]_vars
  BY <1>1
<1>3. QED
  BY <1>2, WaitInvariance, PTL DEF Spec, QuietUnlessStray
-----------------------------------------------------------------------------
(* How attempts look to ObservedInputs.                                     *)

Phase == [a \in Actions |-> IF pc[a] = "idle" THEN "idle"
                            ELSE IF pc[a] = "installing" THEN "starting"
                            ELSE IF pc[a] \in Watching THEN "watching" ELSE "over"]
Found == {a \in Actions : a \in noticed \/ (a \in undrained /\ pc[a] \in Watching)}

LEMMA PhaseOfOne ==
  ASSUME IInv, NEW a \in Actions, NEW step, Goes(a, step)
  PROVE  /\ \A b \in Actions : b # a => pc'[b] = pc[b]
         /\ pc'[a] = step
         /\ step = "installing" => Phase' = [Phase EXCEPT ![a] = "starting"]
         /\ step = "idle" => Phase' = [Phase EXCEPT ![a] = "idle"]
         /\ step \in Watching => Phase' = [Phase EXCEPT ![a] = "watching"]
         /\ step \in {"cleaning", "deciding"} => Phase' = [Phase EXCEPT ![a] = "over"]
<1>1. pc' = [pc EXCEPT ![a] = step] /\ pc \in [Actions -> InPage \cup {"idle", "installing", "deciding"}]
  BY DEF Goes, IInv, TypeOK
<1>2. {"idle", "installing", "cleaning", "deciding"} \cap Watching = {}
  BY DEF Watching, Waiting
<1>3. QED
  BY <1>1, <1>2 DEF Phase

LEMMA ListensAfresh ==
  ASSUME IInv, NEW a \in Actions, Listen(a)
  PROVE  Promise!Start(a)
<1>1. /\ ~closed /\ Goes(a, "installing") /\ attempt' = [attempt EXCEPT ![a] = @ + 1]
      /\ late' = late \ {a} /\ noticed' = noticed \ {a} /\ did' = did \ {a}
      /\ UNCHANGED <<undrained, closed>>
  BY DEF Listen, StartsAfresh, documentVars
<1>2. Phase' = [Phase EXCEPT ![a] = "starting"]
  BY <1>1, PhaseOfOne
<1>3. pc'[a] \notin Watching /\ \A b \in Actions : b # a => pc'[b] = pc[b]
  BY <1>1, PhaseOfOne DEF Watching, Waiting
<1>4. Found' = Found \ {a}
  BY <1>1, <1>3 DEF Found
<1>5. QED
  BY <1>1, <1>2, <1>4 DEF Promise!Start, Promise!Enters, Promise!Forgets, Phase, Found

(* An attempt that goes on looking, or that is over, goes on unnoticed.     *)
LEMMA GoingIsNothing ==
  ASSUME IInv, NEW a \in Actions,
         \/ Dispatched(a) \/ Poll(a) \/ SettlesQuietly(a) \/ Passes(a) \/ PollsAgain(a)
         \/ Collected(a) \/ Fails(a) \/ CleanUp(a)
  PROVE  UNCHANGED Promise!absVars
<1>1. UNCHANGED <<attempt, late, did, closed>>
  BY DEF Dispatched, Poll, SettlesQuietly, Passes, PollsAgain, Observes, Collected, Fails, CleanUp,
         evidenceVars
<1>2. CASE CleanUp(a)
  <2>1. pc[a] = "cleaning" /\ Goes(a, "deciding") /\ undrained' = undrained \ {a} /\ noticed' = noticed
    BY <1>2 DEF CleanUp, evidenceVars
  <2>2. Phase[a] = "over" /\ pc[a] \notin Watching /\ pc'[a] \notin Watching
    BY <2>1, PhaseOfOne DEF Phase, Watching, Waiting
  <2>3. Phase' = Phase
    BY <2>1, <2>2, PhaseOfOne DEF Phase
  <2>4. Found' = Found
    BY <2>1, <2>2, PhaseOfOne DEF Found
  <2>5. QED
    BY <1>1, <2>3, <2>4 DEF Promise!absVars, Phase, Found
<1>3. CASE ~CleanUp(a)
  <2>1. PICK step \in Watching : pc[a] \in Watching /\ Goes(a, step)
    BY <1>3 DEF Dispatched, Poll, SettlesQuietly, Passes, PollsAgain, Observes, Collected, Fails,
                Watching, Waiting
  <2>2. \/ UNCHANGED <<noticed, undrained>>
        \/ Drained(a)
    BY <1>3 DEF Dispatched, Poll, SettlesQuietly, Passes, PollsAgain, Observes, Collected, Fails,
                evidenceVars, documentVars
  <2>3. Phase[a] = "watching"
    BY <2>1 DEF Phase, Watching, Waiting
  <2>4. Phase' = Phase
    BY <2>1, <2>3, PhaseOfOne DEF Phase
  <2>5. \A b \in Actions : b \in Found' <=> b \in Found
    <3>1. pc'[a] \in Watching /\ \A b \in Actions : b # a => pc'[b] = pc[b]
      BY <2>1, PhaseOfOne
    <3>2. \A b \in Actions : b # a => (b \in noticed' <=> b \in noticed) /\ (b \in undrained' <=> b \in undrained)
      BY <2>2 DEF Drained
    <3>3. a \in noticed' \/ a \in undrained' <=> a \in noticed \/ a \in undrained
      BY <2>2 DEF Drained
    <3>4. QED
      BY <2>1, <3>1, <3>2, <3>3 DEF Found
  <2>6. Found' = Found
    BY <2>5 DEF Found
  <2>7. QED
    BY <1>1, <2>4, <2>6 DEF Promise!absVars, Phase, Found
<1>4. QED
  BY <1>2, <1>3

LEMMA AttemptKeepsPromise ==
  ASSUME IInv, NEW a \in Actions, Begin(a) \/ Step(a)
  PROVE  [Promise!Next]_(Promise!absVars)
<1>1. CASE Begin(a)
  <2>1. Promise!Begin(a)
    BY <1>1, ListensAfresh DEF Begin, Promise!Begin
  <2>2. QED
    BY <2>1 DEF Promise!Next
<1>2. CASE Install(a)
  <2>1. /\ pc[a] = "installing" /\ ~closed /\ Goes(a, "dispatching")
        /\ UNCHANGED <<attempt, late, noticed, did, undrained, closed>>
    BY <1>2 DEF Install, evidenceVars
  <2>2. a \notin undrained
    BY <2>1 DEF IInv, TypeOK, NothingLeftBehind, InPage, Watching, Waiting
  <2>3. Phase[a] = "starting" /\ Phase' = [Phase EXCEPT ![a] = "watching"] /\ Found' = Found
    BY <2>1, <2>2, PhaseOfOne DEF Phase, Found, Watching, Waiting
  <2>4. Promise!Watch(a)
    BY <2>1, <2>3 DEF Promise!Watch, Promise!Enters, Phase, Found
  <2>5. QED
    BY <2>4 DEF Promise!Next
<1>3. CASE InstallFails(a) \/ Leave(a)
  <2>1. /\ pc[a] \in {"installing", "leaving"} /\ Goes(a, "cleaning")
        /\ UNCHANGED <<attempt, late, did, closed>>
    BY <1>3 DEF InstallFails, Leave, evidenceVars
  <2>2. Phase[a] \in {"starting", "watching"} /\ Phase' = [Phase EXCEPT ![a] = "over"]
    BY <2>1, PhaseOfOne DEF Phase, Watching, Waiting
  <2>3. Found' = Found
    <3>1. pc'[a] \notin Watching /\ \A b \in Actions : b # a => pc'[b] = pc[b]
      BY <2>1, PhaseOfOne DEF Watching, Waiting
    <3>2. CASE InstallFails(a)
      BY <3>1, <3>2 DEF InstallFails, Found, evidenceVars, documentVars, Watching, Waiting
    <3>3. CASE Leave(a)
      BY <3>1, <3>3 DEF Leave, Drained, Found, Watching, Waiting
    <3>4. QED
      BY <1>3, <3>2, <3>3
  <2>4. Promise!LooksAway(a)
    BY <2>1, <2>2, <2>3 DEF Promise!LooksAway, Promise!Enters, Phase, Found
  <2>5. QED
    BY <2>4 DEF Promise!Next
<1>4. CASE Late(a)
  <2>1. /\ pc[a] = "observing" /\ Goes(a, "leaving") /\ late' = late \cup {a}
        /\ UNCHANGED <<attempt, noticed, did, undrained, closed>>
    BY <1>4 DEF Late, Observes, evidenceVars, documentVars
  <2>2. Phase[a] = "watching" /\ Phase' = [Phase EXCEPT ![a] = "watching"] /\ Found' = Found
    BY <2>1, PhaseOfOne DEF Phase, Found, Watching, Waiting
  <2>3. Phase' = Phase
    BY <2>2 DEF Phase
  <2>4. Promise!RunsLate(a)
    BY <2>1, <2>2, <2>3 DEF Promise!RunsLate, Phase, Found
  <2>5. QED
    BY <2>4 DEF Promise!Next
<1>5. CASE Repeat(a)
  <2>1. /\ pc[a] = "deciding" /\ Listen(a)
        /\ a \in late /\ attempt[a] < 2 /\ Policy[a] # "never"
        /\ Policy[a] = "safe" => a \notin noticed
    BY <1>5 DEF Repeat, MayRepeat
  <2>2. Phase[a] = "over" /\ (a \in Found <=> a \in noticed)
    BY <2>1 DEF Phase, Found, Watching, Waiting
  <2>3. Promise!Repeat(a)
    BY <2>1, <2>2, ListensAfresh DEF Promise!Repeat, Phase, Found
  <2>4. QED
    BY <2>3 DEF Promise!Next
<1>6. CASE Stop(a)
  <2>1. /\ pc[a] = "deciding" /\ Goes(a, "idle") /\ attempt' = [attempt EXCEPT ![a] = 0]
        /\ late' = late \ {a} /\ noticed' = noticed \ {a} /\ did' = did \ {a}
        /\ UNCHANGED <<undrained, closed>>
    BY <1>6 DEF Stop, StartsAfresh, documentVars
  <2>2. Phase[a] = "over" /\ Phase' = [Phase EXCEPT ![a] = "idle"]
    BY <2>1, PhaseOfOne DEF Phase, Watching, Waiting
  <2>3. Found' = Found \ {a}
    BY <2>1, PhaseOfOne DEF Found, Watching, Waiting
  <2>4. Promise!Stop(a)
    BY <2>1, <2>2, <2>3 DEF Promise!Stop, Promise!Enters, Promise!Forgets, Phase, Found
  <2>5. QED
    BY <2>4 DEF Promise!Next
<1>7. QED
  BY <1>1, <1>2, <1>3, <1>4, <1>5, <1>6, GoingIsNothing DEF Step

LEMMA PageKeepsPromise ==
  ASSUME IInv, Page
  PROVE  [Promise!Next]_(Promise!absVars)
<1>1. UNCHANGED <<pc, attempt, late>> /\ Phase' = Phase
  BY DEF Page, DocumentChanges, Navigates, PagePatches, PageCloses, RequestBegins, RequestEnds,
         attemptVars, Phase
<1> DEFINE watching == {a \in Actions : pc[a] \in Watching}
           others == {a \in Actions : pc[a] \in {"installing", "cleaning"}}
<1>2. Promise!In("watching") = watching /\ others \subseteq Promise!In("starting") \cup Promise!In("over")
  BY DEF Promise!In, Watching, Waiting
<1>3. ASSUME Happens, closed' = closed, Found \cup watching \subseteq Found',
             Found' \subseteq Found \cup watching \cup others
      PROVE  Promise!Happens
  <2>1. ~closed /\ did' = did \cup watching
    BY <1>3 DEF Happens
  <2> HIDE DEF watching, others
  <2>2. QED
    BY <1>1, <1>2, <1>3, <2>1 DEF Promise!Happens, Phase, Found
<1>4. CASE DocumentChanges
  <2>1. Happens /\ undrained' = captures /\ closed' = closed /\ noticed' = noticed
    BY <1>4 DEF DocumentChanges
  <2>2. Found' = Found \cup watching
    BY <1>1, <2>1 DEF Happens, IInv, Evidence, TypeOK, Found
  <2>3. QED
    BY <1>3, <2>1, <2>2 DEF Promise!Next
<1>5. ASSUME Happens, closed' = closed, noticed' = noticed \cup Listening, undrained' \subseteq undrained,
             undrained' = undrained \/ undrained' = {}
      PROVE  Promise!Happens
  <2>1. Listening = watching \cup others
    BY DEF Listening, InPage
  <2>2. Found' \subseteq Found \cup watching \cup others
    BY <1>1, <1>5, <2>1 DEF Found
  <2>3. Found \cup watching \subseteq Found'
    BY <1>1, <1>5, <2>1 DEF Found
  <2>4. QED
    BY <1>3, <1>5, <2>2, <2>3
<1>6. CASE Navigates \/ (\E r \in Requests : RequestBegins(r))
  BY <1>5, <1>6 DEF Navigates, RequestBegins, documentVars, Promise!Next
<1>7. CASE PagePatches \/ (\E r \in Requests : RequestEnds(r))
  <2>1. UNCHANGED <<noticed, did, undrained, closed>>
    BY <1>7 DEF PagePatches, RequestEnds, evidenceVars, documentVars
  <2>2. QED
    BY <1>1, <2>1 DEF Promise!absVars, Phase
<1>8. CASE PageCloses
  <2>1. ~closed /\ closed' = TRUE /\ undrained' = {} /\ UNCHANGED <<noticed, did>>
    BY <1>8 DEF PageCloses, evidenceVars
  <2>2. Found \ watching \subseteq Found' /\ Found' \subseteq Found
    BY <2>1 DEF Found
  <2> HIDE DEF watching, others
  <2>3. Promise!Close
    BY <1>1, <1>2, <2>1, <2>2 DEF Promise!Close, Phase, Found
  <2>4. QED
    BY <2>3 DEF Promise!Next
<1>9. QED
  BY <1>4, <1>6, <1>7, <1>8 DEF Page

(* An attempt knows of everything that happens while it watches, and of     *)
(* nothing that happened to another.                                        *)
(* (wait-engine.ts, interactive-actions.ts, retry-policy.ts)                *)
THEOREM WaitRefinement == Spec => ImplementsObservedInputs
<1>1. Init => Promise!Init
  BY DEF Init, Promise!Init
<1>2. IInv /\ [Next]_vars => [Promise!Next]_(Promise!absVars)
  <2>1. ASSUME UNCHANGED vars PROVE UNCHANGED Promise!absVars
    BY <2>1 DEF vars, attemptVars, evidenceVars, documentVars, Promise!absVars
  <2>2. QED
    BY <2>1, AttemptKeepsPromise, PageKeepsPromise DEF Next
<1>3. QED
  BY <1>1, <1>2, WaitInvariance, PTL DEF Spec, ImplementsObservedInputs, Promise!Spec
===============================================================================
