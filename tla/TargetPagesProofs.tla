--------------------------- MODULE TargetPagesProofs ---------------------------
(***************************************************************************)
(* Proofs about the pages of a connected browser, for any number of calls,  *)
(* targets and names.  Of the transport (TInv): who listens for a target is *)
(* attaching it, and who has heard of it was told (Listens, Told), though    *)
(* calls for one target take each other's place.  Of the manager (MInv): a   *)
(* page that is registered, or was seen, has been open (Past), so a page     *)
(* that opens is registered nowhere; a call that nobody has crossed has seen *)
(* every open page but its own (UncrossedAt).                                *)
(***************************************************************************)
EXTENDS TargetPages, TLAPS

Listens ==
  \A t \in Targets : waiter[t] # Nobody =>
    call[waiter[t]] \in {"attach", "window"} /\ of[waiter[t]] = t

Told ==
  \A k \in heard :
    /\ call[k] \in {"attach", "window", "attached", "created", "detach", "refused"}
    /\ of[k] \in Targets /\ page[of[k]] # "none"

Pends ==
  \A k \in Calls :
    /\ call[k] \in Commands \cup {"create", "created"} => ~closed
    /\ call[k] = "window" /\ k \in held => ~closed
    /\ k \in held => call[k] \in {"info", "attach", "window", "created", "refused"}

Aimed == \A k \in Calls : call[k] \in {"attached", "created", "detach"} => of[k] \in Targets

TInv == TransportTypeOK /\ Listens /\ Told /\ Pends /\ Aimed /\ CreatedWhenTold

(* Pages that have been open.                                               *)
Past == {t \in Targets : page[t] \in {"open", "closed"}}

(* What a call asks of the transport is what it is asked for.               *)
FitsAt(k) ==
  /\ pc[k] = "looking" => op[k].kind = "get"
  /\ call[k] \in {"create", "created"} \/ k \in held => op[k].kind = "named"
  /\ call[k] \in {"activate", "info", "attach", "window", "attached", "detach"} /\ k \notin held =>
       op[k].kind = "get"
  /\ pc[k] = "calling" <=> call[k] # "free"

UncrossedAt(k) == Attaching(k) /\ k \notin crossed => OpenPages \subseteq seen[k] \cup {of[k]}

CallsOK == \A k \in Calls : FitsAt(k) /\ UncrossedAt(k) /\ seen[k] \subseteq Past

BoundOK == NoPageBoundTwice /\ \A t \in Targets : bound[t] \in Past \cup {NoPage}

(* A page that is registered under a target's name is the target's.         *)
NamesOK ==
  /\ \A n \in Keys : names[n] \in Past \cup {NoPage}
  /\ \A t \in Targets : names[t] \in {t, NoPage}

ManagerTypeOK ==
  /\ op \in [Calls -> Ops \cup {NoOp}]
  /\ pc \in [Calls -> {"idle", "looking", "calling", "reading", "closing"}]
  /\ seen \in [Calls -> SUBSET Targets]
  /\ bound \in [Targets -> Targets \cup {NoPage}]
  /\ names \in [Keys -> Targets \cup {NoPage}]
  /\ crossed \subseteq Calls

MInv == ManagerTypeOK /\ CallsOK /\ BoundOK /\ NamesOK

IInv == TInv /\ MInv

CallStates == {"free", "create", "window"} \cup Commands \cup Outcomes

-----------------------------------------------------------------------------
(* The transport.                                                           *)

LEMMA SendKeeps ==
  ASSUME TInv, NEW k \in Calls, NEW command \in {"list", "activate", "info", "detach", "create"},
         NEW t \in Targets \cup {NoTarget}, Send(k, command, t),
         \/ call[k] \in {"free", "list", "activate"}
         \/ call[k] = "attached" /\ command = "detach" /\ t = of[k],
         command \in {"activate", "info", "detach"} => t \in Targets
  PROVE  TInv'
<1>1. /\ call' = [call EXCEPT ![k] = IF closed THEN "refused" ELSE command]
      /\ of' = [of EXCEPT ![k] = t]
      /\ UNCHANGED <<closed, live, unborn, held, waiter, heard, coming, page>>
  BY DEF Send
<1>2. call'[k] = (IF closed THEN "refused" ELSE command) /\ of'[k] = t
      /\ \A j \in Calls \ {k} : call'[j] = call[j] /\ of'[j] = of[j]
  BY <1>1 DEF TInv, TransportTypeOK
<1>3. k \notin held
  BY DEF TInv, Pends
<1>4. TransportTypeOK'
  BY <1>1, <1>2 DEF TInv, TransportTypeOK, Commands, Outcomes
<1>5. Listens'
  BY <1>1, <1>2, CallsAssumption DEF TInv, TransportTypeOK, Listens
<1>6. Told'
  BY <1>1, <1>2 DEF TInv, TransportTypeOK, Told
<1>7. Pends'
  BY <1>1, <1>2, <1>3 DEF TInv, Pends, Commands
<1>8. Aimed' /\ CreatedWhenTold'
  BY <1>1, <1>2 DEF TInv, Aimed, CreatedWhenTold
<1>9. QED
  BY <1>4, <1>5, <1>6, <1>7, <1>8 DEF TInv

LEMMA ReleaseKeeps ==
  ASSUME TInv, NEW k \in Calls, Release(k), call[k] \notin {"attach", "window"}
  PROVE  TInv'
<1>1. /\ call' = [call EXCEPT ![k] = "free"] /\ of' = [of EXCEPT ![k] = NoTarget]
      /\ held' = held \ {k} /\ heard' = heard \ {k}
      /\ UNCHANGED <<closed, live, unborn, waiter, coming, page>>
  BY DEF Release
<1>2. /\ call'[k] = "free"
      /\ \A j \in Calls \ {k} : call'[j] = call[j] /\ of'[j] = of[j]
  BY <1>1 DEF TInv, TransportTypeOK
<1>3. TransportTypeOK'
  BY <1>1, <1>2 DEF TInv, TransportTypeOK, Commands, Outcomes
<1>4. Listens'
  BY <1>1, <1>2 DEF TInv, TransportTypeOK, Listens
<1>5. Told' /\ Pends' /\ Aimed' /\ CreatedWhenTold'
  BY <1>1, <1>2 DEF TInv, TransportTypeOK, Told, Pends, Aimed, CreatedWhenTold, Commands
<1>6. QED
  BY <1>3, <1>4, <1>5 DEF TInv

(* Everything that is pending ends with the connection.                     *)
LEMMA HangUpKeeps ==
  ASSUME TInv, HangUp, UNCHANGED <<live, unborn, of, held, heard>>
  PROVE  /\ TInv'
         /\ closed'
         /\ \A k \in Calls : call'[k] \in {call[k], "refused"} /\ (call'[k] = "free" => call[k] = "free")
         /\ \A k \in Calls : call[k] # "free" => call'[k] # "free"
         /\ \A t \in Targets : page'[t] \in {page[t], "closed"} /\ (page[t] = "none" => page'[t] = "none")
<1> DEFINE ends == {k \in Calls : \/ call[k] \in Commands \cup {"create", "created"}
                                  \/ call[k] = "window" /\ k \in held}
<1>1. /\ closed' = TRUE
      /\ call' = [k \in Calls |-> IF k \in ends THEN "refused" ELSE call[k]]
      /\ waiter' = [t \in Targets |->
                      IF \E k \in ends : call[k] \in {"attach", "window"} /\ of[k] = t
                      THEN Nobody ELSE waiter[t]]
      /\ coming' = {}
      /\ page' = [t \in Targets |-> IF page[t] = "none" THEN "none" ELSE "closed"]
  BY DEF HangUp
<1>2. \A k \in Calls : call'[k] = IF k \in ends THEN "refused" ELSE call[k]
  BY <1>1
<1>3. TransportTypeOK'
  BY <1>1, <1>2 DEF TInv, TransportTypeOK, Commands, Outcomes
<1>4. Listens'
  <2>1. SUFFICES ASSUME NEW t \in Targets, waiter'[t] # Nobody
                 PROVE  call'[waiter'[t]] \in {"attach", "window"} /\ of'[waiter'[t]] = t
    BY DEF Listens
  <2>2. waiter'[t] = waiter[t] /\ ~(\E k \in ends : call[k] \in {"attach", "window"} /\ of[k] = t)
    BY <1>1, <2>1
  <2>3. /\ waiter[t] \in Calls /\ call[waiter[t]] \in {"attach", "window"} /\ of[waiter[t]] = t
    BY <2>1, <2>2 DEF TInv, TransportTypeOK, Listens
  <2>4. waiter[t] \notin ends
    BY <2>2, <2>3
  <2>5. QED
    BY <1>2, <2>2, <2>3, <2>4
<1>5. Told'
  BY <1>1, <1>2 DEF TInv, TransportTypeOK, Told
<1>6. Pends'
  BY <1>2 DEF TInv, Pends, Commands
<1>7. Aimed' /\ CreatedWhenTold'
  BY <1>2 DEF TInv, Aimed, CreatedWhenTold
<1>8. /\ \A k \in Calls : call'[k] \in {call[k], "refused"} /\ (call'[k] = "free" => call[k] = "free")
      /\ \A k \in Calls : call[k] # "free" => call'[k] # "free"
  BY <1>2
<1>9. \A t \in Targets : page'[t] \in {page[t], "closed"} /\ (page[t] = "none" => page'[t] = "none")
  BY <1>1
<1>10. TInv'
  BY <1>3, <1>4, <1>5, <1>6, <1>7 DEF TInv
<1>11. closed'
  BY <1>1
<1>12. QED
  BY <1>8, <1>9, <1>10, <1>11

(* What a step of the transport may do to the calls and the pages.          *)
TransportMoves ==
  /\ \A k \in Calls :
       /\ call[k] # "free" <=> call'[k] # "free"
       /\ k \in held' <=> k \in held \/ (call[k] = "create" /\ call'[k] = "info")
       /\ call'[k] \in {"create", "created"} => call[k] \in {"create", "created"} \/ k \in held
       /\ call'[k] \in {"activate", "info", "attach", "window", "attached", "detach"} /\ k \notin held' =>
            /\ call[k] \in {"activate", "info", "attach", "window", "attached", "detach"}
            /\ of'[k] = of[k]
            /\ call'[k] # "detach" => call[k] # "detach"
  /\ \A t \in Targets :
       /\ page[t] \in {"open", "closed"} => page'[t] \in {"open", "closed"}
       /\ page'[t] = "open" => page[t] = "open"
       /\ page[t] # "none" => page'[t] # "none"

LEMMA HangUpMoves ==
  ASSUME TInv, HangUp, UNCHANGED <<live, unborn, of, held, heard>>
  PROVE  TInv' /\ TransportMoves
<1>1. TInv' /\ \A j \in Calls : call'[j] \in {call[j], "refused"} /\ (call[j] # "free" => call'[j] # "free")
  BY HangUpKeeps
<1>2. \A t \in Targets : page'[t] \in {page[t], "closed"} /\ (page[t] = "none" => page'[t] = "none")
  BY HangUpKeeps
<1>3. \A j \in Calls : call[j] = "free" => call'[j] = "free"
  BY DEF HangUp, Commands
<1>4. QED
  BY <1>1, <1>2, <1>3 DEF TransportMoves

(* A change of the transport's state by one call.                           *)
LEMMA AttachesKeeps ==
  ASSUME TInv, NEW k \in Calls, Attaches(k)
  PROVE  TInv' /\ TransportMoves
<1>1. CASE InfoReply(k)
  <2>1. /\ call[k] = "info" /\ of[k] \in live /\ call' = [call EXCEPT ![k] = "attach"]
        /\ waiter' = [waiter EXCEPT ![of[k]] = k]
        /\ coming' \in {coming, coming \cup {of[k]}}
        /\ UNCHANGED <<closed, live, unborn, of, held, heard, page>>
    BY <1>1 DEF InfoReply
  <2>2. call'[k] = "attach" /\ \A j \in Calls \ {k} : call'[j] = call[j]
    BY <2>1 DEF TInv, TransportTypeOK
  <2>3. TransportTypeOK'
    BY <2>1, <2>2 DEF TInv, TransportTypeOK, Commands, Outcomes
  <2>4. Listens'
    BY <2>1, <2>2 DEF TInv, TransportTypeOK, Listens
  <2>5. Told' /\ Pends' /\ Aimed' /\ CreatedWhenTold'
    BY <2>1, <2>2 DEF TInv, TransportTypeOK, Told, Pends, Aimed, CreatedWhenTold, Commands
  <2>6. TransportMoves
    BY <2>1, <2>2 DEF TransportMoves
  <2>7. QED
    BY <2>3, <2>4, <2>5, <2>6 DEF TInv
<1>2. CASE AttachReply(k)
  <2>1. /\ call[k] = "attach" /\ call' = [call EXCEPT ![k] = "window"]
        /\ UNCHANGED <<closed, live, unborn, of, held, waiter, heard, coming, page>>
    BY <1>2 DEF AttachReply
  <2>2. call'[k] = "window" /\ \A j \in Calls \ {k} : call'[j] = call[j]
    BY <2>1 DEF TInv, TransportTypeOK
  <2>3. TransportTypeOK'
    BY <2>1, <2>2 DEF TInv, TransportTypeOK, Commands, Outcomes
  <2>4. Listens'
    BY <2>1, <2>2 DEF TInv, TransportTypeOK, Listens
  <2>5. Told' /\ Pends' /\ Aimed' /\ CreatedWhenTold'
    BY <2>1, <2>2 DEF TInv, TransportTypeOK, Told, Pends, Aimed, CreatedWhenTold, Commands
  <2>6. TransportMoves
    BY <2>1, <2>2 DEF TransportMoves
  <2>7. QED
    BY <2>3, <2>4, <2>5, <2>6 DEF TInv
<1>3. CASE AttachFails(k) /\ k \in held
  <2>1. HangUp /\ UNCHANGED <<live, unborn, of, held, heard>>
    BY <1>3 DEF AttachFails, GiveUp
  <2>2. QED
    BY <2>1, HangUpMoves
<1>4. CASE AttachFails(k) /\ k \notin held
  <2>1. /\ call[k] \in {"info", "attach"} /\ call' = [call EXCEPT ![k] = "refused"]
        /\ waiter' = [waiter EXCEPT ![of[k]] = IF call[k] = "attach" THEN Nobody ELSE @]
        /\ UNCHANGED <<closed, live, unborn, of, held, heard, coming, page>>
    BY <1>4 DEF AttachFails, GiveUp
  <2>2. call'[k] = "refused" /\ \A j \in Calls \ {k} : call'[j] = call[j]
    BY <2>1 DEF TInv, TransportTypeOK
  <2>3. TransportTypeOK'
    BY <2>1, <2>2 DEF TInv, TransportTypeOK, Commands, Outcomes
  <2>4. Listens'
    BY <2>1, <2>2 DEF TInv, TransportTypeOK, Listens
  <2>5. Told' /\ Pends' /\ Aimed' /\ CreatedWhenTold'
    BY <2>1, <2>2 DEF TInv, TransportTypeOK, Told, Pends, Aimed, CreatedWhenTold, Commands
  <2>6. TransportMoves
    BY <2>1, <2>2 DEF TransportMoves
  <2>7. QED
    BY <2>3, <2>4, <2>5, <2>6 DEF TInv
<1>5. CASE AttachmentHeard(k) \/ WindowOver(k)
  <2>1. /\ call[k] = "window"
        /\ call' = [call EXCEPT ![k] = IF k \in held THEN "created" ELSE "attached"]
        /\ waiter' = [waiter EXCEPT ![of[k]] = Nobody]
        /\ UNCHANGED <<closed, live, unborn, of, held, heard, coming>>
    BY <1>5 DEF AttachmentHeard, WindowOver, Attached
  <2>2. /\ call'[k] = (IF k \in held THEN "created" ELSE "attached")
        /\ \A j \in Calls \ {k} : call'[j] = call[j]
    BY <2>1 DEF TInv, TransportTypeOK
  <2>3. of[k] \in Targets
    BY <2>1 DEF TInv, TransportTypeOK
  <2>4. (page' = page /\ k \in heard) \/ page' = [page EXCEPT ![of[k]] = IF @ = "none" THEN "told" ELSE @]
    BY <1>5 DEF AttachmentHeard, WindowOver, Tell
  <2>5. /\ page' \in [Targets -> {"none", "told", "open", "closed"}] /\ page'[of[k]] # "none"
        /\ \A t \in Targets : page'[t] = page[t] \/ (page[t] = "none" /\ page'[t] = "told")
    BY <2>3, <2>4 DEF TInv, TransportTypeOK, Told
  <2>6. TransportTypeOK'
    BY <2>1, <2>2, <2>5 DEF TInv, TransportTypeOK, Commands, Outcomes
  <2>7. Listens'
    BY <2>1, <2>2 DEF TInv, TransportTypeOK, Listens
  <2>8. Told'
    BY <2>1, <2>2, <2>5 DEF TInv, TransportTypeOK, Told
  <2>9. CreatedWhenTold'
    <3>1. SUFFICES ASSUME NEW j \in Calls, call'[j] = "created" PROVE page'[of'[j]] # "none"
      BY DEF CreatedWhenTold
    <3>2. CASE j = k
      BY <2>1, <2>5, <3>2
    <3>3. CASE j # k
      <4>1. call[j] = "created" /\ of[j] \in Targets /\ page[of[j]] # "none"
        BY <2>2, <3>1, <3>3 DEF TInv, Aimed, CreatedWhenTold
      <4>2. QED
        BY <2>1, <2>5, <4>1
    <3>4. QED
      BY <3>2, <3>3
  <2>10. Pends' /\ Aimed'
    BY <2>1, <2>2, <2>3 DEF TInv, Pends, Aimed, Commands
  <2>11. TransportMoves
    BY <2>1, <2>2, <2>5 DEF TransportMoves
  <2>12. QED
    BY <2>6, <2>7, <2>8, <2>9, <2>10, <2>11 DEF TInv
<1>6. CASE CreateReply(k)
  <2>1. PICK t \in unborn : /\ live' = live \cup {t} /\ unborn' = unborn \ {t}
                            /\ of' = [of EXCEPT ![k] = t] /\ held' = held \cup {k}
                            /\ call' = [call EXCEPT ![k] = "info"]
    BY <1>6 DEF CreateReply
  <2>2. call[k] = "create" /\ k \notin held /\ UNCHANGED <<closed, waiter, heard, coming, page>>
    BY <1>6 DEF CreateReply
  <2>3. /\ call'[k] = "info" /\ of'[k] = t /\ t \in Targets
        /\ \A j \in Calls \ {k} : call'[j] = call[j] /\ of'[j] = of[j]
    BY <2>1 DEF TInv, TransportTypeOK
  <2>4. TransportTypeOK'
    BY <2>1, <2>2, <2>3 DEF TInv, TransportTypeOK, Commands, Outcomes
  <2>5. Listens'
    BY <2>1, <2>2, <2>3 DEF TInv, TransportTypeOK, Listens
  <2>6. Told' /\ Pends' /\ Aimed' /\ CreatedWhenTold'
    BY <2>1, <2>2, <2>3 DEF TInv, TransportTypeOK, Told, Pends, Aimed, CreatedWhenTold, Commands
  <2>7. TransportMoves
    BY <2>1, <2>2, <2>3 DEF TransportMoves
  <2>8. QED
    BY <2>4, <2>5, <2>6, <2>7 DEF TInv
<1>7. CASE CreateRefused(k)
  <2>1. /\ call[k] = "create" /\ call' = [call EXCEPT ![k] = "refused"]
        /\ UNCHANGED <<closed, live, unborn, of, held, waiter, heard, coming, page>>
    BY <1>7 DEF CreateRefused
  <2>2. call'[k] = "refused" /\ \A j \in Calls \ {k} : call'[j] = call[j]
    BY <2>1 DEF TInv, TransportTypeOK
  <2>3. TransportTypeOK'
    BY <2>1, <2>2 DEF TInv, TransportTypeOK, Commands, Outcomes
  <2>4. Listens'
    BY <2>1, <2>2 DEF TInv, TransportTypeOK, Listens
  <2>5. Told' /\ Pends' /\ Aimed' /\ CreatedWhenTold'
    BY <2>1, <2>2 DEF TInv, TransportTypeOK, Told, Pends, Aimed, CreatedWhenTold, Commands
  <2>6. TransportMoves
    BY <2>1, <2>2 DEF TransportMoves
  <2>7. QED
    BY <2>3, <2>4, <2>5, <2>6 DEF TInv
<1>8. QED
  BY <1>1, <1>2, <1>3, <1>4, <1>5, <1>6, <1>7 DEF Attaches

LEMMA ReportKeeps ==
  ASSUME TInv, NEW t \in Targets, Report(t)
  PROVE  TInv' /\ TransportMoves
<1>1. /\ coming' = coming \ {t} /\ page' = [page EXCEPT ![t] = IF @ = "none" THEN "told" ELSE @]
      /\ heard' = heard \cup ({waiter[t]} \ {Nobody})
      /\ UNCHANGED <<closed, live, unborn, call, of, held, waiter>>
  BY DEF Report, Tell
<1>2. /\ page' \in [Targets -> {"none", "told", "open", "closed"}] /\ page'[t] # "none"
      /\ \A u \in Targets : page'[u] = page[u] \/ (page[u] = "none" /\ page'[u] = "told")
  BY <1>1 DEF TInv, TransportTypeOK
<1>3. TransportTypeOK'
  BY <1>1, <1>2 DEF TInv, TransportTypeOK, Commands, Outcomes
<1>4. Told'
  BY <1>1, <1>2 DEF TInv, TransportTypeOK, Told, Listens
<1>5. Listens' /\ Pends' /\ Aimed'
  BY <1>1 DEF TInv, Listens, Pends, Aimed
<1>6. CreatedWhenTold'
  BY <1>1, <1>2 DEF TInv, Aimed, CreatedWhenTold
<1>7. TransportMoves
  BY <1>1, <1>2 DEF TransportMoves
<1>8. QED
  BY <1>3, <1>4, <1>5, <1>6, <1>7 DEF TInv

LEMMA TabOpensKeeps ==
  ASSUME TInv, TabOpens
  PROVE  TInv' /\ TransportMoves
<1>1. PICK t \in unborn : /\ live' = live \cup {t} /\ unborn' = unborn \ {t}
                          /\ coming' \in {coming, coming \cup {t}}
  BY DEF TabOpens
<1>2. UNCHANGED <<closed, call, of, held, waiter, heard, page>>
  BY DEF TabOpens
<1>3. TransportTypeOK'
  BY <1>1, <1>2 DEF TInv, TransportTypeOK, Commands, Outcomes
<1>4. Listens' /\ Told' /\ Pends' /\ Aimed' /\ CreatedWhenTold'
  BY <1>2 DEF TInv, Listens, Told, Pends, Aimed, CreatedWhenTold
<1>5. TransportMoves
  BY <1>2 DEF TransportMoves
<1>6. QED
  BY <1>3, <1>4, <1>5 DEF TInv

(* Playwright's pages open and close.                                       *)
LEMMA PagesKeep ==
  ASSUME TInv, live' \subseteq live, coming' \subseteq coming,
         UNCHANGED <<closed, unborn, of, held, waiter, heard>>,
         page' \in [Targets -> {"none", "told", "open", "closed"}],
         \A t \in Targets : page[t] # "none" => page'[t] # "none",
         call' \in [Calls -> CallStates],
         \A k \in Calls : call'[k] = call[k] \/ (call[k] = "detach" /\ call'[k] = "refused")
  PROVE  TInv'
<1>1. TransportTypeOK'
  BY DEF TInv, TransportTypeOK, Commands, Outcomes, CallStates
<1>2. Listens'
  BY DEF TInv, TransportTypeOK, Listens
<1>3. Told' /\ Pends' /\ Aimed'
  BY DEF TInv, TransportTypeOK, Told, Pends, Aimed, Commands
<1>4. CreatedWhenTold'
  BY DEF TInv, Aimed, CreatedWhenTold
<1>5. QED
  BY <1>1, <1>2, <1>3, <1>4 DEF TInv

-----------------------------------------------------------------------------
(* What is registered.                                                      *)

(* A page that was open or closed stays so; a page that opens is new.       *)
PagesMove ==
  \A t \in Targets :
    /\ page[t] \in {"open", "closed"} => page'[t] \in {"open", "closed"}
    /\ page'[t] = "open" => page[t] \in {"told", "open"}

LEMMA MovesOfPages ==
  ASSUME TransportMoves \/ page' = page
  PROVE  PagesMove
BY DEF TransportMoves, PagesMove

LEMMA BoundShrinks ==
  ASSUME MInv, PagesMove, \A t \in Targets : bound'[t] \in {bound[t], NoPage}
  PROVE  BoundOK'
<1>1. \A t \in Targets : bound'[t] \in Past' \cup {NoPage}
  BY DEF MInv, BoundOK, PagesMove, Past
<1>2. SUFFICES ASSUME NEW t \in Targets, NEW u \in Targets, bound'[t] = bound'[u],
                      bound'[t] # NoPage, page'[bound'[t]] = "open"
               PROVE  t = u
  BY <1>1 DEF BoundOK, NoPageBoundTwice, IsOpen
<1>3. bound[t] = bound'[t] /\ bound[u] = bound'[t] /\ bound[t] \in Past
  BY <1>2 DEF MInv, BoundOK
<1>4. page[bound[t]] = "open"
  BY <1>2, <1>3 DEF Past, PagesMove
<1>5. QED
  BY <1>2, <1>3, <1>4 DEF MInv, BoundOK, NoPageBoundTwice, IsOpen

LEMMA BoundRegisters ==
  ASSUME MInv, page' = page, NEW t \in Targets, NEW p \in Past, MayRegister(t, p),
         bound' = [bound EXCEPT ![t] = p]
  PROVE  BoundOK' /\ bound' \in [Targets -> Targets \cup {NoPage}]
<1>1. p \in Targets
  BY DEF Past
<1>2. bound' \in [Targets -> Targets \cup {NoPage}]
      /\ bound'[t] = p /\ \A u \in Targets \ {t} : bound'[u] = bound[u]
  BY <1>1 DEF MInv, ManagerTypeOK
<1>3. \A u \in Targets : bound'[u] \in Past' \cup {NoPage}
  BY <1>2 DEF MInv, BoundOK, Past
<1>4. NoPageBoundTwice'
  BY <1>2 DEF MInv, BoundOK, NoPageBoundTwice, IsOpen, MayRegister
<1>5. QED
  BY <1>2, <1>3, <1>4 DEF BoundOK

LEMMA NamesShrink ==
  ASSUME MInv, PagesMove, \A n \in Keys : names'[n] \in {names[n], NoPage}
  PROVE  NamesOK'
BY DEF MInv, NamesOK, PagesMove, Past, Keys

LEMMA ListenersShrink ==
  ASSUME MInv, PagesMove, Listeners
  PROVE  /\ BoundOK' /\ NamesOK'
         /\ bound' \in [Targets -> Targets \cup {NoPage}]
         /\ names' \in [Keys -> Targets \cup {NoPage}]
<1>1. /\ \A t \in Targets : bound'[t] \in {bound[t], NoPage}
      /\ \A n \in Keys : names'[n] \in {names[n], NoPage}
  BY DEF Listeners
<1>2. /\ bound' \in [Targets -> Targets \cup {NoPage}]
      /\ names' \in [Keys -> Targets \cup {NoPage}]
  BY DEF Listeners, MInv, ManagerTypeOK
<1>3. QED
  BY <1>1, <1>2, BoundShrinks, NamesShrink

-----------------------------------------------------------------------------
(* The calls.                                                               *)

(* A step of the transport in which no call does anything of its own.       *)
LEMMA CallsWait ==
  ASSUME MInv, TransportMoves, UNCHANGED <<op, pc, seen, crossed>>,
         BoundOK', NamesOK',
         bound' \in [Targets -> Targets \cup {NoPage}],
         names' \in [Keys -> Targets \cup {NoPage}]
  PROVE  MInv'
<1>1. ManagerTypeOK'
  BY DEF MInv, ManagerTypeOK
<1>2. ASSUME NEW k \in Calls PROVE FitsAt(k)' /\ UncrossedAt(k)' /\ seen'[k] \subseteq Past'
  <2>1. FitsAt(k) /\ UncrossedAt(k) /\ seen[k] \subseteq Past
    BY DEF MInv, CallsOK
  <2>2. FitsAt(k)'
    BY <2>1 DEF FitsAt, TransportMoves
  <2>3. seen'[k] \subseteq Past'
    BY <2>1 DEF Past, TransportMoves
  <2>4. UncrossedAt(k)'
    <3>1. SUFFICES ASSUME Attaching(k)', k \notin crossed', NEW p \in OpenPages'
                   PROVE  p \in seen'[k] \cup {of'[k]}
      BY DEF UncrossedAt
    <3>2. k \notin held'
      BY <2>2, <3>1 DEF FitsAt, Attaching
    <3>3. Attaching(k) /\ of'[k] = of[k]
      BY <3>1, <3>2 DEF Attaching, TransportMoves
    <3>4. p \in OpenPages
      BY <3>1 DEF OpenPages, TransportMoves
    <3>5. QED
      BY <2>1, <3>1, <3>3, <3>4 DEF UncrossedAt
  <2>5. QED
    BY <2>2, <2>3, <2>4
<1>3. CallsOK'
  BY <1>2 DEF CallsOK
<1>4. QED
  BY <1>1, <1>3 DEF MInv

(* Only call `k' does something.                                            *)
Alone(k) ==
  \A j \in Calls \ {k} :
    /\ op'[j] = op[j] /\ pc'[j] = pc[j] /\ seen'[j] = seen[j]
    /\ call'[j] = call[j] /\ of'[j] = of[j]
    /\ j \in held' <=> j \in held
    /\ j \in crossed' <=> j \in crossed

LEMMA OneCallMoves ==
  ASSUME MInv, NEW k \in Calls, Alone(k), page' = page,
         FitsAt(k)', UncrossedAt(k)', seen'[k] \subseteq Past
  PROVE  CallsOK'
<1>1. Past' = Past /\ OpenPages' = OpenPages
  BY DEF Past, OpenPages
<1>2. ASSUME NEW j \in Calls, j # k PROVE FitsAt(j)' /\ UncrossedAt(j)' /\ seen'[j] \subseteq Past'
  <2>1. FitsAt(j) /\ UncrossedAt(j) /\ seen[j] \subseteq Past
    BY DEF MInv, CallsOK
  <2>2. /\ op'[j] = op[j] /\ pc'[j] = pc[j] /\ seen'[j] = seen[j]
        /\ call'[j] = call[j] /\ of'[j] = of[j]
        /\ j \in held' <=> j \in held
        /\ j \in crossed' <=> j \in crossed
    BY <1>2 DEF Alone
  <2>3. FitsAt(j)'
    BY <2>1, <2>2 DEF FitsAt
  <2>4. UncrossedAt(j)'
    BY <1>1, <2>1, <2>2 DEF UncrossedAt, Attaching
  <2>5. QED
    BY <1>1, <2>1, <2>2, <2>3, <2>4
<1>3. QED
  BY <1>1, <1>2 DEF CallsOK

LEMMA EndKeeps ==
  ASSUME IInv, NEW k \in Calls, End(k), call[k] \notin {"attach", "window"},
         BoundOK', NamesOK',
         bound' \in [Targets -> Targets \cup {NoPage}],
         names' \in [Keys -> Targets \cup {NoPage}]
  PROVE  IInv'
<1>1. Release(k) /\ TInv'
  BY ReleaseKeeps DEF End, IInv
<1>2. /\ pc' = [pc EXCEPT ![k] = "idle"] /\ op' = [op EXCEPT ![k] = NoOp]
      /\ seen' = [seen EXCEPT ![k] = {}] /\ crossed' = crossed \ {k}
  BY DEF End
<1>3. /\ call' = [call EXCEPT ![k] = "free"] /\ of' = [of EXCEPT ![k] = NoTarget]
      /\ held' = held \ {k} /\ page' = page
  BY <1>1 DEF Release
<1>4. ManagerTypeOK'
  BY <1>2 DEF IInv, MInv, ManagerTypeOK
<1>5. Alone(k) /\ call'[k] = "free" /\ pc'[k] = "idle" /\ seen'[k] = {} /\ k \notin held'
  BY <1>2, <1>3 DEF IInv, MInv, ManagerTypeOK, TInv, TransportTypeOK, Alone
<1>6. FitsAt(k)' /\ UncrossedAt(k)'
  BY <1>5 DEF FitsAt, UncrossedAt, Attaching
<1>7. QED
  BY <1>1, <1>3, <1>4, <1>5, <1>6, OneCallMoves DEF IInv, MInv

(* Call `k' ends, and registers nothing.                                    *)
LEMMA EndQuietly ==
  ASSUME IInv, NEW k \in Calls, End(k), call[k] \notin {"attach", "window"},
         UNCHANGED <<bound, names>>
  PROVE  IInv'
<1>1. PagesMove
  BY MovesOfPages DEF End, Release
<1>2. BoundOK' /\ NamesOK'
  BY <1>1, BoundShrinks, NamesShrink DEF IInv
<1>3. QED
  BY <1>2, EndKeeps DEF IInv, MInv, ManagerTypeOK

LEMMA RegisterKeeps ==
  ASSUME IInv, NEW k \in Calls, NEW t \in Targets, NEW p \in Past, Register(k, t, p),
         call[k] \notin {"attach", "window"}, UNCHANGED names
  PROVE  IInv'
<1>1. page' = page /\ End(k)
  BY DEF Register, End, Release
<1>2. CASE MayRegister(t, p)
  <2>1. BoundOK' /\ bound' \in [Targets -> Targets \cup {NoPage}]
    BY <1>1, <1>2, BoundRegisters DEF Register, IInv
  <2>2. NamesOK'
    BY <1>1, MovesOfPages, NamesShrink DEF IInv
  <2>3. QED
    BY <1>1, <2>1, <2>2, EndKeeps DEF IInv, MInv, ManagerTypeOK
<1>3. CASE ~MayRegister(t, p)
  BY <1>1, <1>3, EndQuietly DEF Register
<1>4. QED
  BY <1>2, <1>3

(* Call `k' sends a command, and goes on when it is answered.               *)
LEMMA SendsOn ==
  ASSUME IInv, NEW k \in Calls, NEW command \in {"list", "activate", "info", "detach", "create"},
         NEW t \in Targets \cup {NoTarget}, Send(k, command, t),
         \/ call[k] \in {"free", "list", "activate"}
         \/ call[k] = "attached" /\ command = "detach" /\ t = of[k],
         command \in {"activate", "info", "detach"} => t \in Targets /\ op'[k].kind = "get",
         command = "create" => op'[k].kind = "named",
         command = "activate" => seen'[k] = OpenPages,
         command = "info" => call[k] = "activate" /\ t = of[k] /\ op[k] = op'[k] /\ seen'[k] = seen[k],
         pc'[k] = "calling", seen'[k] \subseteq Past,
         \A j \in Calls \ {k} : op'[j] = op[j] /\ pc'[j] = pc[j] /\ seen'[j] = seen[j],
         crossed' = crossed,
         ManagerTypeOK',
         \A u \in Targets : bound'[u] \in {bound[u], NoPage},
         \A n \in Keys : names'[n] \in {names[n], NoPage}
  PROVE  IInv'
<1>1. TInv'
  BY SendKeeps DEF IInv
<1>2. /\ call' = [call EXCEPT ![k] = IF closed THEN "refused" ELSE command]
      /\ of' = [of EXCEPT ![k] = t]
      /\ held' = held /\ page' = page
  BY DEF Send
<1>3. /\ Alone(k) /\ call'[k] \in {"refused", command} /\ of'[k] = t
  BY <1>2 DEF IInv, TInv, TransportTypeOK, Alone
<1>4. k \notin held
  BY DEF IInv, TInv, Pends
<1>5. FitsAt(k)'
  BY <1>2, <1>3, <1>4 DEF FitsAt
<1>6. OpenPages' = OpenPages
  BY <1>2 DEF OpenPages
<1>7. UncrossedAt(k)'
  <2>1. SUFFICES ASSUME Attaching(k)', k \notin crossed PROVE OpenPages \subseteq seen'[k] \cup {t}
    BY <1>3, <1>6 DEF UncrossedAt
  <2>2. CASE call'[k] = "activate"
    BY <1>3, <2>2
  <2>3. CASE call'[k] = "info"
    <3>1. command = "info"
      BY <1>3, <2>3
    <3>2. op[k].kind = "get" /\ call[k] = "activate"
      BY <3>1
    <3>3. UncrossedAt(k) /\ Attaching(k)
      BY <3>2 DEF IInv, MInv, CallsOK, Attaching
    <3>4. QED
      BY <2>1, <3>1, <3>3 DEF UncrossedAt
  <2>4. QED
    BY <1>3, <2>1, <2>2, <2>3 DEF Attaching
<1>8. CallsOK'
  BY <1>2, <1>3, <1>5, <1>7, OneCallMoves DEF IInv
<1>9. BoundOK' /\ NamesOK'
  BY <1>2, MovesOfPages, BoundShrinks, NamesShrink DEF IInv
<1>10. QED
  BY <1>1, <1>8, <1>9 DEF IInv, MInv

(* Call `k' does something that takes no step of the transport.             *)
LEMMA LooksOn ==
  ASSUME IInv, UNCHANGED transportVars, NEW k \in Calls,
         \A j \in Calls \ {k} : op'[j] = op[j] /\ pc'[j] = pc[j] /\ seen'[j] = seen[j],
         crossed' = crossed, ManagerTypeOK',
         call[k] = "free", k \notin held, pc'[k] # "calling",
         pc'[k] = "looking" => op'[k].kind = "get",
         seen'[k] \subseteq Past,
         BoundOK', NamesOK'
  PROVE  IInv'
<1>1. TInv'
  BY DEF IInv, TInv, TransportTypeOK, transportVars, Listens, Told, Pends, Aimed, CreatedWhenTold
<1>2. Alone(k) /\ page' = page
  BY DEF Alone, transportVars
<1>3. FitsAt(k)' /\ UncrossedAt(k)'
  BY DEF FitsAt, UncrossedAt, Attaching, transportVars
<1>4. QED
  BY <1>1, <1>2, <1>3, OneCallMoves DEF IInv, MInv

(* A call that waits for nothing holds nothing.                             *)
LEMMA FreeCalls ==
  ASSUME IInv, NEW k \in Calls, pc[k] # "calling"
  PROVE  call[k] = "free" /\ k \notin held
<1>1. call[k] = "free"
  BY DEF IInv, MInv, CallsOK, FitsAt
<1>2. QED
  BY <1>1 DEF IInv, TInv, Pends

-----------------------------------------------------------------------------
(* The steps.                                                               *)

LEMMA BeginKeeps ==
  ASSUME IInv, NEW k \in Calls, Begin(k)
  PROVE  IInv'
<1>1. pc[k] = "idle" /\ call[k] = "free" /\ k \notin held
  BY FreeCalls DEF Begin, BeginGet, BeginNamed, BeginClose, BeginList, MayStart
<1>2. ASSUME NEW t \in Targets, BeginGet(k, t) PROVE IInv'
  <2>1. /\ bound' = [bound EXCEPT ![t] = NoPage] /\ seen' = [seen EXCEPT ![k] = OpenPages]
        /\ pc' = [pc EXCEPT ![k] = "looking"]
        /\ op' = [op EXCEPT ![k] = [kind |-> "get", what |-> t]]
        /\ UNCHANGED <<transportVars, names, crossed>>
    BY <1>2 DEF BeginGet, Starts
  <2>2. OpenPages \subseteq Past /\ [kind |-> "get", what |-> t] \in Ops
    BY DEF OpenPages, Past, Ops
  <2>3. ManagerTypeOK'
    BY <2>1, <2>2 DEF IInv, MInv, ManagerTypeOK, Past
  <2>4. /\ pc'[k] = "looking" /\ op'[k].kind = "get" /\ seen'[k] = OpenPages
        /\ \A j \in Calls \ {k} : op'[j] = op[j] /\ pc'[j] = pc[j] /\ seen'[j] = seen[j]
    BY <2>1 DEF IInv, MInv, ManagerTypeOK
  <2>5. \A u \in Targets : bound'[u] \in {bound[u], NoPage}
    BY <2>1 DEF IInv, MInv, ManagerTypeOK
  <2>6. BoundOK' /\ NamesOK'
    BY <2>1, <2>5, MovesOfPages, BoundShrinks, NamesShrink DEF IInv, transportVars
  <2>7. QED
    BY <1>1, <2>1, <2>2, <2>3, <2>4, <2>6, LooksOn
<1>3. ASSUME NEW n \in Names, BeginNamed(k, n) PROVE IInv'
  <2>1. /\ names' = [names EXCEPT ![n] = NoPage] /\ Send(k, "create", NoTarget)
        /\ pc' = [pc EXCEPT ![k] = "calling"]
        /\ op' = [op EXCEPT ![k] = [kind |-> "named", what |-> n]]
        /\ UNCHANGED <<seen, bound, crossed>>
    BY <1>3 DEF BeginNamed, Starts
  <2>2. [kind |-> "named", what |-> n] \in Ops
    BY DEF Ops
  <2>3. ManagerTypeOK'
    BY <2>1, <2>2 DEF IInv, MInv, ManagerTypeOK
  <2>4. /\ pc'[k] = "calling" /\ op'[k].kind = "named" /\ seen'[k] \subseteq Past
        /\ \A j \in Calls \ {k} : op'[j] = op[j] /\ pc'[j] = pc[j] /\ seen'[j] = seen[j]
    BY <2>1 DEF IInv, MInv, ManagerTypeOK, CallsOK
  <2>5. /\ \A u \in Targets : bound'[u] \in {bound[u], NoPage}
        /\ \A m \in Keys : names'[m] \in {names[m], NoPage}
    BY <2>1 DEF IInv, MInv, ManagerTypeOK
  <2>6. QED
    BY <1>1, <2>1, <2>3, <2>4, <2>5, SendsOn
<1>4. ASSUME NEW n \in Names, BeginClose(k, n) PROVE IInv'
  <2>1. /\ names' = [names EXCEPT ![n] = NoPage] /\ seen' = [seen EXCEPT ![k] = {names[n]}]
        /\ pc' = [pc EXCEPT ![k] = "closing"]
        /\ op' = [op EXCEPT ![k] = [kind |-> "close", what |-> n]]
        /\ names[n] # NoPage
        /\ UNCHANGED <<transportVars, bound, crossed>>
    BY <1>4 DEF BeginClose, Starts, IsOpen
  <2>2. names[n] \in Past /\ names[n] \in Targets /\ [kind |-> "close", what |-> n] \in Ops
    BY <2>1 DEF IInv, MInv, NamesOK, Keys, Ops, Past
  <2>3. ManagerTypeOK'
    BY <2>1, <2>2 DEF IInv, MInv, ManagerTypeOK
  <2>4. /\ pc'[k] = "closing" /\ seen'[k] \subseteq Past
        /\ \A j \in Calls \ {k} : op'[j] = op[j] /\ pc'[j] = pc[j] /\ seen'[j] = seen[j]
    BY <2>1, <2>2 DEF IInv, MInv, ManagerTypeOK
  <2>5. \A m \in Keys : names'[m] \in {names[m], NoPage}
    BY <2>1 DEF IInv, MInv, ManagerTypeOK
  <2>6. BoundOK' /\ NamesOK'
    BY <2>1, <2>5, MovesOfPages, BoundShrinks, NamesShrink DEF IInv, transportVars
  <2>7. QED
    BY <1>1, <2>1, <2>3, <2>4, <2>6, LooksOn
<1>5. ASSUME BeginList(k) PROVE IInv'
  <2>1. /\ bound' = [t \in Targets |-> IF IsOpen(bound[t]) THEN bound[t] ELSE NoPage]
        /\ names' = [n \in Keys |-> IF IsOpen(names[n]) THEN names[n] ELSE NoPage]
        /\ Send(k, "list", NoTarget)
        /\ pc' = [pc EXCEPT ![k] = "calling"]
        /\ op' = [op EXCEPT ![k] = [kind |-> "list", what |-> NoPage]]
        /\ UNCHANGED <<seen, crossed>>
    BY <1>5 DEF BeginList, Starts
  <2>2. [kind |-> "list", what |-> NoPage] \in Ops
    BY DEF Ops
  <2>3. ManagerTypeOK'
    BY <2>1, <2>2 DEF IInv, MInv, ManagerTypeOK
  <2>4. /\ pc'[k] = "calling" /\ seen'[k] \subseteq Past
        /\ \A j \in Calls \ {k} : op'[j] = op[j] /\ pc'[j] = pc[j] /\ seen'[j] = seen[j]
    BY <2>1 DEF IInv, MInv, ManagerTypeOK, CallsOK
  <2>5. /\ \A u \in Targets : bound'[u] \in {bound[u], NoPage}
        /\ \A m \in Keys : names'[m] \in {names[m], NoPage}
    BY <2>1
  <2>6. QED
    BY <1>1, <2>1, <2>3, <2>4, <2>5, SendsOn
<1>6. QED
  BY <1>2, <1>3, <1>4, <1>5 DEF Begin

LEMMA LookKeeps ==
  ASSUME IInv, NEW k \in Calls, LookFinds(k) \/ LookFails(k) \/ LookMisses(k)
  PROVE  IInv'
<1>1. pc[k] = "looking" /\ call[k] = "free" /\ k \notin held
  BY FreeCalls DEF LookFinds, LookFails, LookMisses
<1>2. op[k].kind = "get" /\ op[k].what \in Targets /\ seen[k] \subseteq Past
  BY <1>1 DEF IInv, MInv, ManagerTypeOK, CallsOK, FitsAt, Ops, NoOp
<1>3. CASE LookFinds(k)
  <2>1. op[k].what \in Past
    BY <1>2, <1>3 DEF LookFinds
  <2>2. QED
    BY <1>1, <1>2, <1>3, <2>1, RegisterKeeps DEF LookFinds
<1>4. CASE LookFails(k)
  BY <1>1, <1>4, EndQuietly DEF LookFails
<1>5. CASE LookMisses(k)
  <2>1. /\ Send(k, "list", op[k].what) /\ pc' = [pc EXCEPT ![k] = "calling"]
        /\ seen' = [seen EXCEPT ![k] = {}]
        /\ UNCHANGED <<op, bound, names, crossed>>
    BY <1>5 DEF LookMisses
  <2>2. ManagerTypeOK'
    BY <2>1 DEF IInv, MInv, ManagerTypeOK
  <2>3. /\ pc'[k] = "calling" /\ seen'[k] = {}
        /\ \A j \in Calls \ {k} : op'[j] = op[j] /\ pc'[j] = pc[j] /\ seen'[j] = seen[j]
    BY <2>1 DEF IInv, MInv, ManagerTypeOK
  <2>4. /\ \A u \in Targets : bound'[u] \in {bound[u], NoPage}
        /\ \A m \in Keys : names'[m] \in {names[m], NoPage}
    BY <2>1
  <2>5. QED
    BY <1>1, <1>2, <2>1, <2>2, <2>3, <2>4, SendsOn
<1>6. QED
  BY <1>3, <1>4, <1>5

LEMMA GetKeeps ==
  ASSUME IInv, NEW k \in Calls, GetListed(k) \/ GetActivated(k) \/ PollGivesUp(k)
  PROVE  IInv'
<1>1. UNCHANGED <<bound, names>> /\ call[k] \in {"list", "activate", "attached"}
  BY DEF GetListed, GetActivated, PollGivesUp, managerVars
<1>2. pc[k] = "calling" /\ k \notin held /\ seen[k] \subseteq Past
  BY <1>1 DEF IInv, MInv, CallsOK, FitsAt, TInv, Pends
<1>3. /\ \A u \in Targets : bound'[u] \in {bound[u], NoPage}
      /\ \A m \in Keys : names'[m] \in {names[m], NoPage}
  BY <1>1
<1>4. OpenPages \subseteq Past
  BY DEF OpenPages, Past
<1>5. ASSUME End(k), call[k] \in {"list", "activate"} PROVE IInv'
  BY <1>1, <1>5, EndQuietly
<1>6. CASE call[k] = "list" /\ op[k].kind = "get" /\ of[k] \in live /\ Send(k, "activate", of[k])
           /\ seen' = [seen EXCEPT ![k] = OpenPages] /\ UNCHANGED <<op, pc, crossed>>
  <2>1. ManagerTypeOK'
    BY <1>1, <1>4, <1>6 DEF IInv, MInv, ManagerTypeOK, Past
  <2>2. /\ seen'[k] = OpenPages /\ \A j \in Calls \ {k} : seen'[j] = seen[j]
    BY <1>6 DEF IInv, MInv, ManagerTypeOK
  <2>3. of[k] \in Targets
    BY <1>6 DEF IInv, TInv, TransportTypeOK
  <2>4. QED
    BY <1>2, <1>3, <1>4, <1>6, <2>1, <2>2, <2>3, SendsOn
<1>7. CASE call[k] = "activate" /\ of[k] \in live /\ Send(k, "info", of[k])
           /\ UNCHANGED <<op, pc, seen, crossed>>
  <2>1. ManagerTypeOK'
    BY <1>1, <1>7 DEF IInv, MInv, ManagerTypeOK
  <2>2. of[k] \in Targets /\ op[k].kind = "get"
    BY <1>2, <1>7 DEF IInv, TInv, TransportTypeOK, MInv, CallsOK, FitsAt
  <2>3. QED
    BY <1>2, <1>3, <1>7, <2>1, <2>2, SendsOn
<1>8. CASE call[k] = "attached" /\ Send(k, "detach", of[k]) /\ UNCHANGED managerVars
  <2>1. ManagerTypeOK'
    BY <1>8 DEF IInv, MInv, ManagerTypeOK, managerVars
  <2>2. of[k] \in Targets /\ op[k].kind = "get"
    BY <1>2, <1>8 DEF IInv, TInv, Aimed, MInv, CallsOK, FitsAt
  <2>3. QED
    BY <1>2, <1>3, <1>8, <2>1, <2>2, SendsOn DEF managerVars
<1>9. CASE GetListed(k)
  BY <1>5, <1>6, <1>9 DEF GetListed
<1>10. CASE GetActivated(k)
  BY <1>5, <1>7, <1>10 DEF GetActivated
<1>11. CASE PollGivesUp(k)
  BY <1>8, <1>11 DEF PollGivesUp
<1>12. QED
  BY <1>9, <1>10, <1>11

LEMMA EndsKeep ==
  ASSUME IInv, NEW k \in Calls,
         \/ PollFindsOne(k) \/ PollFindsMany(k) \/ NamedCreated(k) \/ CallRefused(k)
         \/ ListEnds(k) \/ CloseEnds(k)
  PROVE  IInv'
<1>1. CASE PollFindsOne(k)
  <2>1. PICK p \in NewPages(k) : Register(k, of[k], p)
    BY <1>1 DEF PollFindsOne
  <2>2. call[k] = "attached" /\ UNCHANGED names /\ of[k] \in Targets
    BY <1>1 DEF PollFindsOne, IInv, TInv, Aimed
  <2>3. p \in Past
    BY DEF NewPages, OpenPages, Past
  <2>4. QED
    BY <2>1, <2>2, <2>3, RegisterKeeps
<1>2. CASE PollFindsMany(k)
  BY <1>2, EndQuietly DEF PollFindsMany
<1>3. CASE CallRefused(k)
  BY <1>3, EndQuietly DEF CallRefused
<1>4. CASE ListEnds(k) \/ CloseEnds(k)
  <2>1. call[k] = "free"
    BY <1>4, FreeCalls DEF ListEnds, CloseEnds
  <2>2. QED
    BY <1>4, <2>1, EndQuietly DEF ListEnds, CloseEnds
<1>5. CASE NamedCreated(k)
  <2>1. call[k] = "created" /\ End(k) /\ UNCHANGED bound /\ page' = page
    BY <1>5 DEF NamedCreated, End, Release
  <2>2. of[k] \in Targets /\ op[k].kind = "named"
    BY <2>1 DEF IInv, TInv, Aimed, MInv, CallsOK, FitsAt
  <2>3. op[k].what \in Names
    BY <2>2 DEF IInv, MInv, ManagerTypeOK, Ops, NoOp
  <2>4. BoundOK' /\ bound' \in [Targets -> Targets \cup {NoPage}]
    BY <2>1, MovesOfPages, BoundShrinks DEF IInv, MInv, ManagerTypeOK
  <2>5. CASE page[of[k]] = "open" /\ names' = [names EXCEPT ![op[k].what] = of[k]]
    <3>1. names' \in [Keys -> Targets \cup {NoPage}]
          /\ \A n \in Keys : names'[n] = IF n = op[k].what THEN of[k] ELSE names[n]
      BY <2>2, <2>5 DEF IInv, MInv, ManagerTypeOK
    <3>2. Past' = Past /\ of[k] \in Past
      BY <2>1, <2>2, <2>5 DEF Past
    <3>3. NamesOK'
      BY <2>3, <3>1, <3>2, NamesAssumption DEF IInv, MInv, NamesOK, Keys
    <3>4. QED
      BY <2>1, <2>4, <3>1, <3>3, EndKeeps
  <2>6. CASE UNCHANGED names
    BY <2>1, <2>6, EndQuietly
  <2>7. QED
    BY <1>5, <2>5, <2>6 DEF NamedCreated
<1>6. QED
  BY <1>1, <1>2, <1>3, <1>4, <1>5

LEMMA ListKeeps ==
  ASSUME IInv, NEW k \in Calls, ListListed(k) \/ ListReads(k)
  PROVE  IInv'
<1>1. OpenPages \subseteq Past
  BY DEF OpenPages, Past
<1>2. CASE ListListed(k)
  <2>1. /\ call[k] = "list" /\ Release(k) /\ pc' = [pc EXCEPT ![k] = "reading"]
        /\ seen' = [seen EXCEPT ![k] = OpenPages] /\ UNCHANGED <<op, bound, names, crossed>>
    BY <1>2 DEF ListListed
  <2>2. /\ call' = [call EXCEPT ![k] = "free"] /\ of' = [of EXCEPT ![k] = NoTarget]
        /\ held' = held \ {k} /\ page' = page
    BY <2>1 DEF Release
  <2>3. TInv'
    BY <2>1, ReleaseKeeps DEF IInv
  <2>4. ManagerTypeOK'
    BY <1>1, <2>1 DEF IInv, MInv, ManagerTypeOK, Past
  <2>5. Alone(k) /\ call'[k] = "free" /\ pc'[k] = "reading" /\ seen'[k] \subseteq Past /\ k \notin held'
    BY <1>1, <2>1, <2>2 DEF IInv, MInv, ManagerTypeOK, TInv, TransportTypeOK, Alone
  <2>6. FitsAt(k)' /\ UncrossedAt(k)'
    BY <2>5 DEF FitsAt, UncrossedAt, Attaching
  <2>7. CallsOK'
    BY <2>2, <2>5, <2>6, OneCallMoves DEF IInv
  <2>8. BoundOK' /\ NamesOK'
    BY <2>1, <2>2, MovesOfPages, BoundShrinks, NamesShrink DEF IInv
  <2>9. QED
    BY <2>3, <2>4, <2>7, <2>8 DEF IInv, MInv
<1>3. CASE ListReads(k)
  <2>1. PICK p \in seen[k] :
          /\ seen' = [seen EXCEPT ![k] = @ \ {p}]
          /\ UNCHANGED bound \/ (IsOpen(p) /\ MayRegister(p, p) /\ bound' = [bound EXCEPT ![p] = p])
    BY <1>3 DEF ListReads
  <2>2. pc[k] = "reading" /\ UNCHANGED <<transportVars, op, pc, names, crossed>>
    BY <1>3 DEF ListReads
  <2>3. page' = page
    BY <2>2 DEF transportVars
  <2>4. p \in Past /\ p \in Targets /\ seen[k] \subseteq Past
    BY <2>1 DEF IInv, MInv, CallsOK, Past
  <2>5. BoundOK' /\ bound' \in [Targets -> Targets \cup {NoPage}]
    <3>1. CASE UNCHANGED bound
      BY <2>3, <3>1, MovesOfPages, BoundShrinks DEF IInv, MInv, ManagerTypeOK
    <3>2. CASE MayRegister(p, p) /\ bound' = [bound EXCEPT ![p] = p]
      BY <2>3, <2>4, <3>2, BoundRegisters DEF IInv
    <3>3. QED
      BY <2>1, <3>1, <3>2
  <2>6. NamesOK'
    BY <2>2, <2>3, MovesOfPages, NamesShrink DEF IInv
  <2>7. ManagerTypeOK'
    BY <2>1, <2>2, <2>5 DEF IInv, MInv, ManagerTypeOK
  <2>8. /\ seen'[k] \subseteq Past /\ pc'[k] = "reading"
        /\ \A j \in Calls \ {k} : op'[j] = op[j] /\ pc'[j] = pc[j] /\ seen'[j] = seen[j]
    BY <2>1, <2>2, <2>4 DEF IInv, MInv, ManagerTypeOK
  <2>9. call[k] = "free" /\ k \notin held
    BY <2>2, FreeCalls
  <2>10. QED
    BY <2>2, <2>5, <2>6, <2>7, <2>8, <2>9, LooksOn
<1>4. QED
  BY <1>2, <1>3

LEMMA PopupKeeps ==
  ASSUME IInv, NEW p \in Targets, RegisterPopup(p)
  PROVE  IInv'
<1>1. /\ page[p] = "open" /\ MayRegister(p, p) /\ bound' = [bound EXCEPT ![p] = p]
      /\ names' = [names EXCEPT ![p] = p] /\ UNCHANGED <<transportVars, op, pc, seen, crossed>>
  BY DEF RegisterPopup, IsOpen
<1>2. TInv' /\ page' = page /\ call' = call /\ of' = of /\ held' = held
  BY <1>1 DEF IInv, TInv, TransportTypeOK, transportVars, Listens, Told, Pends, Aimed, CreatedWhenTold
<1>3. p \in Past
  BY <1>1 DEF Past
<1>4. BoundOK' /\ bound' \in [Targets -> Targets \cup {NoPage}]
  BY <1>1, <1>2, <1>3, BoundRegisters DEF IInv
<1>5. names' \in [Keys -> Targets \cup {NoPage}]
      /\ \A n \in Keys : names'[n] = IF n = p THEN p ELSE names[n]
  BY <1>1 DEF IInv, MInv, ManagerTypeOK, Keys
<1>6. Past' = Past
  BY <1>2 DEF Past
<1>7. NamesOK'
  BY <1>3, <1>5, <1>6 DEF IInv, MInv, NamesOK, Keys
<1>8. TransportMoves
  BY <1>2 DEF TransportMoves
<1>9. QED
  BY <1>1, <1>2, <1>4, <1>5, <1>7, <1>8, CallsWait DEF IInv

(* The transport and Playwright move on their own.                          *)
LEMMA TransportKeeps ==
  ASSUME IInv, TInv', TransportMoves, UNCHANGED <<op, pc, seen, crossed>>,
         Listeners \/ UNCHANGED <<bound, names>>
  PROVE  IInv'
<1>1. PagesMove
  BY MovesOfPages
<1>2. CASE Listeners
  BY <1>1, <1>2, ListenersShrink, CallsWait DEF IInv
<1>3. CASE UNCHANGED <<bound, names>>
  <2>1. BoundOK' /\ NamesOK'
    BY <1>1, <1>3, BoundShrinks, NamesShrink DEF IInv
  <2>2. QED
    BY <1>3, <2>1, CallsWait DEF IInv, MInv, ManagerTypeOK
<1>4. QED
  BY <1>2, <1>3

LEMMA ClosingKeeps ==
  ASSUME IInv,
         \/ \E t \in Targets : TargetCloses(t)
         \/ \E k \in Calls : TargetDetached(k)
  PROVE  IInv'
<1>1. ASSUME NEW t \in Targets, TargetCloses(t) PROVE IInv'
  <2>1. /\ live' = live \ {t} /\ coming' = coming \ {t} /\ page' = [page EXCEPT ![t] = "closed"]
        /\ Listeners
        /\ UNCHANGED <<closed, unborn, call, of, held, waiter, heard, op, pc, seen, crossed>>
    BY <1>1 DEF TargetCloses
  <2>2. /\ page' \in [Targets -> {"none", "told", "open", "closed"}]
        /\ \A u \in Targets : page'[u] \in {page[u], "closed"}
        /\ \A u \in Targets : page[u] # "none" => page'[u] # "none"
    BY <2>1 DEF IInv, TInv, TransportTypeOK
  <2>3. call' \in [Calls -> CallStates]
    BY <2>1 DEF IInv, TInv, TransportTypeOK, CallStates
  <2>4. TInv'
    BY <2>1, <2>2, <2>3, PagesKeep DEF IInv
  <2>5. TransportMoves
    BY <2>1, <2>2 DEF TransportMoves
  <2>6. QED
    BY <2>1, <2>4, <2>5, TransportKeeps
<1>2. ASSUME NEW k \in Calls, TargetDetached(k) PROVE IInv'
  <2>1. /\ call[k] = "detach" /\ call' = [call EXCEPT ![k] = "refused"]
        /\ page' = [page EXCEPT ![of[k]] = "closed"]
        /\ Listeners
        /\ UNCHANGED <<closed, live, unborn, of, held, waiter, heard, coming, op, pc, seen, crossed>>
    BY <1>2 DEF TargetDetached
  <2>2. of[k] \in Targets
    BY <2>1 DEF IInv, TInv, Aimed
  <2>3. /\ page' \in [Targets -> {"none", "told", "open", "closed"}]
        /\ \A u \in Targets : page'[u] \in {page[u], "closed"}
        /\ \A u \in Targets : page[u] # "none" => page'[u] # "none"
    BY <2>1, <2>2 DEF IInv, TInv, TransportTypeOK
  <2>4. /\ call' \in [Calls -> CallStates]
        /\ call'[k] = "refused" /\ \A j \in Calls \ {k} : call'[j] = call[j]
    BY <2>1 DEF IInv, TInv, TransportTypeOK, CallStates, Commands, Outcomes
  <2>5. TInv'
    BY <2>1, <2>3, <2>4, PagesKeep DEF IInv
  <2>6. TransportMoves
    BY <2>1, <2>3, <2>4 DEF TransportMoves
  <2>7. QED
    BY <2>1, <2>5, <2>6, TransportKeeps
<1>3. QED
  BY <1>1, <1>2

(* A page that opens is registered nowhere, and is marked by the calls it   *)
(* crosses.                                                                 *)
LEMMA OpeningKeeps ==
  ASSUME IInv, NEW t \in Targets, PageOpens(t)
  PROVE  IInv'
<1>1. /\ page[t] = "told" /\ page' = [page EXCEPT ![t] = "open"]
      /\ crossed' = crossed \cup {k \in Calls : Attaching(k) /\ of[k] # t}
      /\ UNCHANGED <<closed, live, unborn, call, of, held, waiter, heard, coming, op, pc, seen,
                     bound, names>>
  BY DEF PageOpens
<1>2. /\ page' \in [Targets -> {"none", "told", "open", "closed"}]
      /\ page'[t] = "open" /\ \A u \in Targets \ {t} : page'[u] = page[u]
  BY <1>1 DEF IInv, TInv, TransportTypeOK
<1>3. TInv'
  <2>1. call' \in [Calls -> CallStates]
    BY <1>1 DEF IInv, TInv, TransportTypeOK, CallStates
  <2>2. QED
    BY <1>1, <1>2, <2>1, PagesKeep DEF IInv
<1>4. PagesMove
  BY <1>1, <1>2 DEF PagesMove
<1>5. BoundOK' /\ NamesOK'
  BY <1>1, <1>4, BoundShrinks, NamesShrink DEF IInv
<1>6. ManagerTypeOK'
  BY <1>1 DEF IInv, MInv, ManagerTypeOK
<1>7. ASSUME NEW k \in Calls PROVE FitsAt(k)' /\ UncrossedAt(k)' /\ seen'[k] \subseteq Past'
  <2>1. FitsAt(k) /\ UncrossedAt(k) /\ seen[k] \subseteq Past
    BY DEF IInv, MInv, CallsOK
  <2>2. FitsAt(k)'
    BY <1>1, <2>1 DEF FitsAt
  <2>3. seen'[k] \subseteq Past'
    BY <1>1, <1>2, <2>1 DEF Past
  <2>4. OpenPages' \subseteq OpenPages \cup {t}
    BY <1>2 DEF OpenPages
  <2>5. UncrossedAt(k)'
    BY <1>1, <2>1, <2>4 DEF UncrossedAt, Attaching
  <2>6. QED
    BY <2>2, <2>3, <2>5
<1>8. QED
  BY <1>3, <1>5, <1>6, <1>7 DEF IInv, MInv, CallsOK

LEMMA NextKeeps ==
  ASSUME IInv, [Next]_vars
  PROVE  IInv'
<1>1. ASSUME NEW k \in Calls, Goes(k) PROVE IInv'
  <2>1. CASE AttachStep(k)
    BY <2>1, AttachesKeeps, TransportKeeps DEF AttachStep, IInv
  <2>2. CASE TargetDetached(k)
    BY <2>2, ClosingKeeps
  <2>3. QED
    BY <1>1, <2>1, <2>2, LookKeeps, GetKeeps, EndsKeep, ListKeeps DEF Goes
<1>2. ASSUME NEW t \in Targets, Report(t) /\ UNCHANGED managerVars PROVE IInv'
  BY <1>2, ReportKeeps, TransportKeeps DEF managerVars, IInv
<1>3. CASE TabOpens /\ UNCHANGED managerVars
  BY <1>3, TabOpensKeeps, TransportKeeps DEF managerVars, IInv
<1>4. CASE Disconnect
  BY <1>4, HangUpMoves, TransportKeeps DEF Disconnect, IInv
<1>5. CASE UNCHANGED vars
  <2>1. TInv' /\ TransportMoves
    BY <1>5 DEF vars, transportVars, IInv, TInv, TransportTypeOK, Listens, Told, Pends, Aimed,
                CreatedWhenTold, TransportMoves
  <2>2. QED
    BY <1>5, <2>1, TransportKeeps DEF vars, managerVars
<1>6. QED
  BY <1>1, <1>2, <1>3, <1>4, <1>5, BeginKeeps, PopupKeeps, OpeningKeeps, ClosingKeeps DEF Next

-----------------------------------------------------------------------------
(* IInv holds in every state.                                               *)
THEOREM PagesInvariance == Spec => []IInv
<1>1. Init => IInv
  <2>1. SUFFICES ASSUME Init PROVE IInv
    OBVIOUS
  <2>2. TransportTypeOK
    BY <2>1 DEF Init, TransportInit, TransportTypeOK, Commands, Outcomes
  <2>3. TInv
    BY <2>1, <2>2 DEF Init, TransportInit, TInv, Listens, Told, Pends, Aimed, CreatedWhenTold, Commands
  <2>4. ManagerTypeOK
    BY <2>1 DEF Init, ManagerTypeOK
  <2>5. CallsOK
    BY <2>1 DEF Init, TransportInit, CallsOK, FitsAt, UncrossedAt, Attaching
  <2>6. BoundOK /\ NamesOK
    BY <2>1 DEF Init, BoundOK, NamesOK, NoPageBoundTwice, IsOpen, Keys
  <2>7. QED
    BY <2>3, <2>4, <2>5, <2>6 DEF IInv, MInv
<1>2. IInv /\ [Next]_vars => IInv'
  BY NextKeeps
<1>3. QED
  BY <1>1, <1>2, PTL DEF Spec

(* TypeOK holds in every state: a call that waits for no answer of the      *)
(* transport has none of it under way.                                      *)
THEOREM PagesTypeCorrect == Spec => []TypeOK
<1>1. IInv => TypeOK
  BY DEF IInv, TInv, MInv, ManagerTypeOK, CallsOK, FitsAt, TypeOK
<1>2. QED
  BY <1>1, PagesInvariance, PTL

(* Playwright never waits for the page of a target it was not told of:      *)
(* targets it created are announced before their creation is answered.      *)
THEOREM CreationsAreAnnounced == Spec => []CreatedWhenTold
<1>1. IInv => CreatedWhenTold
  BY DEF IInv, TInv
<1>2. QED
  BY <1>1, PagesInvariance, PTL

(* No call waits for an answer that cannot come any more, whenever the      *)
(* connection ends.                                                         *)
THEOREM EverythingPendingMayEnd == Spec => []NothingPendsInVain
<1>1. IInv => NothingPendsInVain
  BY DEF IInv, TInv, Pends, MInv, CallsOK, FitsAt, NothingPendsInVain
<1>2. QED
  BY <1>1, PagesInvariance, PTL

(* No page is registered for two targets, however many calls attach.        *)
THEOREM PagesHaveOneTarget == Spec => []NoPageBoundTwice
<1>1. IInv => NoPageBoundTwice
  BY DEF IInv, MInv, BoundOK
<1>2. QED
  BY <1>1, PagesInvariance, PTL

(* What a step registers for a target: its own page, or the one that        *)
(* appeared while a call attached it.                                       *)
LEMMA WhatIsRegistered ==
  ASSUME IInv, [Next]_vars, NEW t \in Targets, bound'[t] \notin {bound[t], NoPage, t}
  PROVE  \E k \in Calls : PollFindsOne(k) /\ of[k] = t /\ bound'[t] \in NewPages(k)
<1>1. ASSUME Listeners PROVE FALSE
  BY <1>1 DEF Listeners
<1>2. ASSUME NEW k \in Calls, Begin(k) PROVE FALSE
  BY <1>2 DEF Begin, BeginGet, BeginNamed, BeginClose, BeginList, IInv, MInv, ManagerTypeOK
<1>3. ASSUME NEW k \in Calls, LookFinds(k) PROVE FALSE
  BY <1>3 DEF LookFinds, Register, IInv, MInv, ManagerTypeOK
<1>4. ASSUME NEW k \in Calls, ListReads(k) PROVE FALSE
  BY <1>4 DEF ListReads, IInv, MInv, ManagerTypeOK
<1>5. ASSUME NEW u \in Targets, RegisterPopup(u) PROVE FALSE
  BY <1>5 DEF RegisterPopup, IInv, MInv, ManagerTypeOK
<1>6. ASSUME NEW k \in Calls, PollFindsOne(k) PROVE of[k] = t /\ bound'[t] \in NewPages(k)
  <2>1. PICK p \in NewPages(k) : Register(k, of[k], p)
    BY <1>6 DEF PollFindsOne
  <2>2. QED
    BY <2>1 DEF Register, IInv, MInv, ManagerTypeOK
<1>7. ASSUME NEW k \in Calls, Goes(k), ~PollFindsOne(k) PROVE FALSE
  BY <1>1, <1>3, <1>4, <1>7 DEF Goes, LookFails, LookMisses, GetListed, GetActivated, AttachStep,
     PollFindsMany, PollGivesUp, TargetDetached, NamedCreated, CallRefused, ListListed, ListEnds,
     CloseEnds, managerVars
<1>8. ASSUME NEW u \in Targets, PageOpens(u) PROVE FALSE
  BY <1>8 DEF PageOpens
<1>9. QED
  BY <1>1, <1>2, <1>5, <1>6, <1>7, <1>8 DEF Next, vars, managerVars, TargetCloses, Disconnect

(* A target gets the page of another only from a call that another page     *)
(* crossed: a call that is alone in attaching gets the page it asked for,   *)
(* though it can only tell it by its being new.                             *)
THEOREM BindingsAreExact == Spec => ExactUnlessCrossed
<1>1. ASSUME IInv, [Next]_vars, NEW t \in Targets,
             bound'[t] # bound[t], bound'[t] \notin {t, NoPage}
      PROVE  \E k \in crossed : of[k] = t
  <2>1. PICK k \in Calls : PollFindsOne(k) /\ of[k] = t /\ bound'[t] \in NewPages(k)
    BY <1>1, WhatIsRegistered
  <2>2. call[k] = "attached"
    BY <2>1 DEF PollFindsOne
  <2>3. op[k].kind = "get"
    BY <1>1, <2>2 DEF IInv, TInv, Pends, MInv, CallsOK, FitsAt
  <2>4. Attaching(k) /\ UncrossedAt(k)
    BY <1>1, <2>2, <2>3 DEF Attaching, IInv, MInv, CallsOK
  <2>5. k \in crossed
    BY <1>1, <2>1, <2>4 DEF UncrossedAt, NewPages
  <2>6. QED
    BY <2>1, <2>5
<1> DEFINE Exact == \A t \in Targets : bound'[t] # bound[t] /\ bound'[t] \notin {t, NoPage} =>
                      \E k \in crossed : of[k] = t
<1>2. IInv /\ [Next]_vars => [Exact]_vars
  BY <1>1
<1>3. QED
  BY <1>2, PagesInvariance, PTL DEF Spec, ExactUnlessCrossed

(* A name that refers to an open page is taken from it only by a request    *)
(* for that name, whichever other pages close meanwhile.                    *)
THEOREM NamesAreKept == Spec => NamesOutliveOthers
<1> DEFINE Freed(n) == \E k \in Calls :
             \/ op'[k] = [kind |-> "close", what |-> n] /\ pc[k] = "idle"
             \/ op[k] = [kind |-> "named", what |-> n] /\ names'[n] = of[k]
<1>1. ASSUME IInv, [Next]_vars, NEW n \in Keys,
             IsOpen(names[n]), page'[names[n]] = "open", names'[n] # names[n]
      PROVE  Freed(n)
  <2>1. ASSUME Listeners PROVE FALSE
    BY <1>1, <2>1 DEF Listeners
  <2>2. ASSUME NEW k \in Calls, NEW m \in Names, BeginClose(k, m) PROVE Freed(n)
    <3>1. m = n /\ pc[k] = "idle" /\ op' = [op EXCEPT ![k] = [kind |-> "close", what |-> m]]
      BY <1>1, <2>2 DEF BeginClose, Starts, MayStart, IInv, MInv, ManagerTypeOK
    <3>2. op'[k] = [kind |-> "close", what |-> n]
      BY <1>1, <3>1 DEF IInv, MInv, ManagerTypeOK
    <3>3. QED
      BY <3>1, <3>2
  <2>3. ASSUME NEW k \in Calls, Begin(k) PROVE Freed(n)
    <3>1. ASSUME NEW m \in Names, BeginNamed(k, m) PROVE FALSE
      BY <1>1, <3>1 DEF BeginNamed, IInv, MInv, ManagerTypeOK
    <3>2. ASSUME BeginList(k) PROVE FALSE
      BY <1>1, <3>2 DEF BeginList
    <3>3. ASSUME NEW t \in Targets, BeginGet(k, t) PROVE FALSE
      BY <1>1, <3>3 DEF BeginGet
    <3>4. QED
      BY <2>2, <2>3, <3>1, <3>2, <3>3 DEF Begin
  <2>4. ASSUME NEW k \in Calls, NamedCreated(k) PROVE Freed(n)
    <3>1. call[k] = "created" /\ op[k].what = n /\ names'[n] = of[k]
      BY <1>1, <2>4 DEF NamedCreated, IInv, MInv, ManagerTypeOK
    <3>2. op[k].kind = "named"
      BY <1>1, <3>1 DEF IInv, MInv, CallsOK, FitsAt
    <3>3. op[k] \in [kind : {"named"}, what : Names]
      BY <1>1, <3>2 DEF IInv, MInv, ManagerTypeOK, Ops, NoOp
    <3>4. op[k] = [kind |-> "named", what |-> n]
      BY <3>1, <3>3
    <3>5. QED
      BY <3>1, <3>4
  <2>5. ASSUME NEW p \in Targets, RegisterPopup(p) PROVE FALSE
    BY <1>1, <2>5 DEF RegisterPopup, IInv, MInv, ManagerTypeOK, NamesOK, IsOpen
  <2>6. ASSUME NEW k \in Calls, Goes(k) PROVE Freed(n)
    BY <1>1, <2>1, <2>4, <2>6 DEF Goes, LookFinds, LookFails, LookMisses, GetListed, GetActivated,
       AttachStep, PollFindsOne, PollFindsMany, PollGivesUp, TargetDetached, CallRefused, ListListed,
       ListReads, ListEnds, CloseEnds, managerVars
  <2>7. ASSUME NEW t \in Targets, PageOpens(t) PROVE FALSE
    BY <1>1, <2>7 DEF PageOpens
  <2>8. QED
    BY <1>1, <2>1, <2>3, <2>5, <2>6, <2>7 DEF Next, vars, managerVars, TargetCloses, Disconnect
<1> DEFINE Kept == \A n \in Keys :
             IsOpen(names[n]) /\ page'[names[n]] = "open" /\ names'[n] # names[n] => Freed(n)
<1>2. IInv /\ [Next]_vars => [Kept]_vars
  BY <1>1
<1>3. QED
  BY <1>2, PagesInvariance, PTL DEF Spec, NamesOutliveOthers
===============================================================================
