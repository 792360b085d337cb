------------------------------ MODULE PageLeases ------------------------------
(***************************************************************************)
(* Writer leases on pages (PageLeaseManager in daemon/src/sessions.ts).     *)
(* Every operation first removes the leases that have expired, so an        *)
(* expired lease stays in the two maps until the next operation.  A lease   *)
(* is on a page under the name it was asked for, and nothing locks it.      *)
(***************************************************************************)
EXTENDS Clock

CONSTANTS
  Names,        \* what pages are called
  Sessions,     \* session identifiers, each generated once
  NoSession,    \* no lease, or a request without a session
  Lifetimes     \* the values of ttl

ASSUME NoSessionAssumption == NoSession \notin Sessions
ASSUME LifetimesAssumption == Lifetimes \subseteq Nat \ {0}

VARIABLES
  lease,        \* page and expiry of every session ever opened
  bySession,    \* the sessions on record
  byPage        \* the session that leases a page

leaseVars == <<lease, bySession, byPage>>

NoLease == [page |-> "none", until |-> 0]

LeasesTypeOK ==
  /\ lease \in [Sessions -> [page : Names, until : Nat] \cup {NoLease}]
  /\ bySession \in SUBSET Sessions
  /\ byPage \in [Names -> Sessions \cup {NoSession}]

LeasesInit ==
  /\ lease = [s \in Sessions |-> NoLease]
  /\ bySession = {}
  /\ byPage = [n \in Names |-> NoSession]

-----------------------------------------------------------------------------
(* cleanup(): what is on record once the expired leases are removed.        *)
Expired == {s \in bySession : lease[s].until <= now}
Current == bySession \ Expired
Leased  == [n \in Names |-> IF byPage[n] \in Expired THEN NoSession ELSE byPage[n]]

CleanUp ==
  /\ bySession' = Current
  /\ byPage' = Leased

(* open: refused while the page is leased.                                  *)
OpenLease(s, n, ttl) ==
  /\ lease[s] = NoLease
  /\ Leased[n] = NoSession
  /\ lease' = [lease EXCEPT ![s] = [page |-> n, until |-> now + ttl]]
  /\ bySession' = Current \cup {s}
  /\ byPage' = [Leased EXCEPT ![n] = s]

(* Slip: renew does not remove the leases that have expired.                *)
RenewExpired(s, ttl) ==
  /\ s \in bySession
  /\ lease' = [lease EXCEPT ![s].until = now + ttl]
  /\ UNCHANGED <<bySession, byPage>>

(* renew: refused for a session that is expired or unknown.                 *)
RenewLease(s, ttl) ==
  /\ s \in Current
  /\ lease' = [lease EXCEPT ![s].until = now + ttl]
  /\ CleanUp

(* close: likewise.                                                         *)
CloseLease(s) ==
  /\ s \in Current
  /\ bySession' = Current \ {s}
  /\ byPage' = [n \in Names |-> IF Leased[n] = s THEN NoSession ELSE Leased[n]]
  /\ UNCHANGED lease

(* assertMutationAllowed: is the page free, or leased by this session?      *)
MutationAllowed(n, s) == Leased[n] \in {NoSession, s}

LeaseStep ==
  \E s \in Sessions :
    \/ \E n \in Names, ttl \in Lifetimes : OpenLease(s, n, ttl)
    \/ \E ttl \in Lifetimes : RenewLease(s, ttl)
    \/ CloseLease(s)

-----------------------------------------------------------------------------
(* The sessions that have a lease on page `n` at this moment.               *)
Writers(n) == {s \in bySession : lease[s].page = n /\ lease[s].until > now}
=============================================================================
