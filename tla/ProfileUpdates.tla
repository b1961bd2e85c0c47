---------------------------- MODULE ProfileUpdates ----------------------------
(***************************************************************************)
(* Loadout changes of a Realms session (core/profile_updates.lua).         *)
(*                                                                         *)
(* A player who changes a loadout announces the change to the host at once *)
(* (profile_pending) and sends the new profile (profile_update) when the   *)
(* backend has returned it, or withdraws the change (profile_cancel) when  *)
(* the fetch fails.  Changes of one player are numbered.  The host notes   *)
(* the announced change of every player and waits for it before a mission  *)
(* starts.                                                                 *)
(*                                                                         *)
(* The module holds the state of that file on the host and on every peer,  *)
(* and one operator per function.  Preparation.tla composes them with the  *)
(* readiness protocol that calls them and with the control channels.       *)
(*                                                                         *)
(* Profiles are abstract: the profile a player has after change n is n,    *)
(* and the profile a player joined with is 0.                              *)
(***************************************************************************)
EXTENDS Naturals, Sequences

CONSTANTS Host,      \* the peer that hosts
          Clients    \* the peers that may join

ASSUME HostAssumption == Host \notin Clients

Peers == Clients \union {Host}

VARIABLES
    pending,    \* host: pending_by_peer, the announced change awaited per peer
    latest,     \* host: latest_sequence_by_peer
    applied,    \* host: the change the stored profile of each peer includes
    unsynced,   \* host: peers whose profile the engine is still distributing
    update      \* every peer: its own numbered change and unsent messages

profileVars == <<pending, latest, applied, unsynced, update>>

NoPending == [seq |-> 0, received |-> FALSE]
Awaiting(s, r) == [seq |-> s, received |-> r]

(* local_sequence; the number for which a fetch runs (0: none); the numbers *)
(* in pending_notice, pending_delivery and pending_cancel (0: none).        *)
NoUpdate == [seq |-> 0, fetch |-> 0, notice |-> 0, delivery |-> 0, cancel |-> 0]

Number == [seq : Nat, fetch : Nat, notice : Nat, delivery : Nat, cancel : Nat]

ProfileTypeOK ==
    /\ pending \in [Peers -> [seq : Nat, received : BOOLEAN]]
    /\ latest \in [Peers -> Nat]
    /\ applied \in [Peers -> Nat]
    /\ unsynced \subseteq Peers
    /\ update \in [Peers -> Number]

ProfileInit ==
    /\ pending = [p \in Peers |-> NoPending]
    /\ latest = [p \in Peers |-> 0]
    /\ applied = [p \in Peers |-> 0]
    /\ unsynced = {}
    /\ update = [p \in Peers |-> NoUpdate]

-----------------------------------------------------------------------------
(* The peer that changes its loadout.                                       *)

(* A second change while a fetch runs only raises the number: the running   *)
(* fetch is repeated when it returns.                                       *)
Requested(u, onHost) ==
    [seq      |-> u.seq + 1,
     fetch    |-> IF u.fetch = 0 THEN u.seq + 1 ELSE u.fetch,
     notice   |-> IF onHost THEN 0 ELSE u.seq + 1,
     delivery |-> 0,
     cancel   |-> 0]

IsStale(u) == u.fetch # u.seq
Refetched(u) == [u EXCEPT !.fetch = u.seq]
Fetched(u) == [u EXCEPT !.fetch = 0, !.delivery = u.seq, !.cancel = 0]

(* Mutant: a failed fetch withdraws nothing.                                *)
FailsSilently(u) == [u EXCEPT !.fetch = 0, !.delivery = 0, !.cancel = 0]

FetchFailed(u) == [u EXCEPT !.fetch = 0, !.delivery = 0, !.cancel = u.seq]

(* Dropping local_change also detaches the fetch that runs for it.          *)
Discarded(u) == [NoUpdate EXCEPT !.seq = u.seq]

(* flush_client_messages: the notice first, then the profile or its         *)
(* withdrawal.                                                              *)
Outbox(u) ==
    (IF u.notice # 0
       THEN <<[type |-> "profile_pending", seq |-> u.notice]>> ELSE <<>>)
    \o (IF u.delivery # 0
          THEN <<[type |-> "profile_update", seq |-> u.delivery]>>
          ELSE IF u.cancel # 0
                 THEN <<[type |-> "profile_cancel", seq |-> u.cancel]>>
                 ELSE <<>>)

Flushed(u) == [u EXCEPT !.notice = 0, !.delivery = 0, !.cancel = 0]

-----------------------------------------------------------------------------
(* The host.                                                                *)

(* A change that arrives when changes are no longer allowed only uses up    *)
(* its number.                                                              *)
RefuseChange(p, s) ==
    /\ latest' = [latest EXCEPT ![p] = IF s > @ THEN s ELSE @]
    /\ pending' = [pending EXCEPT ![p] = NoPending]
    /\ UNCHANGED <<applied, unsynced>>

(* Mutant: the number is noted, the change is not awaited.                  *)
NotedOnly(p, s, allowed) ==
    /\ latest' = [latest EXCEPT ![p] = IF s > @ THEN s ELSE @]
    /\ UNCHANGED <<pending, applied, unsynced, update>>

ReceivePending(p, s, allowed) ==
    /\ \/ /\ ~allowed
          /\ RefuseChange(p, s)
       \/ /\ allowed /\ s <= latest[p]
          /\ UNCHANGED <<latest, pending, applied, unsynced>>
       \/ /\ allowed /\ s > latest[p]
          /\ latest' = [latest EXCEPT ![p] = s]
          /\ pending' = [pending EXCEPT ![p] = Awaiting(s, FALSE)]
          /\ UNCHANGED <<applied, unsynced>>
    /\ UNCHANGED update

(* The profile of change s is stored and handed to the synchronizer.        *)
ApplyProfile(p, s) ==
    /\ pending' = [pending EXCEPT ![p] = Awaiting(s, TRUE)]
    /\ applied' = [applied EXCEPT ![p] = s]
    /\ unsynced' = unsynced \union {p}

(* An update is new when its number is above the latest, or when it is the  *)
(* one that was announced and has not arrived.                              *)
IsNewUpdate(p, s) ==
    \/ s > latest[p]
    \/ s = latest[p] /\ pending[p] = Awaiting(s, FALSE)

ReceiveUpdate(p, s, allowed) ==
    /\ \/ /\ ~allowed
          /\ RefuseChange(p, s)
       \/ /\ allowed /\ ~IsNewUpdate(p, s)
          /\ UNCHANGED <<latest, pending, applied, unsynced>>
       \/ /\ allowed /\ IsNewUpdate(p, s)
          /\ latest' = [latest EXCEPT ![p] = s]
          /\ ApplyProfile(p, s)
    /\ UNCHANGED update

ClearPending(p, s) ==
    pending' = [pending EXCEPT ![p] = IF @.seq = s THEN NoPending ELSE @]

(* A withdrawal the host has no announcement for is a protocol error: the   *)
(* caller closes the channel.                                               *)
IsUnannouncedCancel(p, s) == s > latest[p]

ReceiveCancel(p, s) ==
    /\ IF s = latest[p] THEN ClearPending(p, s) ELSE UNCHANGED pending
    /\ UNCHANGED <<latest, applied, unsynced, update>>

(* ProfileUpdates.remote_disconnected.                                      *)
ForgetPeer(p) ==
    /\ pending' = [pending EXCEPT ![p] = NoPending]
    /\ latest' = [latest EXCEPT ![p] = 0]

(* PlayerManager.remove_player, hooked: the change is no longer awaited, the *)
(* number stays.                                                            *)
RemovePlayer(p) ==
    /\ pending' = [pending EXCEPT ![p] = NoPending]
    /\ UNCHANGED latest

(* Nothing is awaited and every profile has reached every peer.             *)
ReadyToStart ==
    /\ \A p \in Peers : pending[p] = NoPending
    /\ unsynced = {}

(* ProfileUpdates.update on the host, after everything else in the frame.   *)
UpdateHostProfiles(allowed) ==
    /\ pending' = [p \in Peers |->
                     IF \/ ~allowed
                        \/ pending[p].received /\ p \notin unsynced
                     THEN NoPending ELSE pending[p]]
    /\ update' = IF allowed THEN update
                 ELSE [update EXCEPT ![Host] = Discarded(@)]
    /\ UNCHANGED <<latest, applied, unsynced>>

(* The engine's profile synchronizer has delivered p's profile to all.      *)
SynchronizerDone(p) ==
    /\ p \in unsynced
    /\ unsynced' = unsynced \ {p}
    /\ UNCHANGED <<pending, latest, applied, update>>

(* The host's own loadout change: awaited like any other, applied directly. *)
HostChangesLoadout(allowed) ==
    /\ allowed
    /\ update' = [update EXCEPT ![Host] = Requested(@, TRUE)]
    /\ pending' = [pending EXCEPT ![Host] = Awaiting(update[Host].seq + 1, FALSE)]
    /\ UNCHANGED <<latest, applied, unsynced>>

HostFetchReturns ==
    /\ update[Host].fetch # 0
    /\ IF IsStale(update[Host])
       THEN /\ update' = [update EXCEPT ![Host] = Refetched(@)]
            /\ UNCHANGED <<pending, applied, unsynced>>
       ELSE /\ update' = [update EXCEPT ![Host].fetch = 0]
            /\ ApplyProfile(Host, update[Host].seq)
    /\ UNCHANGED latest

HostFetchFails ==
    /\ update[Host].fetch # 0
    /\ IF IsStale(update[Host])
       THEN /\ update' = [update EXCEPT ![Host] = Refetched(@)]
            /\ UNCHANGED pending
       ELSE /\ update' = [update EXCEPT ![Host].fetch = 0]
            /\ ClearPending(Host, update[Host].seq)
    /\ UNCHANGED <<latest, applied, unsynced>>
=============================================================================
