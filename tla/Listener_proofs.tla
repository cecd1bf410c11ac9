--------------------------- MODULE Listener_proofs ---------------------------
(***************************************************************************)
(* For any number of messages, goroutines and faults and any capacity of   *)
(* the two channels: the listener and the recovery sweep keep their        *)
(* invariants, and together they implement module Delivery.                *)
(***************************************************************************)
EXTENDS Listener, TLAPS

\* The messages that INBOX has held: what leaves it is taken out by onEmail.
Met == inbox \cup returned

\* Whatever is fetched or worked on has been in INBOX.
FromInbox ==
    /\ batch \subseteq Met /\ rbatch \subseteq Met
    /\ \A g \in Goroutine : gpc[g] # "free" => job[g] \in Met
    /\ \A r \in Sweeper : rjob[r] # None => rjob[r] \in Met

\* Whatever is on its way to a STORE has been through onEmail. The sweep lists a
\* UID before its call returns, and waits for the calls.
Marked ==
    /\ marks \subseteq returned /\ Contents(seenCh) \subseteq returned
    /\ \A g \in Goroutine : gpc[g] \in {"done", "confirm"} => job[g] \in returned
    /\ \A u \in dispatched : u \in returned \/ \E r \in Sweeper : rjob[r] = u

IInv == TypeOK /\ FromInbox /\ Marked /\ InFlightIsLive /\ NothingForgotten

------------------------------------------------------------------------------
(* Channels and calls.                                                      *)

\* An empty channel holds nothing and is within capacity.
LEMMA EmptyChannel ==
    ASSUME ListenerAssumption
    PROVE  /\ <<>> \in Seq(Uid) /\ Contents(<<>>) = {}
           /\ Len(<<>>) <= SeenCap /\ Len(<<>>) <= ConfirmCap
  <1>1. <<>> \in Seq(Uid) /\ Contents(<<>>) = {} /\ Len(<<>>) = 0
    BY DEF Contents
  <1> QED BY <1>1 DEF ListenerAssumption

\* What a channel holds after a send.
LEMMA ChannelContents ==
    ASSUME NEW ch \in Seq(Uid), NEW u \in Uid
    PROVE  /\ Append(ch, u) \in Seq(Uid) /\ Len(Append(ch, u)) = Len(ch) + 1
           /\ Contents(Append(ch, u)) = Contents(ch) \cup {u}
           /\ Contents(ch) \subseteq Uid
  <1>1. /\ Append(ch, u) \in Seq(Uid) /\ Len(Append(ch, u)) = Len(ch) + 1
        /\ \A i \in 1..Len(ch) : Append(ch, u)[i] = ch[i]
        /\ Append(ch, u)[Len(ch) + 1] = u
        /\ Len(ch) \in Nat /\ DOMAIN ch = 1..Len(ch)
        /\ DOMAIN Append(ch, u) = 1..(Len(ch) + 1)
    OBVIOUS
  <1>2. 1..(Len(ch) + 1) = 1..Len(ch) \cup {Len(ch) + 1}
    BY <1>1
  <1>3. Contents(Append(ch, u)) = Contents(ch) \cup {u}
    BY <1>1, <1>2 DEF Contents
  <1>4. Contents(ch) \subseteq Uid
    BY DEF Contents
  <1> QED BY <1>1, <1>3, <1>4

\* A send that looks at the capacity first stays within it.
LEMMA SendTyped ==
    ASSUME NEW ch \in Seq(Uid), NEW u \in Uid, NEW cap \in Nat, Len(ch) < cap
    PROVE  Append(ch, u) \in Seq(Uid) /\ Len(Append(ch, u)) <= cap
  <1>1. Len(ch) \in Nat
    OBVIOUS
  <1> QED BY <1>1, ChannelContents

\* A fault is taken from the budget.
LEMMA FailsTyped ==
    ASSUME left \in Nat, Fails
    PROVE  left' \in Nat
  BY DEF Fails

\* A call of onEmail takes at most its own message out of INBOX.
LEMMA OnEmailEffect ==
    ASSUME TypeOK, NEW u \in Uid, OnEmail(u)
    PROVE  /\ returned' = returned \cup {u}
           /\ inbox' \in {inbox, inbox \ {u}}
           /\ Met' = Met \cup {u}
           /\ inbox' \subseteq Uid /\ recorded' \subseteq Uid /\ returned' \subseteq Uid
           /\ left' \in Nat
  BY DEF OnEmail, Fails, TypeOK, Met

\* A goroutine at work, and a busy slot of the sweep, hold a UID.
LEMMA JobsAreUids ==
    ASSUME TypeOK, FromInbox
    PROVE  /\ \A g \in Goroutine : gpc[g] # "free" => job[g] \in Uid
           /\ \A r \in Sweeper : rjob[r] # None => rjob[r] \in Uid
           /\ Met \subseteq Uid
  BY DEF TypeOK, FromInbox, Met

------------------------------------------------------------------------------
(* Types.                                                                   *)

LEMMA TypeInit == ASSUME ListenerAssumption, Init PROVE TypeOK
  <1>1. /\ seenCh \in Seq(Uid) /\ Len(seenCh) <= SeenCap
        /\ seenConfirmCh \in Seq(Uid) /\ Len(seenConfirmCh) <= ConfirmCap
    BY EmptyChannel DEF Init
  <1> QED BY <1>1, Zenon DEF ListenerAssumption, Init, TypeOK

\* Every action keeps the types; a send looks at the capacity first.
LEMMA TypeStep ==
    ASSUME ListenerAssumption, TypeOK, FromInbox, [Next]_vars
    PROVE  TypeOK'
  <1> USE DEF TypeOK, server, store, listener, workers, recovery
  <1>1. ASSUME NEW u \in Uid, Arrive(u) PROVE TypeOK'
    BY <1>1 DEF Arrive
  <1>2. CASE Notify
    BY <1>2, Zenon DEF Notify
  <1>3. CASE Connect \/ Quit \/ Disconnect
    BY <1>3, FailsTyped, Zenon DEF Connect, Quit, Disconnect, Hangup
  <1>4. CASE Enter \/ Wake \/ NextRound
    BY <1>4, Zenon DEF Enter, Wake, NextRound
  <1>5. CASE DrainSeen \/ DrainConfirmed
    <2>1. Contents(seenCh) \subseteq Uid
      BY DEF Contents
    <2> QED BY <1>5, <2>1, EmptyChannel, Zenon DEF DrainSeen, DrainConfirmed
  <1>6. CASE Store
    BY <1>6, FailsTyped DEF Store, StoreSeen
  <1>7. CASE Search \/ Fetch \/ SearchFails
    BY <1>7, FailsTyped, Zenon DEF Search, Fetch, SearchFails, Unseen
  <1>8. ASSUME NEW u \in Uid, NEW g \in Goroutine, Dispatch(u, g) PROVE TypeOK'
    BY <1>8 DEF Dispatch
  <1>9. ASSUME NEW u \in Uid, DispatchCancelled(u) \/ SkipEmpty(u) PROVE TypeOK'
    BY <1>9, FailsTyped DEF DispatchCancelled, SkipEmpty
  <1>10. ASSUME NEW g \in Goroutine, OnEmailReturns(g) PROVE TypeOK'
    BY <1>10, JobsAreUids, OnEmailEffect DEF OnEmailReturns
  <1>11. ASSUME NEW g \in Goroutine, PushSeen(g) PROVE TypeOK'
    <2>1. job[g] \in Uid
      BY <1>11, JobsAreUids DEF PushSeen
    <2>2. seenCh' \in Seq(Uid) /\ Len(seenCh') <= SeenCap
      BY <1>11, <2>1, SendTyped DEF PushSeen, ListenerAssumption
    <2> QED BY <1>11, <2>2 DEF PushSeen
  <1>12. ASSUME NEW g \in Goroutine, PushConfirm(g) PROVE TypeOK'
    <2>1. job[g] \in Uid
      BY <1>12, JobsAreUids DEF PushConfirm
    <2>2. \/ /\ Len(seenConfirmCh) < ConfirmCap
             /\ seenConfirmCh' = Append(seenConfirmCh, job[g])
          \/ UNCHANGED seenConfirmCh
      BY <1>12 DEF PushConfirm
    <2>3. seenConfirmCh' \in Seq(Uid) /\ Len(seenConfirmCh') <= ConfirmCap
      <3>1. /\ seenConfirmCh \in Seq(Uid) /\ Len(seenConfirmCh) <= ConfirmCap
            /\ ConfirmCap \in Nat
        BY DEF ListenerAssumption
      <3> HIDE DEF TypeOK
      <3> QED BY <2>1, <2>2, <3>1, SendTyped, Zenon
    <2>4. stuck' \subseteq Uid
      BY <1>12, <2>1 DEF PushConfirm
    <2> QED BY <1>12, <2>3, <2>4 DEF PushConfirm
  <1>13. CASE Sweep \/ DropKnown \/ SweepFetch
    BY <1>13 DEF Sweep, DropKnown, SweepFetch, Unseen
  <1>14. CASE CountFails \/ SweepFails
    BY <1>14, FailsTyped DEF CountFails, SweepFails
  <1>15. ASSUME NEW u \in Uid, NEW r \in Sweeper, SweepDispatch(u, r) PROVE TypeOK'
    BY <1>15 DEF SweepDispatch
  <1>16. ASSUME NEW u \in Uid, SweepSkipsEmpty(u) PROVE TypeOK'
    BY <1>16, FailsTyped DEF SweepSkipsEmpty
  <1>17. ASSUME NEW r \in Sweeper, SweepReturns(r) PROVE TypeOK'
    BY <1>17, JobsAreUids, OnEmailEffect DEF SweepReturns
  <1>18. CASE SweepStore
    BY <1>18, FailsTyped DEF SweepStore, StoreSeen
  <1>19. CASE Stop
    BY <1>19, FailsTyped DEF Stop
  <1>20. CASE Restart \/ Crash
    <2>1. left' \in Nat /\ Boot
      BY <1>20, FailsTyped DEF Restart, Crash
    <2>2. /\ seenCh' \in Seq(Uid) /\ Len(seenCh') <= SeenCap
          /\ seenConfirmCh' \in Seq(Uid) /\ Len(seenConfirmCh') <= ConfirmCap
      BY <2>1, EmptyChannel DEF Boot
    <2> QED BY <2>1, <2>2, Zenon DEF Boot
  <1>21. CASE UNCHANGED vars
    BY <1>21 DEF vars
  <1> HIDE DEF TypeOK
  <1> QED BY <1>1, <1>2, <1>3, <1>4, <1>5, <1>6, <1>7, <1>8, <1>9, <1>10, <1>11, <1>12, <1>13,
             <1>14, <1>15, <1>16, <1>17, <1>18, <1>19, <1>20, <1>21
          DEF Next, ListenerStep, WorkerStep, RecoveryStep, Fault

------------------------------------------------------------------------------
(* Where the work comes from, and what may be marked.                       *)

\* No step forgets that a message was in INBOX, or that onEmail returned.
LEMMA MetGrows ==
    ASSUME TypeOK, FromInbox, [Next]_vars
    PROVE  Met \subseteq Met' /\ returned \subseteq returned'
  <1> USE DEF server, store
  <1>1. ASSUME UNCHANGED <<inbox, returned>>
        PROVE  Met \subseteq Met' /\ returned \subseteq returned'
    BY <1>1 DEF Met
  <1>2. ASSUME NEW u \in Uid, Arrive(u)
        PROVE  Met \subseteq Met' /\ returned \subseteq returned'
    BY <1>2 DEF Arrive, Met
  <1>3. ASSUME NEW g \in Goroutine, OnEmailReturns(g)
        PROVE  Met \subseteq Met' /\ returned \subseteq returned'
    BY <1>3, JobsAreUids, OnEmailEffect DEF OnEmailReturns
  <1>4. ASSUME NEW r \in Sweeper, SweepReturns(r)
        PROVE  Met \subseteq Met' /\ returned \subseteq returned'
    BY <1>4, JobsAreUids, OnEmailEffect DEF SweepReturns
  <1>5. CASE Notify \/ ListenerStep
    BY <1>1, <1>5
    DEF Notify, ListenerStep, Connect, Quit, Hangup, Enter, Wake, DrainSeen, Store,
        DrainConfirmed, Search, Fetch, NextRound, Dispatch, DispatchCancelled
  <1>6. CASE RecoveryStep
    BY <1>1, <1>6 DEF RecoveryStep, Sweep, DropKnown, SweepFetch, SweepStore, SweepDispatch
  <1>7. CASE Restart \/ Fault
    BY <1>1, <1>7
    DEF Fault, Restart, Disconnect, Hangup, SearchFails, CountFails, SweepFails, Stop, Crash,
        Boot, SkipEmpty, SweepSkipsEmpty
  <1>8. ASSUME NEW g \in Goroutine, PushSeen(g) \/ PushConfirm(g)
        PROVE  Met \subseteq Met' /\ returned \subseteq returned'
    BY <1>1, <1>8 DEF PushSeen, PushConfirm
  <1>9. CASE UNCHANGED vars
    BY <1>1, <1>9 DEF vars
  <1> QED BY <1>2, <1>3, <1>4, <1>5, <1>6, <1>7, <1>8, <1>9 DEF Next, WorkerStep

\* A batch is what a SEARCH found, and a job comes from a batch.
LEMMA FromInboxStep ==
    ASSUME TypeOK, FromInbox, [Next]_vars
    PROVE  FromInbox'
  <1>0. /\ gpc \in [Goroutine -> {"free", "working", "done", "confirm"}]
        /\ job \in [Goroutine -> Uid \cup {None}] /\ rjob \in [Sweeper -> Uid \cup {None}]
    BY DEF TypeOK
  <1> USE <1>0, MetGrows DEF FromInbox, server, store, listener, workers, recovery
  <1>1. ASSUME UNCHANGED <<gpc, job, rjob>>, batch' \subseteq Met', rbatch' \subseteq Met'
        PROVE  FromInbox'
    BY <1>1
  <1>2. inbox \subseteq Met
    BY DEF Met
  <1>3. ASSUME NEW u \in Uid,
               Arrive(u) \/ DispatchCancelled(u) \/ SkipEmpty(u) \/ SweepSkipsEmpty(u)
        PROVE  FromInbox'
    BY <1>1, <1>3 DEF Arrive, DispatchCancelled, SkipEmpty, SweepSkipsEmpty
  <1>4. CASE Notify \/ Connect \/ Quit \/ Disconnect \/ Enter \/ Wake \/ NextRound
    BY <1>1, <1>4 DEF Notify, Connect, Quit, Disconnect, Hangup, Enter, Wake, NextRound
  <1>5. CASE DrainSeen \/ DrainConfirmed \/ Store
    BY <1>1, <1>5 DEF DrainSeen, DrainConfirmed, Store
  <1>6. CASE Search \/ Fetch \/ SearchFails
    BY <1>1, <1>2, <1>6 DEF Search, Fetch, SearchFails, Unseen
  <1>7. ASSUME NEW u \in Uid, NEW g \in Goroutine, Dispatch(u, g) PROVE FromInbox'
    BY <1>7 DEF Dispatch
  <1>8. ASSUME NEW g \in Goroutine, WorkerStep(g) PROVE FromInbox'
    BY <1>8 DEF WorkerStep, OnEmailReturns, PushSeen, PushConfirm
  <1>9. CASE Sweep \/ DropKnown \/ SweepFetch \/ CountFails \/ SweepFails \/ SweepStore
    BY <1>1, <1>2, <1>9
    DEF Sweep, DropKnown, SweepFetch, CountFails, SweepFails, SweepStore, Unseen
  <1>10. ASSUME NEW u \in Uid, NEW r \in Sweeper, SweepDispatch(u, r) PROVE FromInbox'
    BY <1>10 DEF SweepDispatch
  <1>11. ASSUME NEW r \in Sweeper, SweepReturns(r) PROVE FromInbox'
    BY <1>11 DEF SweepReturns
  <1>12. CASE Stop \/ UNCHANGED vars
    BY <1>1, <1>12 DEF Stop, vars
  <1>13. CASE Restart \/ Crash
    BY <1>13 DEF Restart, Crash, Boot
  <1> HIDE DEF FromInbox
  <1> QED BY <1>3, <1>4, <1>5, <1>6, <1>7, <1>8, <1>9, <1>10, <1>11, <1>12, <1>13
          DEF Next, ListenerStep, RecoveryStep, Fault

\* The history and the two lists of marks after any step.
LEMMA MarkedStep ==
    ASSUME ListenerAssumption, TypeOK, FromInbox, Marked, [Next]_vars
    PROVE  Marked'
  <1>0. /\ gpc \in [Goroutine -> {"free", "working", "done", "confirm"}]
        /\ job \in [Goroutine -> Uid \cup {None}] /\ rjob \in [Sweeper -> Uid \cup {None}]
        /\ None \notin Uid /\ dispatched \subseteq Uid
        /\ returned \subseteq returned' /\ Contents(<<>>) = {}
    BY MetGrows, EmptyChannel DEF TypeOK, ListenerAssumption
  <1> USE <1>0 DEF Marked, server, store, listener, workers, recovery
  <1>1. ASSUME UNCHANGED <<seenCh, gpc, job, rjob>>, marks' \in {marks, {}},
               dispatched' \in {dispatched, {}}
        PROVE  Marked'
    <2>1. UNCHANGED Contents(seenCh)
      BY <1>1 DEF Contents
    <2> QED BY <1>1, <2>1
  <1>2. ASSUME NEW u \in Uid,
               Arrive(u) \/ DispatchCancelled(u) \/ SkipEmpty(u) \/ SweepSkipsEmpty(u)
        PROVE  Marked'
    BY <1>1, <1>2 DEF Arrive, DispatchCancelled, SkipEmpty, SweepSkipsEmpty
  <1>3. CASE Notify \/ Connect \/ Quit \/ Disconnect \/ Enter \/ Wake \/ NextRound
    BY <1>1, <1>3 DEF Notify, Connect, Quit, Disconnect, Hangup, Enter, Wake, NextRound
  <1>4. CASE DrainSeen
    BY <1>4 DEF DrainSeen
  <1>5. CASE DrainConfirmed \/ Store \/ Search \/ Fetch \/ SearchFails
    BY <1>1, <1>5 DEF DrainConfirmed, Store, Search, Fetch, SearchFails
  <1>6. ASSUME NEW u \in Uid, NEW g \in Goroutine, Dispatch(u, g) PROVE Marked'
    <2>1. UNCHANGED Contents(seenCh)
      BY <1>6 DEF Dispatch, Contents
    <2> QED BY <1>6, <2>1 DEF Dispatch
  <1>7. ASSUME NEW g \in Goroutine, OnEmailReturns(g) PROVE Marked'
    <2>1. UNCHANGED Contents(seenCh) /\ job[g] \in returned'
      BY <1>7 DEF OnEmailReturns, OnEmail, Contents
    <2> QED BY <1>7, <2>1 DEF OnEmailReturns
  <1>8. ASSUME NEW g \in Goroutine, PushSeen(g) PROVE Marked'
    <2>1. job[g] \in returned /\ job[g] \in Uid
      BY <1>8, JobsAreUids DEF PushSeen
    <2>2. seenCh' = Append(seenCh, job[g]) \/ seenCh' = seenCh
      BY <1>8 DEF PushSeen
    <2>3. Contents(seenCh') \in {Contents(seenCh) \cup {job[g]}, Contents(seenCh)}
      <3>1. seenCh \in Seq(Uid)
        BY DEF TypeOK
      <3>2. Contents(Append(seenCh, job[g])) = Contents(seenCh) \cup {job[g]}
        BY <2>1, <3>1, ChannelContents, Zenon
      <3> QED BY <2>2, <3>2, Zenon
    <2> QED BY <1>8, <2>1, <2>3 DEF PushSeen, Contents
  <1>9. ASSUME NEW g \in Goroutine, PushConfirm(g) PROVE Marked'
    <2>1. UNCHANGED Contents(seenCh)
      BY <1>9 DEF PushConfirm, Contents
    <2> QED BY <1>9, <2>1 DEF PushConfirm
  <1>10. CASE Sweep \/ DropKnown \/ SweepFetch \/ CountFails \/ SweepFails \/ SweepStore
    BY <1>1, <1>10 DEF Sweep, DropKnown, SweepFetch, CountFails, SweepFails, SweepStore
  <1>11. ASSUME NEW u \in Uid, NEW r \in Sweeper, SweepDispatch(u, r) PROVE Marked'
    <2>1. UNCHANGED Contents(seenCh)
      BY <1>11 DEF SweepDispatch, Contents
    <2>2. ASSUME NEW x \in dispatched' PROVE x \in returned' \/ \E q \in Sweeper : rjob'[q] = x
      BY <1>11 DEF SweepDispatch
    <2> QED BY <1>11, <2>1, <2>2 DEF SweepDispatch
  <1>12. ASSUME NEW r \in Sweeper, SweepReturns(r) PROVE Marked'
    <2>1. UNCHANGED Contents(seenCh) /\ rjob[r] \in returned'
      BY <1>12 DEF SweepReturns, OnEmail, Contents
    <2>2. ASSUME NEW x \in dispatched' PROVE x \in returned' \/ \E q \in Sweeper : rjob'[q] = x
      BY <1>12, <2>1 DEF SweepReturns
    <2> QED BY <1>12, <2>1, <2>2 DEF SweepReturns
  <1>13. CASE Stop \/ UNCHANGED vars
    BY <1>1, <1>13 DEF Stop, vars
  <1>14. CASE Restart \/ Crash
    BY <1>14 DEF Restart, Crash, Boot
  <1> HIDE DEF Marked
  <1> QED BY <1>2, <1>3, <1>4, <1>5, <1>6, <1>7, <1>8, <1>9, <1>10, <1>11, <1>12, <1>13, <1>14
          DEF Next, ListenerStep, WorkerStep, RecoveryStep, Fault

------------------------------------------------------------------------------
(* The two invariants of the listener.                                      *)

\* A UID enters inFlight with a goroutine and leaves the goroutine with a
\* confirmation, sent or dropped.
LEMMA LiveStep ==
    ASSUME ListenerAssumption, TypeOK, FromInbox, InFlightIsLive, [Next]_vars
    PROVE  InFlightIsLive'
  <1>0. /\ gpc \in [Goroutine -> {"free", "working", "done", "confirm"}]
        /\ job \in [Goroutine -> Uid \cup {None}]
    BY DEF TypeOK
  <1> DEFINE Live == Busy \cup Contents(seenConfirmCh) \cup stuck
  <1> USE DEF server, store, listener, workers, recovery
  <1>1. ASSUME lpc' # "offline" /\ ~stopping' => lpc # "offline" /\ ~stopping,
               inFlight' \subseteq inFlight, Live \subseteq Live'
        PROVE  InFlightIsLive'
    BY <1>1 DEF InFlightIsLive
  <1>2. ASSUME lpc' # "offline" /\ ~stopping' => lpc # "offline" /\ ~stopping,
               UNCHANGED <<inFlight, workers>>
        PROVE  InFlightIsLive'
    <2>1. Live' = Live
      BY <1>2 DEF Busy, Contents
    <2> QED BY <1>1, <1>2, <2>1
  <1>3. ASSUME inFlight' = {} \/ lpc' = "offline" \/ stopping' PROVE InFlightIsLive'
    BY <1>3 DEF InFlightIsLive
  <1> HIDE DEF Live
  <1>4. ASSUME NEW u \in Uid, Arrive(u) \/ SkipEmpty(u) \/ SweepSkipsEmpty(u)
        PROVE  InFlightIsLive'
    BY <1>2, <1>4 DEF Arrive, SkipEmpty, SweepSkipsEmpty
  <1>5. CASE Connect \/ Quit \/ Disconnect \/ Restart \/ Crash \/ Stop
    BY <1>3, <1>5 DEF Connect, Quit, Disconnect, Hangup, Restart, Crash, Boot, Stop
  <1>6. CASE Notify \/ Enter \/ Wake \/ NextRound \/ Store \/ Search \/ Fetch \/ SearchFails
    BY <1>2, <1>6 DEF Notify, Enter, Wake, NextRound, Store, Search, Fetch, SearchFails
  <1>7. CASE DrainSeen
    <2>1. Live' = Live
      BY <1>7 DEF DrainSeen, Live, Busy, Contents
    <2> QED BY <1>1, <1>7, <2>1 DEF DrainSeen
  <1>8. CASE DrainConfirmed
    <2>1. Busy' = Busy /\ stuck' = stuck
      BY <1>8 DEF DrainConfirmed, Busy
    <2> QED BY <1>8, <2>1 DEF DrainConfirmed, InFlightIsLive
  <1>9. ASSUME NEW u \in Uid, NEW g \in Goroutine, Dispatch(u, g) PROVE InFlightIsLive'
    <2>1. Busy \cup {u} \subseteq Busy'
      BY <1>0, <1>9 DEF Dispatch, Busy
    <2>2. Contents(seenConfirmCh)' = Contents(seenConfirmCh) /\ stuck' = stuck
      BY <1>9 DEF Dispatch, Contents
    <2> QED BY <1>9, <2>1, <2>2 DEF Dispatch, InFlightIsLive
  <1>10. ASSUME NEW u \in Uid, DispatchCancelled(u) PROVE InFlightIsLive'
    BY <1>3, <1>10 DEF DispatchCancelled
  <1>11. ASSUME NEW g \in Goroutine, OnEmailReturns(g) \/ PushSeen(g) PROVE InFlightIsLive'
    <2>1. Busy \subseteq Busy'
      BY <1>0, <1>11 DEF OnEmailReturns, PushSeen, Busy
    <2>2. Contents(seenConfirmCh)' = Contents(seenConfirmCh) /\ stuck' = stuck
      BY <1>11 DEF OnEmailReturns, PushSeen, Contents
    <2>3. UNCHANGED <<lpc, stopping, inFlight>>
      BY <1>11 DEF OnEmailReturns, PushSeen
    <2> QED BY <1>1, <2>1, <2>2, <2>3 DEF Live
  <1>12. ASSUME NEW g \in Goroutine, PushConfirm(g) PROVE InFlightIsLive'
    <2>1. Busy \subseteq Busy' \cup {job[g]}
      BY <1>0, <1>12 DEF PushConfirm, Busy
    <2>2. job[g] \in Uid /\ seenConfirmCh \in Seq(Uid)
      BY <1>12, JobsAreUids DEF PushConfirm, TypeOK
    <2>3. \/ seenConfirmCh' = Append(seenConfirmCh, job[g]) /\ UNCHANGED stuck
          \/ stuck' = stuck \cup {job[g]} /\ seenConfirmCh' = seenConfirmCh
      BY <1>12 DEF PushConfirm
    <2>4. Contents(seenConfirmCh) \cup stuck \cup {job[g]}
            \subseteq Contents(seenConfirmCh') \cup stuck'
      <3>1. Contents(Append(seenConfirmCh, job[g])) = Contents(seenConfirmCh) \cup {job[g]}
        BY <2>2, ChannelContents, Zenon
      <3> QED BY <2>3, <3>1, Zenon
    <2>5. Live \subseteq Live'
      BY <2>1, <2>4 DEF Live, Contents
    <2> QED BY <1>1, <1>12, <2>5 DEF PushConfirm
  <1>13. CASE RecoveryStep \/ CountFails \/ SweepFails \/ UNCHANGED vars
    BY <1>2, <1>13 DEF RecoveryStep, Sweep, DropKnown, SweepFetch, SweepStore, SweepDispatch,
                       CountFails, SweepFails, vars
  <1>14. ASSUME NEW r \in Sweeper, SweepReturns(r) PROVE InFlightIsLive'
    BY <1>2, <1>14 DEF SweepReturns
  <1> QED BY <1>4, <1>5, <1>6, <1>7, <1>8, <1>9, <1>10, <1>11, <1>12, <1>13, <1>14
          DEF Next, ListenerStep, WorkerStep, Fault

\* IDLE is entered from an empty SEARCH, and new mail raises a signal that only
\* leaving IDLE takes down.
LEMMA ForgottenStep ==
    ASSUME TypeOK, FromInbox, NothingForgotten, [Next]_vars
    PROVE  NothingForgotten'
  <1> DEFINE Waits == lpc \in {"enter", "idle"} /\ ~stopping /\ ~missed
  <1> USE DEF server, store, listener, workers, recovery
  <1>1. ASSUME Waits' => Waits, inFlight \subseteq inFlight', Unseen' \subseteq Unseen,
               newMail \/ exists => newMail' \/ exists'
        PROVE  NothingForgotten'
    BY <1>1 DEF NothingForgotten
  <1>2. ASSUME ~Waits' PROVE NothingForgotten'
    BY <1>2 DEF NothingForgotten
  <1>3. ASSUME NEW u \in Uid, Arrive(u) PROVE NothingForgotten'
    BY <1>3, Zenon DEF Arrive, NothingForgotten
  <1>4. CASE Notify
    BY <1>4 DEF Notify, NothingForgotten
  <1>5. CASE Search
    BY <1>5, Zenon DEF Search, NothingForgotten, Unseen
  <1>6. CASE Connect \/ Quit \/ Disconnect \/ Wake \/ NextRound \/ DrainSeen \/ Store
             \/ DrainConfirmed \/ Fetch \/ SearchFails \/ Stop \/ Restart \/ Crash
    BY <1>2, <1>6, Zenon DEF Connect, Quit, Disconnect, Hangup, Wake, NextRound, DrainSeen, Store,
                      DrainConfirmed, Fetch, SearchFails, Stop, Restart, Crash, Boot
  <1>7. ASSUME NEW u \in Uid, DispatchCancelled(u) \/ SkipEmpty(u) PROVE NothingForgotten'
    BY <1>2, <1>7 DEF DispatchCancelled, SkipEmpty
  <1>8. ASSUME NEW u \in Uid, NEW g \in Goroutine, Dispatch(u, g) PROVE NothingForgotten'
    BY <1>2, <1>8 DEF Dispatch
  <1>9. CASE Enter \/ UNCHANGED vars
    BY <1>1, <1>9 DEF Enter, vars, Unseen
  <1>10. ASSUME NEW g \in Goroutine, OnEmailReturns(g) PROVE NothingForgotten'
    BY <1>1, <1>10, JobsAreUids, OnEmailEffect DEF OnEmailReturns, Unseen
  <1>11. ASSUME NEW g \in Goroutine, PushSeen(g) \/ PushConfirm(g) PROVE NothingForgotten'
    BY <1>1, <1>11 DEF PushSeen, PushConfirm, Unseen
  <1>12. CASE RecoveryStep \/ CountFails \/ SweepFails
    BY <1>1, <1>12 DEF RecoveryStep, Sweep, DropKnown, SweepFetch, SweepStore, StoreSeen,
                       SweepDispatch, CountFails, SweepFails, Unseen
  <1>13. ASSUME NEW u \in Uid, SweepSkipsEmpty(u) PROVE NothingForgotten'
    BY <1>1, <1>13 DEF SweepSkipsEmpty, Unseen
  <1>14. ASSUME NEW r \in Sweeper, SweepReturns(r) PROVE NothingForgotten'
    BY <1>1, <1>14, JobsAreUids, OnEmailEffect DEF SweepReturns, Unseen
  <1> QED BY <1>3, <1>4, <1>5, <1>6, <1>7, <1>8, <1>9, <1>10, <1>11, <1>12, <1>13, <1>14
          DEF Next, ListenerStep, WorkerStep, Fault

------------------------------------------------------------------------------
(* Listener implements Delivery.                                            *)

\* A step of the listener or the sweep delivers a message, ends a call of onEmail,
\* marks messages whose calls have returned, or changes none of that.
LEMMA StepRefines ==
    ASSUME ListenerAssumption, TypeOK, FromInbox, Marked, [Next]_vars
    PROVE  [D!Next]_(D!state)
  <1> USE DEF server, store, listener, workers, recovery
  <1>1. ASSUME UNCHANGED <<inbox, seen, returned>> PROVE [D!Next]_(D!state)
    BY <1>1 DEF D!state
  <1>2. ASSUME NEW u \in Uid, Arrive(u) PROVE [D!Next]_(D!state)
    <2>1. D!Deliver(u)
      BY <1>2 DEF Arrive, D!Deliver
    <2> QED BY <2>1 DEF D!Next
  <1>3. ASSUME NEW u \in Uid, u \in Met, OnEmail(u), UNCHANGED seen PROVE [D!Next]_(D!state)
    <2>1. D!Finish(u)
      BY <1>3, OnEmailEffect DEF D!Finish, Met
    <2> QED BY <2>1 DEF D!Next
  <1>4. ASSUME NEW U \in SUBSET returned, StoreSeen(U) \/ UNCHANGED seen,
               UNCHANGED <<inbox, returned>>
        PROVE  [D!Next]_(D!state)
    <2>1. D!Mark
      BY <1>4 DEF StoreSeen, D!Mark
    <2> QED BY <2>1 DEF D!Next
  <1>5. CASE Store
    BY <1>4, <1>5 DEF Store, Marked
  <1>6. CASE SweepStore
    <2>1. dispatched \subseteq returned
      <3>1. None \notin dispatched
        BY DEF TypeOK, ListenerAssumption
      <3> QED BY <1>6, <3>1 DEF SweepStore, Marked
    <2> QED BY <1>4, <1>6, <2>1 DEF SweepStore
  <1>7. ASSUME NEW g \in Goroutine, OnEmailReturns(g) PROVE [D!Next]_(D!state)
    <2>1. job[g] \in Uid /\ job[g] \in Met
      BY <1>7, JobsAreUids DEF OnEmailReturns, FromInbox
    <2> QED BY <1>3, <1>7, <2>1 DEF OnEmailReturns
  <1>8. ASSUME NEW r \in Sweeper, SweepReturns(r) PROVE [D!Next]_(D!state)
    <2>1. rjob[r] \in Uid /\ rjob[r] \in Met
      BY <1>8, JobsAreUids, Zenon DEF SweepReturns, FromInbox
    <2> QED BY <1>3, <1>8, <2>1 DEF SweepReturns
  <1>9. CASE Notify \/ Connect \/ Quit \/ Enter \/ Wake \/ DrainSeen \/ DrainConfirmed
             \/ Search \/ Fetch \/ NextRound
    BY <1>1, <1>9 DEF Notify, Connect, Quit, Hangup, Enter, Wake, DrainSeen, DrainConfirmed,
                      Search, Fetch, NextRound
  <1>10. ASSUME NEW u \in Uid, NEW g \in Goroutine, Dispatch(u, g) PROVE [D!Next]_(D!state)
    BY <1>1, <1>10 DEF Dispatch
  <1>11. ASSUME NEW u \in Uid, DispatchCancelled(u) \/ SkipEmpty(u) \/ SweepSkipsEmpty(u)
         PROVE  [D!Next]_(D!state)
    BY <1>1, <1>11 DEF DispatchCancelled, SkipEmpty, SweepSkipsEmpty
  <1>12. ASSUME NEW g \in Goroutine, PushSeen(g) \/ PushConfirm(g) PROVE [D!Next]_(D!state)
    BY <1>1, <1>12 DEF PushSeen, PushConfirm
  <1>13. ASSUME NEW u \in Uid, NEW r \in Sweeper, SweepDispatch(u, r) PROVE [D!Next]_(D!state)
    BY <1>1, <1>13 DEF SweepDispatch
  <1>14. CASE Sweep \/ DropKnown \/ SweepFetch
    BY <1>1, <1>14 DEF Sweep, DropKnown, SweepFetch
  <1>15. CASE Disconnect \/ SearchFails \/ CountFails \/ SweepFails \/ Stop \/ Restart \/ Crash
    BY <1>1, <1>15 DEF Disconnect, Hangup, SearchFails, CountFails, SweepFails, Stop, Restart,
                       Crash, Boot
  <1>16. CASE UNCHANGED vars
    BY <1>1, <1>16 DEF vars
  <1> QED BY <1>2, <1>5, <1>6, <1>7, <1>8, <1>9, <1>10, <1>11, <1>12, <1>13, <1>14, <1>15, <1>16,
             ZenonT(30)
          DEF Next, ListenerStep, WorkerStep, RecoveryStep, Fault

------------------------------------------------------------------------------
(* Theorems.                                                                *)

\* The invariant above holds of every behaviour of listener and sweep.
LEMMA Invariance == Spec => []IInv
  <1>1. Init => IInv
    <2> SUFFICES ASSUME Init PROVE IInv
      OBVIOUS
    <2>1. TypeOK
      BY ListenerAssumption, TypeInit
    <2>2. Contents(seenCh) = {}
      BY ListenerAssumption, EmptyChannel DEF Init
    <2>3. FromInbox /\ Marked
      BY <2>2 DEF Init, FromInbox, Marked
    <2>4. InFlightIsLive /\ NothingForgotten
      BY DEF Init, InFlightIsLive, NothingForgotten
    <2> QED BY <2>1, <2>3, <2>4 DEF IInv
  <1>2. IInv /\ [Next]_vars => IInv'
    BY ListenerAssumption, TypeStep, FromInboxStep, MarkedStep, LiveStep, ForgottenStep DEF IInv
  <1> QED BY <1>1, <1>2, PTL DEF Spec

\* Type correctness of imap/listener.go and imap/recovery.go, and their channels
\* never exceed their capacity.
THEOREM TypeCorrect == Spec => []TypeOK
  BY Invariance, PTL DEF IInv

\* No UID stays in Listener.inFlight by mistake: only a full seenConfirmCh, or the
\* end of the context, can leave one there without a goroutine or a confirmation.
THEOREM InFlightSafe == Spec => []InFlightIsLive
  BY Invariance, PTL DEF IInv

\* The listener never sits in IDLE over mail that nobody will tell it about,
\* unless its last SEARCH or FETCH failed.
THEOREM NoMailForgotten == Spec => []NothingForgotten
  BY Invariance, PTL DEF IInv

\* Listener and recovery sweep together implement the promise of module Delivery:
\* \Seen only after a call of onEmail has returned, and for good.
THEOREM ImplementsDelivery == Spec => Delivers
  <1>1. Init => D!Init
    BY DEF Init, D!Init
  <1>2. IInv /\ [Next]_vars => [D!Next]_(D!state)
    BY ListenerAssumption, StepRefines DEF IInv
  <1> QED BY <1>1, <1>2, Invariance, PTL DEF Spec, Delivers, D!Spec
==============================================================================
