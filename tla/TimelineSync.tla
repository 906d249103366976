---------------------------- MODULE TimelineSync ----------------------------
(***************************************************************************)
(* How the app keeps the timelines on screen equal to the daemon's.        *)
(*                                                                         *)
(* packages/app/src/timeline/viewed-timeline-sync.ts decides which agents  *)
(* to subscribe to and when to fetch; session-stream-reducers.ts decides   *)
(* what a live row or a fetched page does to the timeline on screen; the   *)
(* daemon's side is agent/agent-timeline-store.ts and the two handlers of  *)
(* session.ts.  Membership is kept for every agent; rows, cursor and       *)
(* catch-up for one of them, Watched.                                      *)
(*                                                                         *)
(* The synchroniser's closure is the record sync: its handlers call each   *)
(* other within one event-loop turn, so each is an operator from state to  *)
(* state and an action applies the whole chain.  Only the selective        *)
(* delivery mode is modelled.  A row stands for a projected entry.         *)
(***************************************************************************)
EXTENDS Naturals, Sequences, FiniteSets, SequencesExt

CONSTANTS
  Agents, Watched,   \* the agents a user can open; the one whose rows are kept
  HotLimit,          \* VIEWED_TIMELINE_HOT_AGENT_LIMIT (5 in the code)
  PageSize,          \* TIMELINE_FETCH_PAGE_SIZE
  MaxRows, MaxEpochs, MaxViews, MaxFaults    \* bounds

ASSUME SyncAssumption ==
  /\ Watched \in Agents
  /\ {HotLimit, PageSize} \subseteq Nat \ {0}

VARIABLES
  sync,    \* createViewedTimelineSync's closure, and the fetches in flight
  view,    \* the app's timeline of Watched: cursor and rows on screen
  log,     \* the daemon's timeline of Watched: epoch and last row
  subs,    \* the agents whose rows the daemon sends to this client
  down,    \* what the daemon has sent and the app has not handled, in order
  returned,       \* whether the membership came back (see ComesBack)
  views, faults   \* how much of the bounds is used (a lost connection is a fault)

vars == <<sync, view, log, subs, down, returned, views, faults>>

None == [dir |-> "none"]
Tail_ == [dir |-> "tail"]
After(epoch, seq) == [dir |-> "after", epoch |-> epoch, seq |-> seq]
Row(epoch, seq) == [kind |-> "row", epoch |-> epoch, seq |-> seq]
Ack == [kind |-> "ack"]
Rows(epoch, from, to) == {[epoch |-> epoch, seq |-> n] : n \in from..to}

NoRpc == [at |-> "none", req |-> {}, stale |-> FALSE]
Idle == [status |-> "none", req |-> None, at |-> None]
NoRange == [epoch |-> 0, start |-> 1, end |-> 0]

Lesser(m, n) == IF m < n THEN m ELSE n
Greater(m, n) == IF m < n THEN n ELSE m

Init ==
  /\ sync = [connected |-> FALSE, active |-> TRUE, visible |-> {}, recent |-> <<>>,
             acked |-> {}, rpc |-> NoRpc, again |-> FALSE, needsRetry |-> FALSE,
             retry |-> FALSE, catchUp |-> Idle, owed |-> None, mark |-> "ready",
             asked |-> <<>>]
  /\ view = [synced |-> FALSE, newer |-> FALSE, range |-> NoRange, shown |-> {}]
  /\ log \in {[epoch |-> 1, max |-> n] : n \in 0..Lesser(2, MaxRows)}
  /\ subs = {} /\ down = <<>> /\ returned = FALSE
  /\ views = 0 /\ faults = 0

-----------------------------------------------------------------------------
(* Membership. The agents wanted are those of the recency list, which is    *)
(* cut to the wanted ones each time it is computed.                         *)

Desired(s) == ToSet(s.recent)
Fetchable(s) == s.connected /\ Watched \in Desired(s) /\ Watched \in s.acked

\* The visible agents, then the most recent hidden ones the limit leaves room for.
Hot(s) ==
  LET hidden == SelectSeq(s.recent, LAMBDA a : a \notin s.visible)
      budget == Greater(0, HotLimit - Cardinality(s.visible))
  IN  SetToSeq(s.visible) \o SubSeq(hidden, 1, Lesser(budget, Len(hidden)))

\* membershipGeneration += 1: what is in flight was asked for an older set.
Outdate(s) == [s EXCEPT !.rpc.stale = @ \/ s.rpc.at # "none"]

Latest(s) ==
  IF ~s.connected \/ (~s.needsRetry /\ Desired(s) = s.acked)
  THEN [s EXCEPT !.rpc = NoRpc]
  ELSE [s EXCEPT !.rpc = [at |-> "sent", req |-> Desired(s), stale |-> FALSE],
                 !.needsRetry = FALSE]

Reconcile(s) ==
  IF s.rpc.at # "none" THEN [s EXCEPT !.again = TRUE] ELSE Latest(s)

\* Mutant: a change made while a request was in flight is forgotten.
ReleaseForgets(s) == [s EXCEPT !.again = FALSE]

\* The finally of reconcileMembership: what was asked meanwhile, or is still owed.
Release(s) ==
  IF s.connected /\ (s.again \/ (~s.needsRetry /\ Desired(s) # s.acked))
  THEN Latest([s EXCEPT !.again = FALSE]) ELSE s

Resume(s) ==
  LET next == Latest(s) IN IF next.rpc.at = "sent" THEN next ELSE Release(next)

-----------------------------------------------------------------------------
(* Catch-up of Watched.                                                     *)

\* fetchAgentTimelineOnce: the same request in flight is shared.
Asking(asked, req) == IF req \in ToSet(asked) THEN asked ELSE Append(asked, req)

CancelCatchUp(s) == [s EXCEPT !.catchUp = Idle, !.owed = None]

\* A request that cannot run yet is owed; decideCatchUp keeps what runs, parks
\* the request behind a running tail fetch, or replaces what runs.
StartCatchUp(s, req, supersede) ==
  LET next == IF req = None THEN Tail_ ELSE req
      running == s.catchUp.status = "running"
      keep == IF supersede THEN running /\ s.catchUp.req = next
              ELSE s.catchUp.status \in {"running", "complete"}
      park == supersede /\ running /\ s.catchUp.req = Tail_
  IN  CASE ~Fetchable(s) -> IF req = None THEN s ELSE [s EXCEPT !.owed = req]
        [] Fetchable(s) /\ keep -> s
        [] Fetchable(s) /\ ~keep /\ park -> [s EXCEPT !.owed = next]
        [] OTHER -> [s EXCEPT !.catchUp = [status |-> "running", req |-> next, at |-> next],
                              !.owed = None, !.asked = Asking(@, next)]

RecoverGap(s, cursor) ==
  IF Watched \in Desired(s) THEN StartCatchUp(s, cursor, TRUE) ELSE s

StartAcknowledged(s) ==
  IF Watched \in s.acked THEN StartCatchUp(s, s.owed, s.owed # None) ELSE s

\* commitDesiredMembership: the same set retries what failed; a new one drops the
\* catch-ups of the agents that left and asks for the new membership.
Commit(s, next, reset) ==
  LET was == Watched \in Desired(s)
      is == Watched \in ToSet(next)
      marked == [s EXCEPT !.recent = next,
                          !.mark = IF is /\ (reset \/ ~was) THEN "pending"
                                   ELSE IF was /\ ~is THEN "ready" ELSE @]
      same == IF s.needsRetry THEN Reconcile(marked) ELSE marked
      left == IF was /\ ~is THEN CancelCatchUp(marked) ELSE marked
  IN  IF ToSet(next) = Desired(s)
      THEN IF Watched \in s.acked /\ s.catchUp.status = "error"
           THEN StartCatchUp(same, None, FALSE) ELSE same
      ELSE Reconcile(Outdate([left EXCEPT !.retry = FALSE]))

\* publishVisibleMembership
Publish(s) ==
  CASE ~s.connected -> Commit(s, IF s.active THEN SetToSeq(s.visible) ELSE <<>>, FALSE)
    [] s.connected /\ s.active -> Commit(s, Hot(s), FALSE)
    [] OTHER -> s

-----------------------------------------------------------------------------
(* The user and the connection.                                             *)

\* The membership returns to the one being requested, or Watched to the one in
\* force, before the daemon has been told of the change in between: the catch-up
\* went with the change, and no request is left to start it again.
ComesBack(s, t) ==
  /\ Desired(t) # Desired(s)
  /\ \/ s.rpc.at \in {"sent", "answered"} /\ Desired(t) = s.rpc.req
     \/ Watched \in (Desired(t) \ Desired(s)) \cap s.acked

\* It stays so until Watched leaves the membership or the connection goes.
Moves(t) ==
  /\ sync' = t
  /\ returned' = (Watched \in Desired(t) /\ (returned \/ ComesBack(sync, t)))
  /\ views' = views + 1
  /\ UNCHANGED <<view, log, subs, down, faults>>

View(v) ==
  /\ views < MaxViews /\ v # sync.visible
  /\ Moves(Publish([sync EXCEPT !.visible = v]))

SetActive ==
  /\ views < MaxViews
  /\ Moves(Publish([sync EXCEPT !.active = ~@]))

Connect ==
  /\ ~sync.connected
  /\ sync' = Reconcile(Outdate([sync EXCEPT !.connected = TRUE]))
  /\ UNCHANGED <<view, log, subs, down, returned, views, faults>>

\* The connection goes with everything in flight; the daemon may have restarted,
\* and then holds what the provider's history gives it under a new epoch.
Disconnect ==
  /\ sync.connected /\ faults < MaxFaults
  /\ LET shown == IF sync.active THEN SetToSeq(sync.visible) ELSE <<>>
         lost == [sync EXCEPT !.connected = FALSE, !.asked = <<>>,
                              !.rpc.at = IF @ = "none" THEN @ ELSE "lost"]
         left == Outdate([Commit(lost, shown, TRUE) EXCEPT !.retry = FALSE, !.acked = {}])
     IN  sync' = IF Watched \in Desired(left) THEN CancelCatchUp(left) ELSE left
  /\ \/ log' = log
     \/ /\ log.epoch < MaxEpochs
        /\ \E n \in 0..log.max : log' = [epoch |-> log.epoch + 1, max |-> n]
  /\ subs' = {} /\ down' = <<>> /\ returned' = FALSE /\ faults' = faults + 1
  /\ UNCHANGED <<view, views>>

-----------------------------------------------------------------------------
(* The daemon.                                                              *)

Send(rows) == IF Watched \in subs THEN down' = down \o rows ELSE UNCHANGED down

Append_ ==
  /\ log.max < MaxRows
  /\ log' = [log EXCEPT !.max = @ + 1]
  /\ Send(<<Row(log.epoch, log.max + 1)>>)
  /\ UNCHANGED <<sync, view, subs, returned, views, faults>>

\* A rewind rebuilds the timeline under a new epoch and broadcasts it from row 1.
Rewind ==
  /\ log.epoch < MaxEpochs
  /\ \E n \in 1..log.max :
       /\ log' = [epoch |-> log.epoch + 1, max |-> n]
       /\ Send([i \in 1..n |-> Row(log.epoch + 1, i)])
  /\ UNCHANGED <<sync, view, subs, returned, views, faults>>

\* agent.timeline.set_subscription.request
Subscribe ==
  /\ sync.rpc.at = "sent"
  /\ subs' = sync.rpc.req
  /\ down' = Append(down, Ack)
  /\ sync' = [sync EXCEPT !.rpc.at = "answered"]
  /\ UNCHANGED <<view, log, returned, views, faults>>

\* InMemoryAgentTimelineStore.fetch: the last rows, those after the cursor, or the
\* last rows as a reset when the cursor is of another epoch.
Page(req) ==
  LET reset == req.dir = "after" /\ req.epoch # log.epoch
      last == req.dir = "tail" \/ reset
      from == IF last THEN Greater(1, (log.max + 1) - PageSize) ELSE req.seq + 1
      to == IF last THEN log.max ELSE Lesser(req.seq + PageSize, log.max)
  IN  [kind |-> "page", req |-> req, epoch |-> log.epoch, reset |-> reset,
       from |-> from, to |-> to, max |-> log.max, newer |-> to < log.max]

Answered == {m.req : m \in {x \in ToSet(down) : x.kind = "page"}}

\* The oldest request without an answer.
NextAsked(i) ==
  sync.asked[i] \notin Answered /\ \A j \in 1..i-1 : sync.asked[j] \in Answered

\* The daemon is supposed to answer one connection's fetches in the order asked.
Answer ==
  /\ \E i \in DOMAIN sync.asked :
       NextAsked(i) /\ down' = Append(down, Page(sync.asked[i]))
  /\ UNCHANGED <<sync, view, log, subs, returned, views, faults>>

-----------------------------------------------------------------------------
(* The app handles what arrives.                                            *)

\* reconcileLatestMembership after its await: an answer asked for an older set
\* only leads to the next request.
Acknowledge ==
  /\ down # <<>> /\ Head(down).kind = "ack"
  /\ LET acked == [sync EXCEPT !.acked = sync.rpc.req, !.retry = FALSE]
     IN  sync' = Resume(IF sync.rpc.stale THEN acked ELSE StartAcknowledged(acked))
  /\ down' = Tail(down)
  /\ UNCHANGED <<view, log, subs, returned, views, faults>>

\* Mutant: a row after a gap is shown.
AcceptsAny(m) ==
  IF m.epoch = view.range.epoch THEN m.seq > view.range.end
  ELSE view.range = NoRange

\* The row the sequencing gate lets through on the timeline as it is.
Accepts(m) ==
  IF view.range = NoRange THEN TRUE
  ELSE m.epoch = view.range.epoch /\ m.seq = view.range.end + 1

\* A row of another epoch is dropped, unless it is the first: the timeline restarts.
Restarts(m) == view.range # NoRange /\ m.epoch # view.range.epoch /\ m.seq = 1
HasGap(m) == view.range # NoRange /\ m.epoch = view.range.epoch /\ m.seq > view.range.end + 1

\* The cursor once the row is shown.
Extended(m) ==
  IF view.range = NoRange THEN [epoch |-> m.epoch, start |-> m.seq, end |-> m.seq]
  ELSE [view.range EXCEPT !.end = m.seq]

\* A live row: dropped while newer pages are owed, an overlay only before the
\* first page, and otherwise gated on the cursor.
LiveRow ==
  /\ down # <<>> /\ Head(down).kind = "row"
  /\ LET m == Head(down)
         live == view.synced /\ ~view.newer
     IN  /\ view' = CASE live /\ Restarts(m) ->
                           [view EXCEPT !.range = [epoch |-> m.epoch, start |-> 1, end |-> 1],
                                        !.shown = Rows(m.epoch, 1, 1)]
                      [] live /\ ~Restarts(m) /\ Accepts(m) ->
                           [view EXCEPT !.range = Extended(m),
                                        !.shown = @ \cup Rows(m.epoch, m.seq, m.seq)]
                      [] OTHER -> view
         /\ sync' = IF live /\ HasGap(m)
                    THEN RecoverGap(sync, After(view.range.epoch, view.range.end))
                    ELSE sync
  /\ down' = Tail(down)
  /\ UNCHANGED <<log, subs, returned, views, faults>>

Empty(m) == m.to < m.from

\* A tail page for a timeline that has a cursor, in the page's epoch or another.
Resumes(m) == m.req.dir = "tail" /\ view.synced /\ view.range # NoRange

\* deriveBootstrapTailTimelinePolicy and deriveResumeTailPolicy
Bootstraps(m) == m.req.dir = "tail" /\ ~view.synced

\* Mutant: the epoch of a tail page is not compared.
ReplacesWithin(m) ==
  \/ m.reset
  \/ Bootstraps(m)
  \/ /\ Resumes(m)
     /\ \/ m.max < view.range.end
        \/ m.max > view.range.end /\ m.from > view.range.end + 1

Replaces(m) ==
  \/ m.reset
  \/ Bootstraps(m)
  \/ /\ Resumes(m)
     /\ \/ m.epoch # view.range.epoch
        \/ m.max < view.range.end
        \/ m.max > view.range.end /\ m.from > view.range.end + 1
Discards(m) == Resumes(m) /\ m.epoch = view.range.epoch /\ m.max = view.range.end

\* acceptIncrementalTimelineUnits
OutOfReach(m) ==
  /\ ~Replaces(m) /\ ~Empty(m) /\ view.range # NoRange
  /\ m.epoch = view.range.epoch /\ m.from > view.range.end + 1
Extends(m) ==
  /\ ~Replaces(m) /\ ~Discards(m) /\ ~Empty(m)
  /\ \/ view.range = NoRange
     \/ /\ m.epoch = view.range.epoch
        /\ m.to > view.range.end /\ m.from <= view.range.end + 1

\* The catch_up side effect of a page.
GapAfter(m) ==
  CASE Bootstraps(m) /\ ~Empty(m) -> After(m.epoch, m.to)
    [] OutOfReach(m) -> After(view.range.epoch, view.range.end)
    [] OTHER -> None

\* The rows a page adds: one for a timeline that has a cursor leaves out those it has.
Added(m) ==
  Rows(m.epoch, IF Resumes(m) THEN Greater(m.from, view.range.end + 1) ELSE m.from, m.to)

Shown(m) ==
  LET range == [epoch |-> m.epoch, start |-> m.from, end |-> m.to]
      at == CASE Replaces(m) ->
                   [view EXCEPT !.range = IF Empty(m) THEN NoRange ELSE range,
                                !.shown = Rows(m.epoch, m.from, m.to)]
              [] Extends(m) ->
                   [view EXCEPT !.range = IF view.range = NoRange THEN range
                                          ELSE [@ EXCEPT !.end = m.to],
                                !.shown = @ \cup Added(m)]
              [] OTHER -> view
  IN  [at EXCEPT !.synced = @ \/ m.req.dir = "tail" \/ ~m.newer, !.newer = m.newer]

\* fetchUntilCurrent after its await, for the page its fetch was waiting for.
Continue(s, m) ==
  IF ~(Fetchable(s) /\ s.catchUp.status = "running" /\ s.catchUp.at = m.req) THEN s
  ELSE IF m.newer /\ ~Empty(m)
  THEN [s EXCEPT !.catchUp.at = After(m.epoch, m.to), !.asked = Asking(@, After(m.epoch, m.to))]
  ELSE LET done == [s EXCEPT !.catchUp = [Idle EXCEPT !.status = "complete"]]
       IN  IF s.owed # None THEN StartCatchUp(done, s.owed, TRUE)
           ELSE [done EXCEPT !.mark = "ready"]

\* The response handler applies every page; the fetch that asked resumes after it.
\* (told is bound rather than defined so that TLC computes it once.)
TimelinePage ==
  /\ down # <<>> /\ Head(down).kind = "page"
  /\ LET m == Head(down)
         got == [sync EXCEPT !.asked = RemoveFirst(@, m.req)]
     IN  /\ view' = Shown(m)
         /\ \E told \in {IF GapAfter(m) = None THEN got ELSE RecoverGap(got, GapAfter(m))} :
              sync' = Continue(told, m)
  /\ down' = Tail(down)
  /\ UNCHANGED <<log, subs, returned, views, faults>>

-----------------------------------------------------------------------------
(* Failures and retries.                                                    *)

\* setSubscription rejects: the connection is gone, or the call timed out. The
\* retry timer of a request made for an older set does nothing when it fires.
SubscriptionFails ==
  /\ \/ sync.rpc.at = "lost" /\ UNCHANGED faults
     \/ sync.rpc.at \in {"sent", "answered"} /\ faults < MaxFaults /\ faults' = faults + 1
  /\ LET failed == [sync EXCEPT !.needsRetry = TRUE, !.rpc = NoRpc,
                                !.retry = ~sync.rpc.stale,
                                !.mark = IF Watched \in sync.rpc.req /\ @ = "pending"
                                         THEN "error" ELSE @]
     IN  sync' = Release(failed)
  /\ down' = RemoveFirst(down, Ack)
  /\ UNCHANGED <<view, log, subs, returned, views>>

RetryMembership ==
  /\ sync.retry
  /\ sync' = Reconcile([sync EXCEPT !.retry = FALSE])
  /\ UNCHANGED <<view, log, subs, down, returned, views, faults>>

\* A fetch rejects: only the catch-up that waits for it notices.
FetchFails ==
  /\ faults < MaxFaults /\ faults' = faults + 1
  /\ \E req \in ToSet(sync.asked) :
       /\ LET got == [sync EXCEPT !.asked = RemoveFirst(@, req)]
          IN  sync' = IF sync.catchUp.status = "running" /\ sync.catchUp.at = req
                      THEN [got EXCEPT !.catchUp = [Idle EXCEPT !.status = "error"],
                                       !.mark = IF @ = "pending" THEN "error" ELSE @]
                      ELSE got
       /\ down' = RemoveFirstMatch(down, LAMBDA m : m.kind = "page" /\ m.req = req)
  /\ UNCHANGED <<view, log, subs, returned, views>>

RetryCatchUp ==
  /\ sync.catchUp.status = "error"
  /\ sync' = StartCatchUp(sync, None, FALSE)
  /\ sync' # sync
  /\ UNCHANGED <<view, log, subs, down, returned, views, faults>>

-----------------------------------------------------------------------------
Handle == Acknowledge \/ LiveRow \/ TimelinePage
Retry == RetryMembership \/ RetryCatchUp \/ (sync.rpc.at = "lost" /\ SubscriptionFails)

Next ==
  \/ \E v \in SUBSET Agents : View(v)
  \/ SetActive \/ Connect \/ Disconnect
  \/ Append_ \/ Rewind \/ Subscribe \/ Answer
  \/ Acknowledge \/ LiveRow \/ TimelinePage
  \/ SubscriptionFails \/ RetryMembership \/ FetchFails \/ RetryCatchUp

Spec == Init /\ [][Next]_vars

\* The daemon answers, the app handles what arrives, its timers fire.
LiveSpec ==
  /\ Spec
  /\ WF_vars(Subscribe) /\ WF_vars(Answer) /\ WF_vars(Handle) /\ WF_vars(Retry)

-----------------------------------------------------------------------------

\* The rows on screen are one epoch's, without a hole, and are exactly those
\* the cursor claims, however pages and live rows interleave.
NoGap ==
  view.shown = IF view.range = NoRange THEN {}
               ELSE Rows(view.range.epoch, view.range.start, view.range.end)

IsCurrent ==
  /\ view.synced /\ ~view.newer
  /\ view.range.end = log.max
  /\ log.max > 0 => view.range.epoch = log.epoch

\* The timeline is open, its membership in force, nothing is on its way or
\* running, and the user is told it is ready.
Settled ==
  /\ sync.connected /\ Watched \in Desired(sync) /\ Watched \in sync.acked
  /\ sync.mark = "ready" /\ sync.catchUp.status = "complete" /\ sync.rpc = NoRpc
  /\ down = <<>> /\ sync.asked = <<>>

\* A timeline the user is told is ready, whose membership did not come back and
\* which is not shown as detached, is the daemon's once nothing is on its way or
\* running: no row was lost between a page and the live stream.
ReadyIsCurrent == (Settled /\ ~returned /\ ~view.newer) => IsCurrent

\* Once the timeline stays open over a connection, and its membership did not come
\* back, it becomes ready, and is then current or shown as detached: a page a closed
\* pane had asked for may come after the catch-up's last one and say there is more.
CaughtUp ==
  <>[](sync.connected /\ sync.active /\ Watched \in sync.visible /\ ~returned)
    => <>[]((IsCurrent \/ view.newer) /\ sync.mark = "ready")


=============================================================================
