------------------------- MODULE TimelineSyncProofs -------------------------
(***************************************************************************)
(* Proofs about TimelineSync, for any agents, page size and bounds: the    *)
(* rows on screen never have a hole and are those the cursor claims,       *)
(* however pages of any age and live rows interleave; and a timeline the   *)
(* user is told is ready has every row once nothing is under way.          *)
(***************************************************************************)
EXTENDS TimelineSync, SequenceTheorems, WellFoundedInduction, TLAPS

Requests == {Tail_} \cup {After(e, n) : e \in Nat, n \in Nat \ {0}}
RowsSent == {Row(e, n) : e \in Nat, n \in Nat \ {0}}

\* A page of the last rows begins with the first row or is full; one that follows a
\* cursor begins behind it, and ends with the last row or is full.
PageFits(m) ==
  /\ m.reset = (m.req.dir = "after" /\ m.req.epoch # m.epoch)
  /\ m.to <= m.max /\ m.newer = (m.to < m.max)
  /\ m.req.dir = "tail" \/ m.reset =>
       m.to = m.max /\ (m.from = 1 \/ m.from + PageSize = m.max + 1)
  /\ m.req.dir = "after" /\ ~m.reset =>
       /\ m.from = m.req.seq + 1 /\ m.to <= m.req.seq + PageSize
       /\ m.to = m.max \/ m.to = m.req.seq + PageSize
Pages == {m \in [kind : {"page"}, req : Requests, epoch : Nat, reset : BOOLEAN,
                 from : Nat \ {0}, to : Nat, max : Nat, newer : BOOLEAN] : PageFits(m)}
Messages == {Ack} \cup RowsSent \cup Pages
Ranges == {r \in [epoch : Nat, start : Nat \ {0}, end : Nat \ {0}] : r.start <= r.end}

LogOK == log \in [epoch : Nat, max : Nat]
ViewOK ==
  view \in [synced : BOOLEAN, newer : BOOLEAN, range : Ranges \cup {NoRange},
            shown : SUBSET [epoch : Nat, seq : Nat]]

\* A row of an epoch comes before, or is, another in the daemon's order.
AtMost(e, n, f, k) == e < f \/ (e = f /\ n <= k)

\* Where the daemon's timeline was when it sent a row or a page.
Upto(m) == IF m.kind = "row" THEN m.seq ELSE m.max
Stamped == {i \in DOMAIN down : down[i].kind # "ack"}

\* Everything under way was sent in the order of the daemon's timeline.
Ordered ==
  /\ \A i, j \in Stamped :
       i < j => AtMost(down[i].epoch, Upto(down[i]), down[j].epoch, Upto(down[j]))
  /\ \A i \in Stamped : AtMost(down[i].epoch, Upto(down[i]), log.epoch, log.max)

\* What is under way, and the daemon, are at this row or past it; of a later epoch.
Seen(e, n) ==
  /\ AtMost(e, n, log.epoch, log.max)
  /\ \A i \in Stamped : AtMost(e, n, down[i].epoch, Upto(down[i]))
Past(e) ==
  /\ e < log.epoch
  /\ \A i \in Stamped : e < down[i].epoch

\* A cursor the app may still ask with: the screen is at it or past it. Its answer
\* never reaches over the end of the rows on screen from before their start: they
\* begin behind the cursor, or are a page or more.
May(e, n) ==
  /\ Seen(e, n)
  /\ view.range = NoRange => Past(e)
  /\ view.range # NoRange => AtMost(e, n, view.range.epoch, view.range.end)
  /\ view.range # NoRange /\ view.range.epoch = e =>
       \/ view.range.start <= n + 1
       \/ view.range.start + PageSize <= view.range.end + 1
Allowed == {r \in Requests : r.dir = "after" => May(r.epoch, r.seq)}

Fields == {"connected", "active", "visible", "recent", "acked", "rpc", "again",
           "needsRetry", "retry", "catchUp", "owed", "mark", "asked"}

\* What the synchroniser asks for or owes is of the given requests.
Fit(s, R) ==
  /\ DOMAIN s = Fields
  /\ s.asked \in Seq(R)
  /\ s.owed \in R \cup {None}

RangeSeen == view.range # NoRange => Seen(view.range.epoch, view.range.end)
AnswersAllowed ==
  \A i \in DOMAIN down : down[i].kind = "page" => down[i].req \in Allowed

IInv ==
  /\ Fit(sync, Allowed) /\ LogOK /\ ViewOK /\ down \in Seq(Messages)
  /\ Ordered /\ RangeSeen /\ AnswersAllowed /\ NoGap

-----------------------------------------------------------------------------
(***************************************************************************)
(* Sequences                                                               *)
(***************************************************************************)

\* A nonempty set of natural numbers has a least element, which Min is.
LEMMA MinFacts ==
  ASSUME NEW S \in SUBSET Nat, S # {}
  PROVE  Min(S) \in S
<1> DEFINE Less == {p \in Nat \X Nat : p[1] < p[2]}
<1>1. IsWellFoundedOn(Less, Nat)
  BY NatLessThanWellFounded, Zenon DEF OpToRel
<1>2. \E x \in S : \A y \in S : ~ (<<y, x>> \in Less)
  <2> HIDE DEF Less
  <2> QED BY <1>1, WFMin, Zenon
<1>3. \E x \in S : \A y \in S : x <= y
  <2>1. PICK x \in S : \A y \in S : ~ (<<y, x>> \in Less)
    BY <1>2
  <2>2. ASSUME NEW y \in S PROVE x <= y
    <3>1. y < x => <<y, x>> \in Less
      OBVIOUS
    <3> QED BY <3>1, <2>1, S \subseteq Nat
  <2> QED BY <2>2
<1> QED BY <1>3 DEF Min

\* The index a search gives is one of the sequence when there is something to find.
LEMMA FoundFacts ==
  ASSUME NEW T, NEW s \in Seq(T), NEW I \in SUBSET (1..Len(s)), I # {}
  PROVE  Min(I) \in 1..Len(s)
<1>1. I \in SUBSET Nat
  BY LenProperties
<1> QED BY <1>1, MinFacts

\* One sequence is another with some elements left out.
Thinner(t, s) ==
  \E f \in [DOMAIN t -> DOMAIN s] :
    /\ \A i \in DOMAIN t : t[i] = s[f[i]]
    /\ \A i, j \in DOMAIN t : i < j => f[i] < f[j]

\* It is all of it but the element at one place, when k is one.
Places(f, t, s, k) ==
  /\ f \in [DOMAIN t -> DOMAIN s \ {k}]
  /\ \A i \in DOMAIN t : t[i] = s[f[i]]
  /\ \A i, j \in DOMAIN t : i < j => f[i] < f[j]
  /\ \A j \in DOMAIN s \ {k} : \E i \in DOMAIN t : f[i] = j
Loses(t, s, k) == \E f : Places(f, t, s, k)

LEMMA LosesThinner ==
  ASSUME NEW t, NEW s, NEW k, Loses(t, s, k)
  PROVE  Thinner(t, s)
<1> PICK f : Places(f, t, s, k)
  BY DEF Loses
<1>1. f \in [DOMAIN t -> DOMAIN s]
  BY DEF Places
<1> QED BY <1>1 DEF Places, Thinner

LEMMA LosesNothing ==
  ASSUME NEW T, NEW s \in Seq(T)
  PROVE  Loses(s, s, 0)
<1> DEFINE f == [i \in DOMAIN s |-> i]
<1>1. 0 \notin DOMAIN s
  BY LenProperties
<1>2. f \in [DOMAIN s -> DOMAIN s \ {0}] /\ \A i \in DOMAIN s : f[i] = i
  BY <1>1
<1> HIDE DEF f
<1>3. Places(f, s, s, 0)
  BY <1>2 DEF Places
<1> QED BY <1>3 DEF Loses

\* What is left of a sequence from one of its places on.
LEMMA BackFacts ==
  ASSUME NEW T, NEW s \in Seq(T), NEW m \in Nat \ {0}, m <= Len(s) + 1
  PROVE  /\ SubSeq(s, m, Len(s)) \in Seq(T)
         /\ Len(SubSeq(s, m, Len(s))) = Len(s) - m + 1
         /\ \A i \in 1..(Len(s) - m + 1) : SubSeq(s, m, Len(s))[i] = s[m + i - 1]
<1>1. SubSeq(s, m, Len(s)) \in Seq(T)
  BY ElementOfSeq, LenProperties, SubSeqProperties
<1>2. Len(SubSeq(s, m, Len(s))) = Len(s) - m + 1
  BY LenProperties
<1>3. ASSUME NEW i \in 1..(Len(s) - m + 1)
      PROVE  SubSeq(s, m, Len(s))[i] = s[m + i - 1]
  BY LenProperties
<1> QED BY <1>1, <1>2, <1>3

\* A sequence without one of its elements is one of the same kind.
LEMMA RemoveAtFacts ==
  ASSUME NEW T, NEW s \in Seq(T), NEW k \in 1..Len(s)
  PROVE  RemoveAt(s, k) \in Seq(T) /\ Loses(RemoveAt(s, k), s, k)
<1> DEFINE front == SubSeq(s, 1, k-1)
           back == SubSeq(s, k+1, Len(s))
           t == front \o back
<1>1. Len(s) \in Nat /\ DOMAIN s = 1..Len(s)
  BY LenProperties
<1>2. /\ front \in Seq(T) /\ Len(front) = k - 1
      /\ \A i \in 1..(k-1) : front[i] = s[i]
  BY <1>1, SubSeqProperties
<1>3. /\ back \in Seq(T) /\ Len(back) = Len(s) - k
      /\ \A i \in 1..(Len(s) - k) : back[i] = s[k + i]
  <2> DEFINE m == k + 1
  <2>1. m \in Nat \ {0} /\ m <= Len(s) + 1 /\ back = SubSeq(s, m, Len(s))
    BY <1>1
  <2>2. Len(s) - m + 1 = Len(s) - k /\ \A i \in Int : m + i - 1 = k + i
    BY <1>1
  <2> HIDE DEF m, back
  <2> QED BY <2>1, <2>2, BackFacts
<1>4. /\ t \in Seq(T) /\ Len(t) = Len(s) - 1
      /\ \A i \in 1..(k-1) : t[i] = front[i]
      /\ \A i \in 1..(Len(s) - k) : t[(k-1) + i] = back[i]
  <2> HIDE DEF front, back
  <2>1. /\ t \in Seq(T) /\ Len(t) = Len(front) + Len(back)
        /\ \A i \in 1..(Len(front) + Len(back)) :
             t[i] = IF i <= Len(front) THEN front[i] ELSE back[i - Len(front)]
    BY <1>2, <1>3, ConcatProperties
  <2> HIDE DEF t
  <2>2. Len(t) = Len(s) - 1
    BY <2>1, <1>1, <1>2, <1>3
  <2>3. ASSUME NEW i \in 1..(k-1) PROVE t[i] = front[i]
    <3>1. i \in 1..(Len(front) + Len(back)) /\ i <= Len(front)
      BY <1>1, <1>2, <1>3
    <3> QED BY <3>1, <2>1
  <2>4. ASSUME NEW i \in 1..(Len(s) - k) PROVE t[(k-1) + i] = back[i]
    <3>1. /\ (k-1) + i \in 1..(Len(front) + Len(back)) /\ ~((k-1) + i <= Len(front))
          /\ ((k-1) + i) - Len(front) = i
      BY <1>1, <1>2, <1>3
    <3> QED BY <3>1, <2>1
  <2> QED BY <2>1, <2>2, <2>3, <2>4
<1>5. DOMAIN t = 1..(Len(s) - 1)
  BY <1>4, LenProperties
<1> DEFINE f == [i \in DOMAIN t |-> IF i < k THEN i ELSE i + 1]
<1>6. f \in [DOMAIN t -> DOMAIN s \ {k}]
  <2> HIDE DEF t
  <2> QED BY <1>1, <1>5
<1>7. ASSUME NEW i \in DOMAIN t PROVE t[i] = s[f[i]]
  <2> HIDE DEF t, front, back
  <2>1. CASE i < k
    <3>1. i \in 1..(k-1) /\ f[i] = i
      BY <2>1, <1>1, <1>5
    <3> QED BY <3>1, <1>2, <1>4
  <2>2. CASE ~(i < k)
    <3>1. i - (k-1) \in 1..(Len(s) - k) /\ (k-1) + (i - (k-1)) = i
          /\ k + (i - (k-1)) = i + 1
      BY <2>2, <1>1, <1>5
    <3>2. t[i] = s[i + 1]
      BY <3>1, <1>3, <1>4
    <3> QED BY <3>2, <2>2
  <2> QED BY <2>1, <2>2
<1>8. ASSUME NEW i \in DOMAIN t, NEW j \in DOMAIN t, i < j PROVE f[i] < f[j]
  <2> HIDE DEF t
  <2> QED BY <1>1, <1>5, <1>8
<1>9. ASSUME NEW j \in DOMAIN s \ {k} PROVE \E i \in DOMAIN t : f[i] = j
  <2> HIDE DEF t
  <2>1. CASE j < k
    <3>1. j \in DOMAIN t /\ f[j] = j
      BY <2>1, <1>1, <1>5
    <3> QED BY <3>1
  <2>2. CASE ~(j < k)
    <3>1. j - 1 \in DOMAIN t /\ ~(j - 1 < k) /\ (j - 1) + 1 = j
      BY <2>2, <1>1, <1>5
    <3>2. f[j-1] = j
      BY <3>1
    <3> QED BY <3>1, <3>2
  <2> QED BY <2>1, <2>2
<1>10. RemoveAt(s, k) = t
  BY DEF RemoveAt
<1> HIDE DEF t, f
<1>11. Places(f, t, s, k)
  BY <1>6, <1>7, <1>8, <1>9 DEF Places
<1> QED BY <1>4, <1>10, <1>11 DEF Loses

LEMMA TailFacts ==
  ASSUME NEW T, NEW s \in Seq(T), s # <<>>
  PROVE  Tail(s) \in Seq(T) /\ Thinner(Tail(s), s) /\ Loses(Tail(s), s, 1)
<1>1. /\ Tail(s) \in Seq(T) /\ Len(Tail(s)) = Len(s) - 1
      /\ \A i \in 1..Len(Tail(s)) : Tail(s)[i] = s[i+1]
  BY HeadTailProperties
<1>2. DOMAIN Tail(s) = 1..Len(Tail(s)) /\ DOMAIN s = 1..Len(s) /\ Len(s) \in Nat
  BY <1>1, LenProperties
<1> DEFINE f == [i \in DOMAIN Tail(s) |-> i + 1]
<1>3. f \in [DOMAIN Tail(s) -> DOMAIN s \ {1}]
  BY <1>1, <1>2
<1>4. \A i \in DOMAIN Tail(s) : f[i] = i + 1
  OBVIOUS
<1> HIDE DEF f
<1>5. \A i, j \in DOMAIN Tail(s) : i < j => f[i] < f[j]
  BY <1>2, <1>1, <1>4
<1>6. ASSUME NEW j \in DOMAIN s \ {1} PROVE \E i \in DOMAIN Tail(s) : f[i] = j
  <2>1. j - 1 \in DOMAIN Tail(s) /\ (j - 1) + 1 = j
    BY <1>1, <1>2
  <2> QED BY <2>1, <1>4
<1>7. \A i \in DOMAIN Tail(s) : Tail(s)[i] = s[f[i]]
  BY <1>1, <1>2, <1>4
<1>8. Places(f, Tail(s), s, 1)
  BY <1>3, <1>5, <1>6, <1>7 DEF Places
<1>9. Loses(Tail(s), s, 1)
  BY <1>8 DEF Loses
<1> QED BY <1>1, <1>9, LosesThinner

\* Removing the first of the equal elements, if there is one.
LEMMA RemoveFirstFacts ==
  ASSUME NEW T, NEW s \in Seq(T), NEW e
  PROVE  /\ RemoveFirst(s, e) \in Seq(T) /\ Thinner(RemoveFirst(s, e), s)
         /\ \E k \in 0..Len(s) :
              /\ Loses(RemoveFirst(s, e), s, k)
              /\ k = 0 => \A i \in 1..Len(s) : s[i] # e
              /\ k # 0 => s[k] = e
<1> DEFINE I == {i \in 1..Len(s) : s[i] = e}
<1>0. Len(s) \in Nat
  BY LenProperties
<1>1. CASE I = {}
  <2>1. RemoveFirst(s, e) = s
    BY <1>1 DEF RemoveFirst
  <2>2. Loses(s, s, 0) /\ Thinner(s, s)
    BY LosesNothing, LosesThinner
  <2> QED BY <1>0, <1>1, <2>1, <2>2
<1>2. CASE I # {}
  <2>1. Min(I) \in 1..Len(s)
    BY <1>2, FoundFacts
  <2>2. SelectInSeq(s, LAMBDA v : v = e) = Min(I)
    BY <1>2 DEF SelectInSeq
  <2>3. \E i \in 1..Len(s) : s[i] = e
    BY <1>2
  <2>4. RemoveFirst(s, e) = RemoveAt(s, Min(I))
    BY <2>2, <2>3 DEF RemoveFirst
  <2>5. Min(I) \in I
    <3>1. I \in SUBSET Nat
      BY <1>0
    <3> HIDE DEF I
    <3> QED BY <1>2, <3>1, MinFacts
  <2>6. s[Min(I)] = e /\ Min(I) # 0 /\ Min(I) \in 0..Len(s)
    BY <1>0, <2>1, <2>5
  <2> HIDE DEF I
  <2>7. /\ RemoveAt(s, Min(I)) \in Seq(T) /\ Loses(RemoveAt(s, Min(I)), s, Min(I))
        /\ Thinner(RemoveAt(s, Min(I)), s)
    BY <2>1, RemoveAtFacts, LosesThinner
  <2> QED BY <2>4, <2>6, <2>7
<1> QED BY <1>1, <1>2

\* What was sent without the answer to one request, if there is one.
WithoutPage(s, req) == RemoveFirstMatch(s, LAMBDA m : m.kind = "page" /\ m.req = req)

LEMMA WithoutPageFacts ==
  ASSUME NEW T, NEW s \in Seq(T), NEW req
  PROVE  /\ WithoutPage(s, req) \in Seq(T) /\ Thinner(WithoutPage(s, req), s)
         /\ \E k \in 0..Len(s) :
              Loses(WithoutPage(s, req), s, k) /\ (k # 0 => s[k].kind = "page")
<1> DEFINE I == {i \in 1..Len(s) : s[i].kind = "page" /\ s[i].req = req}
<1>0. Len(s) \in Nat
  BY LenProperties
<1>1. CASE I = {}
  <2>1. WithoutPage(s, req) = s
    BY <1>1 DEF RemoveFirstMatch, WithoutPage
  <2>2. Loses(s, s, 0) /\ Thinner(s, s)
    BY LosesNothing, LosesThinner
  <2> QED BY <1>0, <2>1, <2>2
<1>2. CASE I # {}
  <2>1. Min(I) \in 1..Len(s)
    BY <1>2, FoundFacts
  <2>2. SelectInSeq(s, LAMBDA m : m.kind = "page" /\ m.req = req) = Min(I)
    BY <1>2 DEF SelectInSeq
  <2>3. \E i \in 1..Len(s) : s[i].kind = "page" /\ s[i].req = req
    BY <1>2
  <2>4. WithoutPage(s, req) = RemoveAt(s, Min(I))
    BY <2>2, <2>3 DEF RemoveFirstMatch, WithoutPage
  <2>5. Min(I) \in I
    <3>1. I \in SUBSET Nat
      BY <1>0
    <3> HIDE DEF I
    <3> QED BY <1>2, <3>1, MinFacts
  <2>6. s[Min(I)].kind = "page" /\ Min(I) \in 0..Len(s)
    BY <1>0, <2>1, <2>5
  <2> HIDE DEF I
  <2>7. /\ RemoveAt(s, Min(I)) \in Seq(T) /\ Loses(RemoveAt(s, Min(I)), s, Min(I))
        /\ Thinner(RemoveAt(s, Min(I)), s)
    BY <2>1, RemoveAtFacts, LosesThinner
  <2> QED BY <2>4, <2>6, <2>7
<1> QED BY <1>1, <1>2

-----------------------------------------------------------------------------
(***************************************************************************)
(* The synchroniser asks for the tail, or with a cursor it was given       *)
(***************************************************************************)

LEMMA FitMore ==
  ASSUME NEW s, NEW R, NEW S, R \subseteq S, Fit(s, R)
  PROVE  Fit(s, S)
  BY DEF Fit

LEMMA AskingFits ==
  ASSUME NEW R, NEW asked \in Seq(R), NEW req \in R
  PROVE  Asking(asked, req) \in Seq(R)
  BY AppendProperties DEF Asking

\* The membership's steps leave the catch-up's requests alone.
LEMMA MembershipFits ==
  ASSUME NEW R, Tail_ \in R, NEW s, Fit(s, R)
  PROVE  /\ Fit(Outdate(s), R) /\ Fit(Latest(s), R) /\ Fit(Reconcile(s), R)
         /\ Fit(Release(s), R) /\ Fit(Resume(s), R)
<1>1. ASSUME NEW t, Fit(t, R) PROVE Fit(Latest(t), R)
  BY <1>1 DEF Fit, Fields, Latest
<1>2. ASSUME NEW t, Fit(t, R) PROVE Fit(Release(t), R)
  <2>1. Fit([t EXCEPT !.again = FALSE], R)
    BY <1>2 DEF Fit, Fields
  <2> QED BY <1>1, <1>2, <2>1 DEF Release
<1>3. Fit(Outdate(s), R)
  BY DEF Fit, Fields, Outdate
<1>4. Fit(Reconcile(s), R)
  <2>1. Fit([s EXCEPT !.again = TRUE], R)
    BY DEF Fit, Fields
  <2> QED BY <1>1, <2>1 DEF Reconcile
<1>5. Fit(Resume(s), R)
  BY <1>1, <1>2 DEF Resume
<1> QED BY <1>1, <1>2, <1>3, <1>4, <1>5

\* A catch-up runs, is owed, or is left as it is.
LEMMA StartCatchUpFits ==
  ASSUME NEW R, Tail_ \in R, NEW s, Fit(s, R),
         NEW req \in R \cup {None}, NEW supersede \in BOOLEAN
  PROVE  Fit(StartCatchUp(s, req, supersede), R)
<1> DEFINE next == IF req = None THEN Tail_ ELSE req
<1>1. next \in R
  OBVIOUS
<1>2. ASSUME NEW o \in R \cup {None} PROVE Fit([s EXCEPT !.owed = o], R)
  BY <1>2 DEF Fit, Fields
<1>3. Fit([s EXCEPT !.catchUp = [status |-> "running", req |-> next, at |-> next],
                    !.owed = None, !.asked = Asking(@, next)], R)
  <2> HIDE DEF next
  <2>1. Asking(s.asked, next) \in Seq(R)
    BY <1>1, AskingFits DEF Fit
  <2> QED BY <2>1 DEF Fit, Fields
<1> QED BY <1>1, <1>2, <1>3 DEF StartCatchUp

LEMMA CatchUpFits ==
  ASSUME NEW R, Tail_ \in R, NEW s, Fit(s, R)
  PROVE  /\ Fit(CancelCatchUp(s), R)
         /\ Fit(StartAcknowledged(s), R)
         /\ \A cursor \in R : Fit(RecoverGap(s, cursor), R)
<1>1. Fit(CancelCatchUp(s), R)
  BY DEF Fit, Fields, CancelCatchUp
<1>2. Fit(StartAcknowledged(s), R)
  <2>1. s.owed \in R \cup {None} /\ (s.owed # None) \in BOOLEAN
    BY DEF Fit
  <2> QED BY <2>1, StartCatchUpFits DEF StartAcknowledged
<1>3. ASSUME NEW cursor \in R PROVE Fit(RecoverGap(s, cursor), R)
  BY StartCatchUpFits DEF RecoverGap
<1> QED BY <1>1, <1>2, <1>3

LEMMA CommitFits ==
  ASSUME NEW R, Tail_ \in R, NEW s, Fit(s, R), NEW next, NEW reset
  PROVE  Fit(Commit(s, next, reset), R)
<1> DEFINE was == Watched \in Desired(s)
           is == Watched \in ToSet(next)
           marked == [s EXCEPT !.recent = next,
                               !.mark = IF is /\ (reset \/ ~was) THEN "pending"
                                        ELSE IF was /\ ~is THEN "ready" ELSE @]
           same == IF s.needsRetry THEN Reconcile(marked) ELSE marked
           left == IF was /\ ~is THEN CancelCatchUp(marked) ELSE marked
<1>1. Fit(marked, R)
  BY DEF Fit, Fields
<1>2. Fit(same, R)
  <2> HIDE DEF marked
  <2> QED BY <1>1, MembershipFits
<1>3. Fit(left, R)
  <2> HIDE DEF marked, was, is
  <2> QED BY <1>1, CatchUpFits
<1>4. Fit(StartCatchUp(same, None, FALSE), R)
  <2> HIDE DEF same
  <2> QED BY <1>2, StartCatchUpFits
<1>5. Fit(Reconcile(Outdate([left EXCEPT !.retry = FALSE])), R)
  <2> HIDE DEF left
  <2>1. Fit([left EXCEPT !.retry = FALSE], R)
    BY <1>3 DEF Fit, Fields
  <2> QED BY <2>1, MembershipFits
<1>6. \/ Commit(s, next, reset) = StartCatchUp(same, None, FALSE)
      \/ Commit(s, next, reset) = same
      \/ Commit(s, next, reset) = Reconcile(Outdate([left EXCEPT !.retry = FALSE]))
  <2> HIDE DEF same, left
  <2> USE DEF same, left
  <2> QED BY Zenon DEF Commit
<1> HIDE DEF same, left, marked, was, is
<1> QED BY <1>2, <1>4, <1>5, <1>6

LEMMA PublishFits ==
  ASSUME NEW R, Tail_ \in R, NEW s, Fit(s, R)
  PROVE  Fit(Publish(s), R)
  BY CommitFits DEF Publish

-----------------------------------------------------------------------------
(***************************************************************************)
(* The order in which the daemon's rows and pages arrive                   *)
(***************************************************************************)

\* What a message is, by its kind.
LEMMA MessageFacts ==
  ASSUME NEW m \in Messages
  PROVE  /\ m.kind \in {"ack", "row", "page"}
         /\ m.kind # "ack" => m.epoch \in Nat /\ Upto(m) \in Nat
         /\ m.kind = "row" => m.seq \in Nat \ {0} /\ Upto(m) = m.seq
         /\ m.kind = "page" => m \in Pages /\ Upto(m) = m.max
<1>1. CASE m = Ack
  BY <1>1 DEF Ack
<1>2. CASE m \in RowsSent
  <2>1. PICK e \in Nat, n \in Nat \ {0} : m = Row(e, n)
    BY <1>2 DEF RowsSent
  <2>2. m.kind = "row" /\ m.epoch = e /\ m.seq = n
    BY <2>1 DEF Row
  <2> QED BY <2>2 DEF Upto
<1>3. CASE m \in Pages
  <2>1. m.kind = "page" /\ m.epoch \in Nat /\ m.max \in Nat
    BY <1>3 DEF Pages
  <2> QED BY <1>3, <2>1 DEF Upto
<1> QED BY <1>1, <1>2, <1>3 DEF Messages

LEMMA Transitive ==
  ASSUME NEW e \in Nat, NEW n \in Nat, NEW f \in Nat, NEW k \in Nat,
         NEW g \in Nat, NEW l \in Nat, AtMost(e, n, f, k), AtMost(f, k, g, l)
  PROVE  AtMost(e, n, g, l)
  BY DEF AtMost

\* Handling or losing a message leaves the others in their order.
LEMMA ThinnerFacts ==
  ASSUME Ordered, log' = log, Thinner(down', down)
  PROVE  /\ Ordered'
         /\ \A e, n : Seen(e, n) => Seen(e, n)'
         /\ \A e : Past(e) => Past(e)'
         /\ \A i \in DOMAIN down' : \E k \in DOMAIN down : down'[i] = down[k]
<1> PICK f \in [DOMAIN down' -> DOMAIN down] :
      /\ \A i \in DOMAIN down' : down'[i] = down[f[i]]
      /\ \A i, j \in DOMAIN down' : i < j => f[i] < f[j]
  BY DEF Thinner
<1>1. \A i \in Stamped' : f[i] \in Stamped /\ down'[i] = down[f[i]]
  BY DEF Stamped
<1>2. Stamped' \subseteq DOMAIN down'
  BY DEF Stamped
<1>3. Ordered'
  <2>1. ASSUME NEW i \in Stamped', NEW j \in Stamped', i < j
        PROVE  AtMost(down'[i].epoch, Upto(down'[i]), down'[j].epoch, Upto(down'[j]))
    <3>1. f[i] \in Stamped /\ f[j] \in Stamped /\ f[i] < f[j]
      BY <1>1, <1>2, <2>1
    <3>2. AtMost(down[f[i]].epoch, Upto(down[f[i]]), down[f[j]].epoch, Upto(down[f[j]]))
      BY <3>1 DEF Ordered
    <3> QED BY <3>2, <1>1, <2>1
  <2>2. ASSUME NEW i \in Stamped'
        PROVE  AtMost(down'[i].epoch, Upto(down'[i]), log'.epoch, log'.max)
    BY <1>1 DEF Ordered
  <2> QED BY <2>1, <2>2 DEF Ordered
<1>4. ASSUME NEW e, NEW n, Seen(e, n) PROVE Seen(e, n)'
  BY <1>1, <1>4 DEF Seen
<1>5. ASSUME NEW e, Past(e) PROVE Past(e)'
  BY <1>1, <1>5 DEF Past
<1> QED BY <1>3, <1>4, <1>5

\* What the daemon sends comes behind what it sent before.
LEMMA GrowFacts ==
  ASSUME Ordered, LogOK, LogOK', down \in Seq(Messages), NEW sent \in Seq(Messages),
         down' = down \o sent,
         AtMost(log.epoch, log.max, log'.epoch, log'.max),
         \A i \in DOMAIN sent : sent[i].kind # "ack" =>
           /\ AtMost(log.epoch, log.max, sent[i].epoch, Upto(sent[i]))
           /\ AtMost(sent[i].epoch, Upto(sent[i]), log'.epoch, log'.max)
           /\ \A j \in DOMAIN sent : i < j /\ sent[j].kind # "ack" =>
                AtMost(sent[i].epoch, Upto(sent[i]), sent[j].epoch, Upto(sent[j]))
  PROVE  /\ down' \in Seq(Messages)
         /\ Ordered'
         /\ \A e, n \in Nat : Seen(e, n) => Seen(e, n)'
         /\ \A e \in Nat : Past(e) => Past(e)'
         /\ \A i \in DOMAIN down' : \/ i \in DOMAIN down /\ down'[i] = down[i]
                                    \/ \E k \in DOMAIN sent : down'[i] = sent[k]
<1> DEFINE Old == {i \in DOMAIN down : down[i].kind # "ack"}
           New == {i \in DOMAIN sent : sent[i].kind # "ack"}
<1>1. down' \in Seq(Messages)
  BY ConcatProperties
<1>2. /\ Len(down) \in Nat /\ Len(sent) \in Nat /\ Len(down') = Len(down) + Len(sent)
      /\ DOMAIN down = 1..Len(down) /\ DOMAIN sent = 1..Len(sent)
      /\ DOMAIN down' = 1..Len(down')
  BY <1>1, ConcatProperties, LenProperties
<1>3. /\ \A i \in 1..Len(down) : down'[i] = down[i]
      /\ \A i \in 1..Len(sent) : down'[Len(down) + i] = sent[i]
  BY ConcatProperties
<1>4. ASSUME NEW i \in DOMAIN down'
      PROVE  \/ i \in DOMAIN down /\ down'[i] = down[i]
             \/ /\ i - Len(down) \in DOMAIN sent /\ down'[i] = sent[i - Len(down)]
                /\ i = Len(down) + (i - Len(down)) /\ ~(i <= Len(down))
  <2>1. CASE i <= Len(down)
    BY <2>1, <1>2, <1>3
  <2>2. CASE ~(i <= Len(down))
    <3>1. i - Len(down) \in 1..Len(sent) /\ i = Len(down) + (i - Len(down))
      BY <2>2, <1>2
    <3> QED BY <2>2, <3>1, <1>2, <1>3
  <2> QED BY <2>1, <2>2
<1>5. /\ log.epoch \in Nat /\ log.max \in Nat /\ log'.epoch \in Nat /\ log'.max \in Nat
  BY DEF LogOK
<1>6. ASSUME NEW i \in Old
      PROVE  /\ down[i].epoch \in Nat /\ Upto(down[i]) \in Nat
             /\ AtMost(down[i].epoch, Upto(down[i]), log.epoch, log.max)
  <2>1. down[i] \in Messages
    BY <1>2, ElementOfSeq
  <2> QED BY <2>1, MessageFacts DEF Ordered, Stamped
<1>7. ASSUME NEW i \in New
      PROVE  sent[i].epoch \in Nat /\ Upto(sent[i]) \in Nat
  <2>1. sent[i] \in Messages
    BY <1>2, ElementOfSeq
  <2> QED BY <2>1, MessageFacts
<1>8. ASSUME NEW i \in Stamped'
      PROVE  \/ i \in Old /\ down'[i] = down[i] /\ i <= Len(down)
             \/ i - Len(down) \in New /\ down'[i] = sent[i - Len(down)] /\ ~(i <= Len(down))
  <2>1. i \in DOMAIN down' /\ down'[i].kind # "ack"
    BY DEF Stamped
  <2> QED BY <2>1, <1>4, <1>2
<1>9. Ordered'
  <2>1. ASSUME NEW i \in Stamped', NEW j \in Stamped', i < j
        PROVE  AtMost(down'[i].epoch, Upto(down'[i]), down'[j].epoch, Upto(down'[j]))
    <3>0. i \in Int /\ j \in Int
      BY <1>2 DEF Stamped
    <3>1. CASE i \in Old /\ down'[i] = down[i] /\ j \in Old /\ down'[j] = down[j]
      BY <3>1, <2>1 DEF Ordered, Stamped
    <3>2. CASE /\ i \in Old /\ down'[i] = down[i]
               /\ j - Len(down) \in New /\ down'[j] = sent[j - Len(down)]
      <4>1. AtMost(log.epoch, log.max, down'[j].epoch, Upto(down'[j]))
        BY <3>2
      <4>2. /\ down'[i].epoch \in Nat /\ Upto(down'[i]) \in Nat
            /\ AtMost(down'[i].epoch, Upto(down'[i]), log.epoch, log.max)
        BY <3>2, <1>6
      <4>3. down'[j].epoch \in Nat /\ Upto(down'[j]) \in Nat
        BY <3>2, <1>7
      <4> QED BY <4>1, <4>2, <4>3, <1>5, Transitive
    <3>3. CASE /\ i - Len(down) \in New /\ down'[i] = sent[i - Len(down)]
               /\ j - Len(down) \in New /\ down'[j] = sent[j - Len(down)]
      <4>1. i - Len(down) < j - Len(down)
        BY <2>1, <3>0, <1>2
      <4> QED BY <3>3, <4>1
    <3> QED BY <1>8, <1>2, <2>1, <3>0, <3>1, <3>2, <3>3
  <2>2. ASSUME NEW i \in Stamped'
        PROVE  AtMost(down'[i].epoch, Upto(down'[i]), log'.epoch, log'.max)
    BY <1>5, <1>6, <1>7, <1>8, Transitive
  <2> QED BY <2>1, <2>2 DEF Ordered
<1>10. ASSUME NEW e \in Nat, NEW n \in Nat, Seen(e, n) PROVE Seen(e, n)'
  <2>1. AtMost(e, n, log.epoch, log.max)
    BY <1>10 DEF Seen
  <2>2. AtMost(e, n, log'.epoch, log'.max)
    BY <2>1, <1>5, Transitive
  <2>3. ASSUME NEW i \in Stamped'
        PROVE  AtMost(e, n, down'[i].epoch, Upto(down'[i]))
    <3>1. CASE i \in Old /\ down'[i] = down[i]
      BY <3>1, <1>10 DEF Seen, Stamped
    <3>2. CASE i - Len(down) \in New /\ down'[i] = sent[i - Len(down)]
      <4>1. AtMost(log.epoch, log.max, down'[i].epoch, Upto(down'[i]))
        BY <3>2
      <4>2. down'[i].epoch \in Nat /\ Upto(down'[i]) \in Nat
        BY <3>2, <1>7
      <4> DEFINE f == down'[i].epoch
                 k == Upto(down'[i])
      <4>3. f \in Nat /\ k \in Nat /\ AtMost(log.epoch, log.max, f, k)
        BY <4>1, <4>2
      <4> HIDE DEF f, k
      <4>4. AtMost(e, n, f, k)
        BY <4>3, <2>1, <1>5, Transitive
      <4> QED BY <4>4 DEF f, k
    <3> QED BY <1>8, <3>1, <3>2
  <2> QED BY <2>2, <2>3 DEF Seen
<1>11. ASSUME NEW e \in Nat, Past(e) PROVE Past(e)'
  <2>1. e < log.epoch /\ e < log'.epoch
    BY <1>11, <1>5 DEF Past, AtMost
  <2>2. ASSUME NEW i \in Stamped' PROVE e < down'[i].epoch
    <3>1. CASE i \in Old /\ down'[i] = down[i]
      BY <3>1, <1>11 DEF Past, Stamped
    <3>2. CASE i - Len(down) \in New /\ down'[i] = sent[i - Len(down)]
      <4>1. AtMost(log.epoch, log.max, down'[i].epoch, Upto(down'[i]))
        BY <3>2
      <4> QED BY <3>2, <4>1, <2>1, <1>5, <1>7 DEF AtMost
    <3> QED BY <1>8, <3>1, <3>2
  <2> QED BY <2>1, <2>2 DEF Past
<1> QED BY <1>1, <1>4, <1>9, <1>10, <1>11

\* The daemon's answer to a request is a page of what it has, sent as of now.
LEMMA PageFacts ==
  ASSUME LogOK, NEW req \in Requests
  PROVE  /\ Page(req) \in Pages
         /\ Page(req).req = req /\ Page(req).epoch = log.epoch /\ Page(req).max = log.max
<1> DEFINE reset == req.dir = "after" /\ req.epoch # log.epoch
           last == req.dir = "tail" \/ reset
           from == IF last THEN Greater(1, (log.max + 1) - PageSize) ELSE req.seq + 1
           to == IF last THEN log.max ELSE Lesser(req.seq + PageSize, log.max)
           page == [kind |-> "page", req |-> req, epoch |-> log.epoch, reset |-> reset,
                    from |-> from, to |-> to, max |-> log.max, newer |-> to < log.max]
<1>1. log.epoch \in Nat /\ log.max \in Nat /\ PageSize \in Nat
  BY SyncAssumption DEF LogOK
<1>2. Page(req) = page
  BY Zenon DEF Page
<1>3. reset \in BOOLEAN /\ (to < log.max) \in BOOLEAN
  OBVIOUS
<1>4. /\ from \in Nat \ {0} /\ to \in Nat /\ to <= log.max
      /\ last => to = log.max /\ (from = 1 \/ from + PageSize = log.max + 1)
      /\ ~last => /\ from = req.seq + 1 /\ to <= req.seq + PageSize
                  /\ to = log.max \/ to = req.seq + PageSize
  <2>1. CASE last
    <3>1. from = Greater(1, (log.max + 1) - PageSize) /\ to = log.max
      BY <2>1
    <3> HIDE DEF from, to, last
    <3> QED BY <2>1, <3>1, <1>1 DEF Greater
  <2>2. CASE ~last
    <3>1. PICK e \in Nat, n \in Nat \ {0} : req = After(e, n)
      BY <2>2 DEF Requests, Tail_
    <3>2. req.seq \in Nat
      BY <3>1 DEF After
    <3>3. from = req.seq + 1 /\ to = Lesser(req.seq + PageSize, log.max)
      BY <2>2
    <3> HIDE DEF from, to, last
    <3> QED BY <2>2, <3>2, <3>3, <1>1 DEF Lesser
  <2> QED BY <2>1, <2>2
<1>5. req.dir \in {"tail", "after"}
  BY DEF Requests, Tail_, After
<1>6. page.req = req /\ page.epoch = log.epoch /\ page.max = log.max
  OBVIOUS
<1>7. page \in Pages
  <2>1. /\ page.reset = reset /\ page.from = from /\ page.to = to
        /\ page.newer = (to < log.max)
    OBVIOUS
  <2>2. last <=> (req.dir = "tail" \/ reset)
    OBVIOUS
  <2>3. reset <=> (req.dir = "after" /\ req.epoch # log.epoch)
    OBVIOUS
  <2>4. page \in [kind : {"page"}, req : Requests, epoch : Nat, reset : BOOLEAN,
                  from : Nat \ {0}, to : Nat, max : Nat, newer : BOOLEAN]
    <3> HIDE DEF from, to, last, reset
    <3> QED BY <1>1, <1>3, <1>4
  <2>5. PageFits(page)
    <3>1. page.reset = (page.req.dir = "after" /\ page.req.epoch # page.epoch)
      BY <1>6, <2>1
    <3> HIDE DEF page, from, to, last, reset
    <3> QED BY <3>1, <1>4, <1>5, <1>6, <2>1, <2>2, <2>3 DEF PageFits
  <2> HIDE DEF page
  <2> QED BY <2>4, <2>5 DEF Pages
<1> HIDE DEF page
<1> QED BY <1>2, <1>6, <1>7

\* A stretch of rows goes on where another ends, or within it.
LEMMA RowsMeet ==
  ASSUME NEW e, NEW a \in Nat, NEW b \in Nat, NEW c \in Nat, NEW d \in Nat,
         a <= c, a <= b, c <= b + 1, b <= d
  PROVE  Rows(e, a, b) \cup Rows(e, c, d) = Rows(e, a, d)
<1>1. a..b \cup c..d = a..d
  OBVIOUS
<1> QED BY <1>1 DEF Rows

\* Rows of one epoch are rows, and a stretch that ends before it begins is empty.
LEMMA RowsFacts ==
  ASSUME NEW e \in Nat, NEW a \in Nat, NEW b \in Nat
  PROVE  /\ Rows(e, a, b) \in SUBSET [epoch : Nat, seq : Nat]
         /\ b < a => Rows(e, a, b) = {}
  BY DEF Rows

\* A cursor as a request, and a request as a cursor.
LEMMA RequestFacts ==
  /\ Tail_ \in Requests /\ Tail_ \in Allowed
  /\ \A e \in Nat, n \in Nat \ {0} :
       /\ After(e, n) \in Requests
       /\ After(e, n).dir = "after" /\ After(e, n).epoch = e /\ After(e, n).seq = n
       /\ May(e, n) => After(e, n) \in Allowed
  /\ \A r \in Requests :
       \/ r = Tail_ /\ r.dir = "tail"
       \/ r.dir = "after" /\ r.epoch \in Nat /\ r.seq \in Nat \ {0}
<1>1. Tail_ \in Requests /\ Tail_ \in Allowed
  BY DEF Requests, Tail_, Allowed
<1>2. ASSUME NEW e \in Nat, NEW n \in Nat \ {0}
      PROVE  /\ After(e, n) \in Requests
             /\ After(e, n).dir = "after" /\ After(e, n).epoch = e /\ After(e, n).seq = n
             /\ May(e, n) => After(e, n) \in Allowed
  <2>1. After(e, n) \in Requests
    BY DEF Requests
  <2>2. After(e, n).dir = "after" /\ After(e, n).epoch = e /\ After(e, n).seq = n
    BY DEF After
  <2> QED BY <2>1, <2>2 DEF Allowed
<1>3. ASSUME NEW r \in Requests
      PROVE  \/ r = Tail_ /\ r.dir = "tail"
             \/ r.dir = "after" /\ r.epoch \in Nat /\ r.seq \in Nat \ {0}
  BY DEF Requests, Tail_, After
<1> QED BY <1>1, <1>2, <1>3

-----------------------------------------------------------------------------
(***************************************************************************)
(* One lemma for each action                                               *)
(***************************************************************************)

\* A cursor stays one the app may ask with while the screen stays as it is and the
\* daemon goes forward.
LEMMA AllowedStays ==
  ASSUME view' = view,
         \A e, n \in Nat : Seen(e, n) => Seen(e, n)',
         \A e \in Nat : Past(e) => Past(e)'
  PROVE  Allowed \subseteq Allowed'
<1>1. ASSUME NEW r \in Allowed, r.dir = "after" PROVE May(r.epoch, r.seq)'
  <2>1. r.epoch \in Nat /\ r.seq \in Nat /\ May(r.epoch, r.seq)
    BY <1>1, RequestFacts DEF Allowed
  <2>2. Seen(r.epoch, r.seq)' /\ (view'.range = NoRange => Past(r.epoch)')
    BY <2>1 DEF May
  <2> QED BY <2>1, <2>2 DEF May
<1> QED BY <1>1 DEF Allowed

\* Steps that leave the screen alone and move the daemon or the stream forward.
LEMMA StreamMoves ==
  ASSUME IInv, Fit(sync', Allowed), view' = view, LogOK', down' \in Seq(Messages),
         Ordered',
         \A e, n \in Nat : Seen(e, n) => Seen(e, n)',
         \A e \in Nat : Past(e) => Past(e)',
         \A i \in DOMAIN down' : down'[i].kind = "page" => down'[i].req \in Allowed
  PROVE  IInv'
<1>1. Allowed \subseteq Allowed'
  BY AllowedStays
<1>2. Fit(sync, Allowed)'
  BY <1>1, FitMore
<1>3. AnswersAllowed'
  BY <1>1 DEF AnswersAllowed
<1>4. RangeSeen'
  <2>1. CASE view.range = NoRange
    BY <2>1 DEF RangeSeen
  <2>2. CASE view.range # NoRange
    <3>1. view.range.epoch \in Nat /\ view.range.end \in Nat
      BY <2>2 DEF IInv, ViewOK, Ranges
    <3>2. Seen(view.range.epoch, view.range.end)'
      BY <2>2, <3>1 DEF IInv, RangeSeen
    <3> QED BY <3>2 DEF RangeSeen
  <2> QED BY <2>1, <2>2
<1> QED BY <1>2, <1>3, <1>4 DEF IInv, ViewOK, NoGap

\* Steps of the synchroniser alone.
LEMMA SyncMoves ==
  ASSUME IInv, Fit(sync', Allowed), UNCHANGED <<view, log, down>>
  PROVE  IInv'
<1>1. LogOK' /\ down' \in Seq(Messages) /\ Ordered'
  BY DEF IInv, LogOK, Ordered, Stamped
<1>2. /\ \A e, n \in Nat : Seen(e, n) => Seen(e, n)'
      /\ \A e \in Nat : Past(e) => Past(e)'
  BY DEF Seen, Past, Stamped
<1>3. \A i \in DOMAIN down' : down'[i].kind = "page" => down'[i].req \in Allowed
  BY DEF IInv, AnswersAllowed
<1> QED BY <1>1, <1>2, <1>3, StreamMoves

\* Steps that handle or lose a message without touching the screen.
LEMMA LosesMoves ==
  ASSUME IInv, Fit(sync', Allowed), UNCHANGED <<view, log>>,
         down' \in Seq(Messages), Thinner(down', down)
  PROVE  IInv'
<1>1. /\ Ordered'
      /\ \A e, n : Seen(e, n) => Seen(e, n)'
      /\ \A e : Past(e) => Past(e)'
      /\ \A i \in DOMAIN down' : \E k \in DOMAIN down : down'[i] = down[k]
  BY ThinnerFacts DEF IInv
<1>2. \A i \in DOMAIN down' : down'[i].kind = "page" => down'[i].req \in Allowed
  BY <1>1 DEF IInv, AnswersAllowed
<1>3. LogOK'
  BY DEF IInv, LogOK
<1> QED BY <1>1, <1>2, <1>3, StreamMoves

LEMMA ViewKeeps ==
  ASSUME IInv, NEW v \in SUBSET Agents, View(v)
  PROVE  IInv'
<1>1. Fit([sync EXCEPT !.visible = v], Allowed)
  BY DEF IInv, Fit, Fields
<1>2. Fit(sync', Allowed)
  BY <1>1, PublishFits, RequestFacts DEF View, Moves
<1> QED BY <1>2, SyncMoves DEF View, Moves

LEMMA SetActiveKeeps ==
  ASSUME IInv, SetActive
  PROVE  IInv'
<1>1. Fit([sync EXCEPT !.active = ~@], Allowed)
  BY DEF IInv, Fit, Fields
<1>2. Fit(sync', Allowed)
  BY <1>1, PublishFits, RequestFacts DEF SetActive, Moves
<1> QED BY <1>2, SyncMoves DEF SetActive, Moves

LEMMA ConnectKeeps ==
  ASSUME IInv, Connect
  PROVE  IInv'
<1>1. Fit([sync EXCEPT !.connected = TRUE], Allowed)
  BY DEF IInv, Fit, Fields
<1>2. Fit(sync', Allowed)
  BY <1>1, MembershipFits, RequestFacts DEF Connect
<1> QED BY <1>2, SyncMoves DEF Connect

\* A lost connection loses what was under way, and the daemon may begin an epoch.
LEMMA DisconnectKeeps ==
  ASSUME IInv, Disconnect
  PROVE  IInv'
<1> DEFINE shown == IF sync.active THEN SetToSeq(sync.visible) ELSE <<>>
           lost == [sync EXCEPT !.connected = FALSE, !.asked = <<>>,
                                !.rpc.at = IF @ = "none" THEN @ ELSE "lost"]
           left == Outdate([Commit(lost, shown, TRUE) EXCEPT !.retry = FALSE, !.acked = {}])
<1>1. Fit(lost, Allowed)
  <2>1. <<>> \in Seq(Allowed)
    BY EmptySeq
  <2> QED BY <2>1 DEF IInv, Fit, Fields
<1>2. Fit(Commit(lost, shown, TRUE), Allowed)
  <2> HIDE DEF lost, shown
  <2> QED BY <1>1, CommitFits, RequestFacts
<1>3. Fit([Commit(lost, shown, TRUE) EXCEPT !.retry = FALSE, !.acked = {}], Allowed)
  <2> HIDE DEF lost, shown
  <2> QED BY <1>2 DEF Fit, Fields
<1>4. Fit(left, Allowed)
  <2> HIDE DEF lost, shown
  <2> QED BY <1>3, MembershipFits, RequestFacts
<1>5. Fit(sync', Allowed)
  <2>1. sync' = IF Watched \in Desired(left) THEN CancelCatchUp(left) ELSE left
    BY Zenon DEF Disconnect
  <2> HIDE DEF left
  <2> QED BY <2>1, <1>4, CatchUpFits, RequestFacts
<1>6. LogOK' /\ AtMost(log.epoch, log.max, log'.epoch, log'.max)
  <2>0. log.epoch \in Nat /\ log.max \in Nat
    BY DEF IInv, LogOK
  <2>1. CASE log' = log
    BY <2>0, <2>1 DEF IInv, LogOK, AtMost
  <2>2. CASE \E n \in 0..log.max : log' = [epoch |-> log.epoch + 1, max |-> n]
    BY <2>0, <2>2 DEF LogOK, AtMost
  <2> QED BY <2>1, <2>2 DEF Disconnect
<1>7. down' = <<>> /\ down' \in Seq(Messages) /\ DOMAIN down' = {}
  BY EmptySeq DEF Disconnect
<1>8. view' = view
  BY DEF Disconnect
<1>9. Stamped' = {}
  BY <1>7 DEF Stamped
<1>10. Ordered'
  BY <1>9 DEF Ordered
<1>11. ASSUME NEW e \in Nat, NEW n \in Nat, Seen(e, n) PROVE Seen(e, n)'
  <2>1. /\ log.epoch \in Nat /\ log.max \in Nat /\ log'.epoch \in Nat /\ log'.max \in Nat
        /\ AtMost(e, n, log.epoch, log.max)
    BY <1>6, <1>11 DEF IInv, LogOK, Seen
  <2>2. AtMost(e, n, log'.epoch, log'.max)
    BY <2>1, <1>6, Transitive
  <2> QED BY <2>2, <1>9 DEF Seen
<1>12. ASSUME NEW e \in Nat, Past(e) PROVE Past(e)'
  <2>1. log.epoch \in Nat /\ log'.epoch \in Nat /\ e < log.epoch
    BY <1>6, <1>12 DEF IInv, LogOK, Past
  <2>2. e < log'.epoch
    BY <2>1, <1>6 DEF AtMost
  <2> QED BY <2>2, <1>9 DEF Past
<1> HIDE DEF left, lost, shown
<1> QED BY <1>5, <1>6, <1>7, <1>8, <1>10, <1>11, <1>12, StreamMoves

\* Steps that leave the screen alone and send something.
LEMMA SendMoves ==
  ASSUME IInv, Fit(sync', Allowed), view' = view, LogOK', NEW sent \in Seq(Messages),
         down' = down \o sent,
         AtMost(log.epoch, log.max, log'.epoch, log'.max),
         \A i \in DOMAIN sent : sent[i].kind # "ack" =>
           /\ AtMost(log.epoch, log.max, sent[i].epoch, Upto(sent[i]))
           /\ AtMost(sent[i].epoch, Upto(sent[i]), log'.epoch, log'.max)
           /\ \A j \in DOMAIN sent : i < j /\ sent[j].kind # "ack" =>
                AtMost(sent[i].epoch, Upto(sent[i]), sent[j].epoch, Upto(sent[j])),
         \A i \in DOMAIN sent : sent[i].kind = "page" => sent[i].req \in Allowed
  PROVE  IInv'
<1>1. /\ down' \in Seq(Messages)
      /\ Ordered'
      /\ \A e, n \in Nat : Seen(e, n) => Seen(e, n)'
      /\ \A e \in Nat : Past(e) => Past(e)'
      /\ \A i \in DOMAIN down' : \/ i \in DOMAIN down /\ down'[i] = down[i]
                                 \/ \E k \in DOMAIN sent : down'[i] = sent[k]
  BY GrowFacts DEF IInv
<1>2. \A i \in DOMAIN down' : down'[i].kind = "page" => down'[i].req \in Allowed
  BY <1>1 DEF IInv, AnswersAllowed
<1> QED BY <1>1, <1>2, StreamMoves

LEMMA DaemonKeeps ==
  ASSUME IInv, Append_ \/ Rewind
  PROVE  IInv'
<1>1. log.epoch \in Nat /\ log.max \in Nat /\ Fit(sync, Allowed) /\ down \in Seq(Messages)
  BY DEF IInv, LogOK
<1>2. ASSUME NEW rows \in Seq(RowsSent), Send(rows), UNCHANGED <<sync, view>>, LogOK',
             AtMost(log.epoch, log.max, log'.epoch, log'.max),
             \A i \in DOMAIN rows :
               /\ AtMost(log.epoch, log.max, rows[i].epoch, rows[i].seq)
               /\ AtMost(rows[i].epoch, rows[i].seq, log'.epoch, log'.max)
               /\ \A j \in DOMAIN rows : i < j =>
                    AtMost(rows[i].epoch, rows[i].seq, rows[j].epoch, rows[j].seq)
      PROVE  IInv'
  <2>1. CASE Watched \in subs
    <3>1. down' = down \o rows
      BY <1>2, <2>1 DEF Send
    <3>2. rows \in Seq(Messages)
      BY <1>2, ElementOfSeq, LenProperties DEF Messages
    <3>3. ASSUME NEW i \in DOMAIN rows
          PROVE  rows[i].kind = "row" /\ Upto(rows[i]) = rows[i].seq
      <4>1. rows[i] \in RowsSent
        BY <1>2, ElementOfSeq, LenProperties
      <4> QED BY <4>1 DEF RowsSent, Row, Upto
    <3> QED BY <1>1, <1>2, <3>1, <3>2, <3>3, SendMoves
  <2>2. CASE Watched \notin subs
    <3>1. down' = down \o << >> /\ << >> \in Seq(Messages) /\ DOMAIN << >> = {}
      BY <1>1, <1>2, <2>2, ConcatEmptySeq, EmptySeq DEF Send
    <3> DEFINE sent == << >>
    <3>2. sent \in Seq(Messages) /\ down' = down \o sent /\ DOMAIN sent = {}
      BY <3>1
    <3> HIDE DEF sent
    <3> QED BY <1>1, <1>2, <3>2, SendMoves
  <2> QED BY <2>1, <2>2
<1>3. CASE Append_
  <2> DEFINE row == Row(log.epoch, log.max + 1)
             rows == <<row>>
  <2>1. row \in RowsSent /\ row.epoch = log.epoch /\ row.seq = log.max + 1
    BY <1>1 DEF RowsSent, Row
  <2>2. log' = [log EXCEPT !.max = @ + 1] /\ Send(rows) /\ UNCHANGED <<sync, view>>
    BY <1>3 DEF Append_
  <2>3. LogOK' /\ log'.epoch = log.epoch /\ log'.max = log.max + 1
    BY <2>2 DEF IInv, LogOK
  <2> HIDE DEF row
  <2>4. rows \in Seq(RowsSent) /\ DOMAIN rows = {1} /\ rows[1] = row
    BY <2>1
  <2> HIDE DEF rows
  <2>5. AtMost(log.epoch, log.max, log'.epoch, log'.max)
    BY <1>1, <2>3 DEF AtMost
  <2>6. ASSUME NEW i \in DOMAIN rows
        PROVE  /\ AtMost(log.epoch, log.max, rows[i].epoch, rows[i].seq)
               /\ AtMost(rows[i].epoch, rows[i].seq, log'.epoch, log'.max)
               /\ \A j \in DOMAIN rows : ~(i < j)
    BY <1>1, <2>1, <2>3, <2>4 DEF AtMost
  <2> QED BY <1>2, <2>2, <2>3, <2>4, <2>5, <2>6
<1>4. CASE Rewind
  <2>1. PICK n \in 1..log.max :
          /\ log' = [epoch |-> log.epoch + 1, max |-> n]
          /\ Send([i \in 1..n |-> Row(log.epoch + 1, i)])
    BY <1>4 DEF Rewind
  <2> DEFINE rows == [i \in 1..n |-> Row(log.epoch + 1, i)]
  <2>2. n \in Nat
    BY <1>1
  <2>3. LogOK' /\ log'.epoch = log.epoch + 1 /\ log'.max = n
    BY <1>1, <2>1, <2>2 DEF LogOK
  <2>4. ASSUME NEW i \in 1..n
        PROVE  rows[i] \in RowsSent /\ rows[i].epoch = log.epoch + 1 /\ rows[i].seq = i
    <3>1. rows[i] = Row(log.epoch + 1, i)
      OBVIOUS
    <3>2. log.epoch + 1 \in Nat /\ i \in Nat \ {0}
      BY <1>1, <2>2
    <3>3. Row(log.epoch + 1, i) \in RowsSent
      BY <3>2 DEF RowsSent
    <3> HIDE DEF rows
    <3> QED BY <3>1, <3>3 DEF Row
  <2>5. rows \in Seq(RowsSent) /\ DOMAIN rows = 1..n
    BY <2>2, <2>4
  <2>6. Send(rows) /\ UNCHANGED <<sync, view>>
    BY <1>4, <2>1 DEF Rewind
  <2> HIDE DEF rows
  <2>7. AtMost(log.epoch, log.max, log'.epoch, log'.max)
    BY <1>1, <2>3 DEF AtMost
  <2>8. ASSUME NEW i \in DOMAIN rows
        PROVE  /\ AtMost(log.epoch, log.max, rows[i].epoch, rows[i].seq)
               /\ AtMost(rows[i].epoch, rows[i].seq, log'.epoch, log'.max)
               /\ \A j \in DOMAIN rows : i < j =>
                    AtMost(rows[i].epoch, rows[i].seq, rows[j].epoch, rows[j].seq)
    BY <1>1, <2>2, <2>3, <2>4, <2>5 DEF AtMost
  <2> QED BY <1>2, <2>3, <2>5, <2>6, <2>7, <2>8
<1> QED BY <1>3, <1>4

LEMMA SubscribeKeeps ==
  ASSUME IInv, Subscribe
  PROVE  IInv'
<1>1. Fit(sync', Allowed)
  BY DEF Subscribe, IInv, Fit, Fields
<1> DEFINE sent == <<Ack>>
<1>2. sent \in Seq(Messages) /\ DOMAIN sent = {1} /\ sent[1].kind = "ack"
  BY DEF Messages, Ack
<1>3. down' = down \o sent /\ log' = log /\ view' = view
  BY AppendIsConcat DEF Subscribe, IInv
<1>4. LogOK' /\ AtMost(log.epoch, log.max, log'.epoch, log'.max)
  BY <1>3 DEF IInv, LogOK, AtMost
<1> HIDE DEF sent
<1> QED BY <1>1, <1>2, <1>3, <1>4, SendMoves

LEMMA AnswerKeeps ==
  ASSUME IInv, Answer
  PROVE  IInv'
<1>1. PICK i \in DOMAIN sync.asked : down' = Append(down, Page(sync.asked[i]))
  BY DEF Answer
<1> DEFINE page == Page(sync.asked[i])
           sent == <<page>>
<1>2. sync.asked[i] \in Allowed /\ sync.asked[i] \in Requests
  BY ElementOfSeq, LenProperties DEF IInv, Fit, Allowed
<1>3. /\ page \in Pages /\ page.req \in Allowed
      /\ page.epoch = log.epoch /\ page.max = log.max
  BY <1>2, PageFacts DEF IInv
<1>4. down' = Append(down, page) /\ log' = log /\ view' = view /\ sync' = sync
  BY <1>1 DEF Answer
<1> HIDE DEF page
<1>5. page \in Messages /\ page.kind = "page" /\ Upto(page) = log.max
  BY <1>3 DEF Messages, Pages, Upto
<1>6. sent \in Seq(Messages) /\ DOMAIN sent = {1} /\ sent[1] = page
  BY <1>5
<1>7. down' = down \o sent
  BY <1>4, <1>5, AppendIsConcat DEF IInv
<1>8. LogOK' /\ AtMost(log.epoch, log.max, log'.epoch, log'.max)
  BY <1>4 DEF IInv, LogOK, AtMost
<1>9. Fit(sync', Allowed)
  BY <1>4 DEF IInv
<1> HIDE DEF sent
<1>10. ASSUME NEW j \in DOMAIN sent
       PROVE  /\ sent[j] = page /\ \A k \in DOMAIN sent : ~(j < k)
              /\ AtMost(log.epoch, log.max, sent[j].epoch, Upto(sent[j]))
              /\ AtMost(sent[j].epoch, Upto(sent[j]), log'.epoch, log'.max)
  BY <1>3, <1>4, <1>5, <1>6, <1>8
<1> QED BY <1>3, <1>4, <1>6, <1>7, <1>8, <1>9, <1>10, SendMoves

LEMMA AcknowledgeKeeps ==
  ASSUME IInv, Acknowledge
  PROVE  IInv'
<1> DEFINE acked == [sync EXCEPT !.acked = sync.rpc.req, !.retry = FALSE]
<1>1. Fit(acked, Allowed)
  BY DEF IInv, Fit, Fields
<1>2. sync' = Resume(IF sync.rpc.stale THEN acked ELSE StartAcknowledged(acked))
  BY DEF Acknowledge
<1>3. Fit(IF sync.rpc.stale THEN acked ELSE StartAcknowledged(acked), Allowed)
  <2> HIDE DEF acked
  <2> QED BY <1>1, CatchUpFits, RequestFacts
<1>4. Fit(sync', Allowed)
  <2> HIDE DEF acked
  <2> QED BY <1>2, <1>3, MembershipFits, RequestFacts
<1>5. down' \in Seq(Messages) /\ Thinner(down', down)
  BY TailFacts DEF Acknowledge, IInv
<1> HIDE DEF acked
<1> QED BY <1>4, <1>5, LosesMoves DEF Acknowledge

LEMMA SubscriptionFailsKeeps ==
  ASSUME IInv, SubscriptionFails
  PROVE  IInv'
<1> DEFINE failed == [sync EXCEPT !.needsRetry = TRUE, !.rpc = NoRpc,
                                  !.retry = ~sync.rpc.stale,
                                  !.mark = IF Watched \in sync.rpc.req /\ @ = "pending"
                                           THEN "error" ELSE @]
<1>1. Fit(failed, Allowed)
  BY DEF IInv, Fit, Fields
<1>2. sync' = Release(failed)
  BY DEF SubscriptionFails
<1>3. Fit(sync', Allowed)
  <2> HIDE DEF failed
  <2> QED BY <1>1, <1>2, MembershipFits, RequestFacts
<1>4. down' \in Seq(Messages) /\ Thinner(down', down)
  BY RemoveFirstFacts DEF SubscriptionFails, IInv
<1> HIDE DEF failed
<1> QED BY <1>3, <1>4, LosesMoves DEF SubscriptionFails

LEMMA RetryKeeps ==
  ASSUME IInv, RetryMembership \/ RetryCatchUp
  PROVE  IInv'
<1>1. Fit([sync EXCEPT !.retry = FALSE], Allowed)
  BY DEF IInv, Fit, Fields
<1>2. CASE RetryMembership
  <2>1. sync' = Reconcile([sync EXCEPT !.retry = FALSE])
    BY <1>2 DEF RetryMembership
  <2>2. Fit(sync', Allowed)
    BY <1>1, <2>1, MembershipFits, RequestFacts
  <2> QED BY <1>2, <2>2, SyncMoves DEF RetryMembership
<1>3. CASE RetryCatchUp
  <2>1. sync' = StartCatchUp(sync, None, FALSE)
    BY <1>3 DEF RetryCatchUp
  <2>2. Fit(sync', Allowed)
    BY <2>1, StartCatchUpFits, RequestFacts DEF IInv
  <2> QED BY <1>3, <2>2, SyncMoves DEF RetryCatchUp
<1> QED BY <1>2, <1>3

LEMMA FetchFailsKeeps ==
  ASSUME IInv, FetchFails
  PROVE  IInv'
<1>1. PICK req \in ToSet(sync.asked) :
        LET got == [sync EXCEPT !.asked = RemoveFirst(@, req)]
        IN  /\ sync' = IF sync.catchUp.status = "running" /\ sync.catchUp.at = req
                       THEN [got EXCEPT !.catchUp = [Idle EXCEPT !.status = "error"],
                                        !.mark = IF @ = "pending" THEN "error" ELSE @]
                       ELSE got
            /\ down' = RemoveFirstMatch(down, LAMBDA m : m.kind = "page" /\ m.req = req)
  BY Zenon DEF FetchFails
<1> DEFINE got == [sync EXCEPT !.asked = RemoveFirst(@, req)]
           failed == [got EXCEPT !.catchUp = [Idle EXCEPT !.status = "error"],
                                 !.mark = IF @ = "pending" THEN "error" ELSE @]
<1>2. Fit(got, Allowed)
  <2>1. RemoveFirst(sync.asked, req) \in Seq(Allowed)
    BY RemoveFirstFacts DEF IInv, Fit
  <2> QED BY <2>1 DEF IInv, Fit, Fields
<1>3. Fit(failed, Allowed)
  <2> HIDE DEF got
  <2> QED BY <1>2 DEF Fit, Fields
<1>4. Fit(sync', Allowed)
  <2>1. sync' = failed \/ sync' = got
    BY <1>1, Zenon
  <2> HIDE DEF got, failed
  <2> QED BY <2>1, <1>2, <1>3
<1>5. down' \in Seq(Messages) /\ Thinner(down', down)
  <2>1. down' = WithoutPage(down, req)
    BY <1>1, Zenon DEF WithoutPage
  <2> QED BY <2>1, WithoutPageFacts DEF IInv
<1> HIDE DEF got, failed
<1> QED BY <1>4, <1>5, LosesMoves DEF FetchFails

\* What the app knows of the row or page it handles: all that follows is at it or
\* past it, and what the app has seen is not past it.
LEMMA HandleFacts ==
  ASSUME IInv, down # <<>>, down' = Tail(down), log' = log,
         NEW m, m = Head(down), m.kind # "ack"
  PROVE  /\ m \in Messages /\ m.epoch \in Nat /\ Upto(m) \in Nat
         /\ m.kind = "page" => m.req \in Allowed
         /\ down' \in Seq(Messages) /\ Ordered' /\ LogOK'
         /\ \A e, n \in Nat : Seen(e, n) =>
              Seen(e, n)' /\ AtMost(e, n, m.epoch, Upto(m))
         /\ \A e \in Nat : Past(e) => Past(e)' /\ e < m.epoch
         /\ \A n \in Nat : n <= Upto(m) => Seen(m.epoch, n)'
         /\ \A e \in Nat : e < m.epoch => Past(e)'
         /\ \A i \in DOMAIN down' : down'[i].kind = "page" => down'[i].req \in Allowed
<1>1. /\ Len(down) \in Nat \ {0} /\ DOMAIN down = 1..Len(down) /\ m = down[1]
      /\ down' \in Seq(Messages) /\ Len(down') = Len(down) - 1
      /\ \A i \in 1..Len(down') : down'[i] = down[i+1]
  BY HeadTailProperties, LenProperties, EmptySeq DEF IInv
<1>2. DOMAIN down' = 1..(Len(down) - 1)
  BY <1>1, LenProperties
<1>3. 1 \in Stamped /\ m \in Messages
  BY <1>1, ElementOfSeq DEF Stamped, IInv
<1>4. m.epoch \in Nat /\ Upto(m) \in Nat
  BY <1>3, MessageFacts
<1>5. ASSUME NEW i \in Stamped'
      PROVE  i + 1 \in Stamped /\ 1 < i + 1 /\ down'[i] = down[i + 1]
  BY <1>1, <1>2 DEF Stamped
<1>6. Thinner(down', down)
  BY TailFacts DEF IInv
<1>7. /\ Ordered'
      /\ \A e, n : Seen(e, n) => Seen(e, n)'
      /\ \A e : Past(e) => Past(e)'
      /\ \A i \in DOMAIN down' : \E k \in DOMAIN down : down'[i] = down[k]
  BY <1>6, ThinnerFacts DEF IInv
<1>8. /\ \A e, n : Seen(e, n) => AtMost(e, n, m.epoch, Upto(m))
      /\ \A e : Past(e) => e < m.epoch
  BY <1>1, <1>3 DEF Seen, Past
<1>9. /\ AtMost(m.epoch, Upto(m), log'.epoch, log'.max)
      /\ \A i \in Stamped' : AtMost(m.epoch, Upto(m), down'[i].epoch, Upto(down'[i]))
  <2>1. AtMost(m.epoch, Upto(m), log.epoch, log.max)
    BY <1>1, <1>3 DEF IInv, Ordered
  <2>2. ASSUME NEW i \in Stamped'
        PROVE  AtMost(m.epoch, Upto(m), down'[i].epoch, Upto(down'[i]))
    BY <1>1, <1>3, <1>5 DEF IInv, Ordered
  <2> QED BY <2>1, <2>2
<1>10. /\ log'.epoch \in Nat /\ log'.max \in Nat
       /\ \A i \in Stamped' : down'[i].epoch \in Nat /\ Upto(down'[i]) \in Nat
  <2>1. ASSUME NEW i \in Stamped' PROVE down'[i].epoch \in Nat /\ Upto(down'[i]) \in Nat
    <3>1. down'[i] \in Messages /\ down'[i].kind # "ack"
      BY <1>1, <1>2, ElementOfSeq DEF Stamped
    <3> QED BY <3>1, MessageFacts
  <2> QED BY <2>1 DEF IInv, LogOK
<1>11. ASSUME NEW n \in Nat, n <= Upto(m) PROVE Seen(m.epoch, n)'
  <2>1. \A f, k \in Nat : AtMost(m.epoch, Upto(m), f, k) => AtMost(m.epoch, n, f, k)
    BY <1>4, <1>11 DEF AtMost
  <2>2. AtMost(m.epoch, n, log'.epoch, log'.max)
    BY <2>1, <1>9, <1>10
  <2>3. ASSUME NEW i \in Stamped' PROVE AtMost(m.epoch, n, down'[i].epoch, Upto(down'[i]))
    BY <2>1, <1>9, <1>10
  <2> QED BY <2>2, <2>3 DEF Seen
<1>12. ASSUME NEW e \in Nat, e < m.epoch PROVE Past(e)'
  <2>1. \A f, k \in Nat : AtMost(m.epoch, Upto(m), f, k) => e < f
    BY <1>4, <1>12 DEF AtMost
  <2>2. e < log'.epoch
    BY <2>1, <1>9, <1>10
  <2>3. ASSUME NEW i \in Stamped' PROVE e < down'[i].epoch
    BY <2>1, <1>9, <1>10
  <2> QED BY <2>2, <2>3 DEF Past
<1>13. m.kind = "page" => m.req \in Allowed
  BY <1>1 DEF IInv, AnswersAllowed
<1>14. \A i \in DOMAIN down' : down'[i].kind = "page" => down'[i].req \in Allowed
  BY <1>7 DEF IInv, AnswersAllowed
<1>15. LogOK'
  BY DEF IInv, LogOK
<1> QED BY <1>1, <1>3, <1>4, <1>7, <1>8, <1>11, <1>12, <1>13, <1>14, <1>15

\* A live row begins a timeline anew, is its first row, or follows its last.
LEMMA LiveRowScreen ==
  ASSUME IInv, LiveRow, NEW m, m = Head(down)
  PROVE  /\ ViewOK' /\ NoGap' /\ RangeSeen' /\ Allowed \subseteq Allowed'
         /\ HasGap(m) => view' = view
<1> DEFINE live == view.synced /\ ~view.newer
<1>1. m.kind = "row" /\ down # <<>> /\ down' = Tail(down) /\ log' = log
  BY DEF LiveRow
<1>2. /\ m \in Messages /\ m.epoch \in Nat
      /\ \A e, n \in Nat : Seen(e, n) => Seen(e, n)' /\ AtMost(e, n, m.epoch, Upto(m))
      /\ \A e \in Nat : Past(e) => Past(e)' /\ e < m.epoch
      /\ \A n \in Nat : n <= Upto(m) => Seen(m.epoch, n)'
  BY <1>1, HandleFacts
<1>3. m.seq \in Nat \ {0} /\ Upto(m) = m.seq
  BY <1>1, <1>2, MessageFacts
<1>4. /\ view.range \in Ranges \cup {NoRange} /\ view.shown \in SUBSET [epoch : Nat, seq : Nat]
      /\ DOMAIN view = {"synced", "newer", "range", "shown"}
  BY DEF IInv, ViewOK
<1>5. Seen(m.epoch, m.seq)'
  BY <1>2, <1>3
<1>6. ASSUME view' = view
      PROVE  ViewOK' /\ NoGap' /\ RangeSeen' /\ Allowed \subseteq Allowed'
  <2>1. Allowed \subseteq Allowed'
    BY <1>2, <1>6, AllowedStays
  <2>2. view.range # NoRange => view.range.epoch \in Nat /\ view.range.end \in Nat
    BY <1>4 DEF Ranges
  <2>3. RangeSeen'
    BY <1>2, <1>6, <2>2 DEF IInv, RangeSeen
  <2> QED BY <1>6, <2>1, <2>3 DEF IInv, ViewOK, NoGap
<1>7. ASSUME view'.range # NoRange,
             \A r \in Allowed : r.dir = "after" =>
               AtMost(r.epoch, r.seq, view'.range.epoch, view'.range.end),
             \A r \in Allowed : r.dir = "after" /\ view'.range.epoch = r.epoch =>
               \/ view'.range.start <= r.seq + 1
               \/ view'.range.start + PageSize <= view'.range.end + 1
      PROVE  Allowed \subseteq Allowed'
  <2>1. ASSUME NEW r \in Allowed, r.dir = "after" PROVE May(r.epoch, r.seq)'
    <3>1. r.epoch \in Nat /\ r.seq \in Nat /\ Seen(r.epoch, r.seq)
      BY <2>1, RequestFacts DEF Allowed, May
    <3>2. Seen(r.epoch, r.seq)'
      BY <3>1, <1>2
    <3> QED BY <1>7, <2>1, <3>2 DEF May
  <2> QED BY <2>1 DEF Allowed
<1>8. CASE live /\ Restarts(m)
  <2> DEFINE range == [epoch |-> m.epoch, start |-> 1, end |-> 1]
  <2>1. view' = [view EXCEPT !.range = range, !.shown = Rows(m.epoch, 1, 1)]
    BY <1>8 DEF LiveRow
  <2>2. /\ range \in Ranges /\ range # NoRange
        /\ range.epoch = m.epoch /\ range.start = 1 /\ range.end = 1
    BY <1>2 DEF Ranges, NoRange
  <2>3. Rows(m.epoch, 1, 1) \in SUBSET [epoch : Nat, seq : Nat]
    BY <1>2, RowsFacts
  <2>4. m.seq = 1
    BY <1>8 DEF Restarts
  <2>5. ~HasGap(m)
    BY <1>8 DEF Restarts, HasGap
  <2> HIDE DEF range
  <2>6. view'.range = range /\ view'.shown = Rows(m.epoch, 1, 1)
    BY <2>1, <1>4
  <2>7. ViewOK'
    BY <2>1, <2>2, <2>3 DEF IInv, ViewOK
  <2>8. NoGap' /\ RangeSeen'
    BY <1>5, <2>2, <2>4, <2>6 DEF NoGap, RangeSeen
  <2>9. ASSUME NEW r \in Allowed, r.dir = "after" PROVE view'.range.start <= r.seq + 1
    BY <2>2, <2>6, <2>9, RequestFacts DEF Allowed
  <2>10. ASSUME NEW r \in Allowed, r.dir = "after"
         PROVE  AtMost(r.epoch, r.seq, view'.range.epoch, view'.range.end)
    <3>1. /\ view.range # NoRange /\ m.epoch # view.range.epoch
          /\ view.range.epoch \in Nat /\ view.range.end \in Nat
      BY <1>4, <1>8 DEF Restarts, Ranges
    <3>2. AtMost(view.range.epoch, view.range.end, m.epoch, Upto(m))
      BY <1>2, <3>1 DEF IInv, RangeSeen
    <3>3. r.epoch \in Nat /\ AtMost(r.epoch, r.seq, view.range.epoch, view.range.end)
      BY <2>10, <3>1, RequestFacts DEF Allowed, May
    <3>4. r.epoch < m.epoch
      BY <1>2, <3>1, <3>2, <3>3 DEF AtMost
    <3> QED BY <2>2, <2>6, <3>4 DEF AtMost
  <2> QED BY <1>7, <2>2, <2>5, <2>6, <2>7, <2>8, <2>9, <2>10
<1>9. CASE live /\ ~Restarts(m) /\ Accepts(m)
  <2> DEFINE range == Extended(m)
  <2>1. view' = [view EXCEPT !.range = range, !.shown = @ \cup Rows(m.epoch, m.seq, m.seq)]
    BY <1>9 DEF LiveRow
  <2>2. Rows(m.epoch, m.seq, m.seq) \in SUBSET [epoch : Nat, seq : Nat]
    BY <1>2, <1>3, RowsFacts
  <2>3. CASE view.range = NoRange
    <3>1. range = [epoch |-> m.epoch, start |-> m.seq, end |-> m.seq]
      BY <2>3 DEF Extended
    <3>2. range \in Ranges /\ range # NoRange
      BY <3>1, <1>2, <1>3 DEF Ranges, NoRange
    <3>3. range.epoch = m.epoch /\ range.start = m.seq /\ range.end = m.seq
      BY <3>1
    <3>4. view.shown = {} /\ ~HasGap(m)
      BY <2>3 DEF IInv, NoGap, HasGap
    <3> HIDE DEF range
    <3>5. view'.range = range /\ view'.shown = Rows(m.epoch, m.seq, m.seq)
      BY <2>1, <3>4, <1>4
    <3>6. ViewOK'
      BY <2>1, <3>2, <2>2, <1>4 DEF IInv, ViewOK
    <3>7. NoGap' /\ RangeSeen'
      BY <1>5, <3>2, <3>3, <3>5 DEF NoGap, RangeSeen
    <3>8. ASSUME NEW r \in Allowed, r.dir = "after" PROVE view'.range.epoch # r.epoch
      <4>1. r.epoch \in Nat /\ Past(r.epoch)
        BY <2>3, <3>8, RequestFacts DEF Allowed, May
      <4>2. r.epoch < m.epoch
        BY <4>1, <1>2
      <4> QED BY <4>1, <4>2, <3>3, <3>5, <1>2
    <3>9. ASSUME NEW r \in Allowed, r.dir = "after"
          PROVE  AtMost(r.epoch, r.seq, view'.range.epoch, view'.range.end)
      <4>1. r.epoch \in Nat /\ r.seq \in Nat /\ Seen(r.epoch, r.seq)
        BY <3>9, RequestFacts DEF Allowed, May
      <4>2. AtMost(r.epoch, r.seq, m.epoch, m.seq)
        BY <1>2, <1>3, <4>1
      <4> QED BY <3>3, <3>5, <4>2
    <3> QED BY <1>7, <3>2, <3>4, <3>5, <3>6, <3>7, <3>8, <3>9
  <2>4. CASE view.range # NoRange
    <3>1. /\ view.range \in Ranges
          /\ view.range.epoch \in Nat /\ view.range.start \in Nat \ {0}
          /\ view.range.end \in Nat \ {0} /\ view.range.start <= view.range.end
          /\ view.shown = Rows(view.range.epoch, view.range.start, view.range.end)
      BY <2>4, <1>4 DEF Ranges, IInv, NoGap
    <3>2. range = [view.range EXCEPT !.end = m.seq]
      BY <2>4 DEF Extended
    <3>3. m.epoch = view.range.epoch /\ m.seq = view.range.end + 1
      BY <1>9, <2>4 DEF Accepts
    <3>4. /\ range \in Ranges /\ range.epoch = m.epoch
          /\ range.start = view.range.start /\ range.end = m.seq
      BY <3>1, <3>2, <3>3 DEF Ranges
    <3>5. ~HasGap(m)
      BY <3>1, <3>3 DEF HasGap
    <3>6. view.shown \cup Rows(m.epoch, m.seq, m.seq)
            = Rows(m.epoch, view.range.start, m.seq)
      <4>1. /\ view.range.start <= m.seq /\ m.seq <= view.range.end + 1
            /\ view.range.end <= m.seq /\ m.seq \in Nat
        BY <3>1, <3>3
      <4> QED BY <3>1, <3>3, <4>1, RowsMeet
    <3> HIDE DEF range
    <3>7. view'.range = range /\ view'.shown = Rows(m.epoch, view.range.start, m.seq)
      BY <2>1, <3>6, <1>4
    <3>8. ViewOK'
      BY <2>1, <3>4, <2>2, <1>4 DEF IInv, ViewOK
    <3>9. range # NoRange
      BY <3>4 DEF NoRange, Ranges
    <3>10. NoGap' /\ RangeSeen'
      BY <1>5, <3>4, <3>7, <3>9 DEF NoGap, RangeSeen
    <3>11. ASSUME NEW r \in Allowed, r.dir = "after", view'.range.epoch = r.epoch
           PROVE  \/ view'.range.start <= r.seq + 1
                  \/ view'.range.start + PageSize <= view'.range.end + 1
      <4>1. \/ view.range.start <= r.seq + 1
            \/ view.range.start + PageSize <= view.range.end + 1
        BY <2>4, <3>3, <3>4, <3>7, <3>11 DEF Allowed, May
      <4>2. /\ view'.range.start = view.range.start
            /\ view'.range.end = view.range.end + 1
        BY <3>3, <3>4, <3>7
      <4> QED BY <4>1, <4>2, <3>1, SyncAssumption
    <3>12. ASSUME NEW r \in Allowed, r.dir = "after"
           PROVE  AtMost(r.epoch, r.seq, view'.range.epoch, view'.range.end)
      <4>1. /\ AtMost(r.epoch, r.seq, view.range.epoch, view.range.end)
            /\ r.epoch \in Nat /\ r.seq \in Nat
        BY <2>4, <3>12, RequestFacts DEF Allowed, May
      <4>2. view'.range.epoch = view.range.epoch /\ view'.range.end = view.range.end + 1
        BY <3>3, <3>4, <3>7
      <4> QED BY <3>1, <4>1, <4>2 DEF AtMost
    <3> QED BY <1>7, <3>5, <3>7, <3>8, <3>9, <3>10, <3>11, <3>12
  <2> QED BY <2>3, <2>4
<1>10. CASE ~(live /\ Restarts(m)) /\ ~(live /\ ~Restarts(m) /\ Accepts(m))
  <2>1. view' = view
    BY <1>10 DEF LiveRow
  <2> QED BY <2>1, <1>6
<1> QED BY <1>8, <1>9, <1>10

\* After a row or a page: what is left to prove of a step that handles one.
LEMMA HandleMoves ==
  ASSUME IInv, down # <<>>, down' = Tail(down), log' = log, Head(down).kind # "ack",
         ViewOK', NoGap', RangeSeen', Allowed \subseteq Allowed', Fit(sync, Allowed)'
  PROVE  IInv'
<1> PICK m : m = Head(down)
  OBVIOUS
<1>1. /\ down' \in Seq(Messages) /\ Ordered' /\ LogOK'
      /\ \A i \in DOMAIN down' : down'[i].kind = "page" => down'[i].req \in Allowed
  BY HandleFacts
<1>2. AnswersAllowed'
  BY <1>1 DEF AnswersAllowed
<1> QED BY <1>1, <1>2 DEF IInv

LEMMA LiveRowKeeps ==
  ASSUME IInv, LiveRow
  PROVE  IInv'
<1> PICK m : m = Head(down)
  OBVIOUS
<1> DEFINE live == view.synced /\ ~view.newer
           cursor == After(view.range.epoch, view.range.end)
<1>1. /\ ViewOK' /\ NoGap' /\ RangeSeen' /\ Allowed \subseteq Allowed'
      /\ HasGap(m) => view' = view
  BY LiveRowScreen
<1>2. Fit(sync, Allowed')
  BY <1>1, FitMore DEF IInv
<1>3. Fit(sync, Allowed)'
  <2>1. CASE live /\ HasGap(m)
    <3>1. view.range \in Ranges /\ view.range # NoRange /\ view' = view
      BY <2>1, <1>1 DEF HasGap, IInv, ViewOK
    <3>2. /\ view.range.epoch \in Nat /\ view.range.end \in Nat \ {0}
          /\ view.range.start <= view.range.end + 1
      BY <3>1 DEF Ranges
    <3>3. May(view.range.epoch, view.range.end)
      BY <3>1, <3>2 DEF IInv, RangeSeen, May, AtMost
    <3>4. cursor \in Allowed /\ Tail_ \in Allowed
      BY <3>2, <3>3, RequestFacts
    <3>5. cursor \in Allowed' /\ Tail_ \in Allowed'
      BY <3>4, <1>1
    <3>6. sync' = RecoverGap(sync, cursor)
      BY <2>1 DEF LiveRow
    <3> HIDE DEF cursor
    <3>7. Fit(sync', Allowed')
      BY <3>5, <3>6, <1>2, CatchUpFits
    <3> QED BY <3>7
  <2>2. CASE ~(live /\ HasGap(m))
    <3>1. sync' = sync
      BY <2>2 DEF LiveRow
    <3> QED BY <3>1, <1>2
  <2> QED BY <2>1, <2>2
<1>4. down # <<>> /\ down' = Tail(down) /\ log' = log /\ Head(down).kind # "ack"
  BY DEF LiveRow
<1> QED BY <1>1, <1>3, <1>4, HandleMoves

PageRange(m) == [epoch |-> m.epoch, start |-> m.from, end |-> m.to]

\* What a page does to the screen: it replaces what is there, begins it, extends it,
\* or leaves it.
LEMMA ShownFacts ==
  ASSUME IInv, NEW m \in Pages, view' = Shown(m)
  PROVE  /\ DOMAIN view' = DOMAIN view /\ view'.synced \in BOOLEAN /\ view'.newer \in BOOLEAN
         /\ view' = [synced |-> view'.synced, newer |-> view'.newer,
                     range |-> view'.range, shown |-> view'.shown]
         /\ \/ /\ Replaces(m) /\ Empty(m)
               /\ view'.range = NoRange /\ view'.shown = Rows(m.epoch, m.from, m.to)
            \/ /\ Replaces(m) /\ ~Empty(m)
               /\ view'.range = PageRange(m) /\ view'.shown = Rows(m.epoch, m.from, m.to)
            \/ /\ ~Replaces(m) /\ Extends(m) /\ view.range = NoRange
               /\ view'.range = PageRange(m) /\ view'.shown = view.shown \cup Added(m)
            \/ /\ ~Replaces(m) /\ Extends(m) /\ view.range # NoRange
               /\ view'.range = [view.range EXCEPT !.end = m.to]
               /\ view'.shown = view.shown \cup Added(m)
            \/ /\ ~Replaces(m) /\ ~Extends(m)
               /\ view'.range = view.range /\ view'.shown = view.shown
<1> DEFINE rows == Rows(m.epoch, m.from, m.to)
           at == CASE Replaces(m) ->
                        [view EXCEPT !.range = IF Empty(m) THEN NoRange ELSE PageRange(m),
                                     !.shown = rows]
                   [] Extends(m) ->
                        [view EXCEPT !.range = IF view.range = NoRange THEN PageRange(m)
                                               ELSE [@ EXCEPT !.end = m.to],
                                     !.shown = @ \cup Added(m)]
                   [] OTHER -> view
<1>1. /\ DOMAIN view = {"synced", "newer", "range", "shown"} /\ view.synced \in BOOLEAN
      /\ view = [synced |-> view.synced, newer |-> view.newer,
                 range |-> view.range, shown |-> view.shown]
      /\ m.newer \in BOOLEAN
  BY DEF IInv, ViewOK, Pages
<1>2. view' = [at EXCEPT !.synced = @ \/ m.req.dir = "tail" \/ ~m.newer, !.newer = m.newer]
  BY Zenon DEF Shown, PageRange
<1>3. ASSUME NEW range, NEW shown,
             at = [synced |-> view.synced, newer |-> view.newer,
                   range |-> range, shown |-> shown]
      PROVE  /\ DOMAIN view' = DOMAIN view
             /\ view'.synced \in BOOLEAN /\ view'.newer \in BOOLEAN
             /\ view' = [synced |-> view'.synced, newer |-> view'.newer,
                         range |-> view'.range, shown |-> view'.shown]
             /\ view'.range = range /\ view'.shown = shown
  <2> HIDE DEF at
  <2> DEFINE synced == view.synced \/ m.req.dir = "tail" \/ ~m.newer
  <2>1. view' = [synced |-> synced, newer |-> m.newer, range |-> range, shown |-> shown]
    BY <1>1, <1>2, <1>3
  <2>2. synced \in BOOLEAN
    OBVIOUS
  <2> HIDE DEF synced
  <2> QED BY <1>1, <2>1, <2>2
<1>4. CASE Replaces(m)
  <2>1. ~Extends(m)
    BY <1>4 DEF Extends
  <2> DEFINE range == IF Empty(m) THEN NoRange ELSE PageRange(m)
  <2>2. at = [view EXCEPT !.range = range, !.shown = rows]
    BY <1>4, <2>1
  <2> HIDE DEF at, range, rows
  <2>3. at = [synced |-> view.synced, newer |-> view.newer, range |-> range, shown |-> rows]
    BY <1>1, <2>2
  <2>4. view'.range = range /\ view'.shown = rows
    BY <1>3, <2>3
  <2>5. /\ DOMAIN view' = DOMAIN view
        /\ view'.synced \in BOOLEAN /\ view'.newer \in BOOLEAN
        /\ view' = [synced |-> view'.synced, newer |-> view'.newer,
                    range |-> view'.range, shown |-> view'.shown]
    BY <1>3, <2>3
  <2> QED BY <1>4, <2>4, <2>5 DEF range, rows
<1>5. CASE ~Replaces(m) /\ Extends(m)
  <2> DEFINE range == IF view.range = NoRange THEN PageRange(m)
                      ELSE [view.range EXCEPT !.end = m.to]
             shown == view.shown \cup Added(m)
  <2>1. at = [view EXCEPT !.range = range, !.shown = shown]
    BY <1>5
  <2> HIDE DEF at, range, shown
  <2>2. at = [synced |-> view.synced, newer |-> view.newer, range |-> range, shown |-> shown]
    BY <1>1, <2>1
  <2>3. view'.range = range /\ view'.shown = shown
    BY <1>3, <2>2
  <2>4. /\ DOMAIN view' = DOMAIN view
        /\ view'.synced \in BOOLEAN /\ view'.newer \in BOOLEAN
        /\ view' = [synced |-> view'.synced, newer |-> view'.newer,
                    range |-> view'.range, shown |-> view'.shown]
    BY <1>3, <2>2
  <2> QED BY <1>5, <2>3, <2>4 DEF range, shown
<1>6. CASE ~Replaces(m) /\ ~Extends(m)
  <2>1. at = view
    BY <1>6
  <2> HIDE DEF at
  <2>2. view'.range = view.range /\ view'.shown = view.shown
    BY <1>1, <1>3, <2>1
  <2>3. /\ DOMAIN view' = DOMAIN view
        /\ view'.synced \in BOOLEAN /\ view'.newer \in BOOLEAN
        /\ view' = [synced |-> view'.synced, newer |-> view'.newer,
                    range |-> view'.range, shown |-> view'.shown]
    BY <1>1, <1>3, <2>1
  <2> QED BY <1>6, <2>2, <2>3
<1> QED BY <1>4, <1>5, <1>6

\* The numbers of a page, and of the cursor it answers.
LEMMA PageNumbers ==
  ASSUME NEW m \in Pages
  PROVE  /\ m.epoch \in Nat /\ m.from \in Nat \ {0} /\ m.to \in Nat /\ m.max \in Nat
         /\ m.to <= m.max /\ m.req \in Requests /\ m.kind = "page" /\ Upto(m) = m.max
         /\ m.newer <=> m.to < m.max
         /\ \/ /\ m.reset \/ (m.req = Tail_ /\ m.req.dir = "tail")
               /\ m.to = m.max /\ (m.from = 1 \/ m.from + PageSize = m.max + 1)
            \/ /\ ~m.reset /\ m.req.dir = "after" /\ m.req.dir # "tail"
               /\ m.req.epoch = m.epoch /\ m.req.seq \in Nat \ {0}
               /\ m.from = m.req.seq + 1 /\ m.to <= m.req.seq + PageSize
               /\ m.to = m.max \/ m.to = m.req.seq + PageSize
<1>1. /\ m.epoch \in Nat /\ m.from \in Nat \ {0} /\ m.to \in Nat /\ m.max \in Nat
      /\ m.req \in Requests /\ m.kind = "page" /\ m.reset \in BOOLEAN /\ PageFits(m)
  BY DEF Pages
<1>2. Upto(m) = m.max
  BY <1>1 DEF Upto
<1>3. \/ m.req = Tail_ /\ m.req.dir = "tail"
      \/ m.req.dir = "after" /\ m.req.epoch \in Nat /\ m.req.seq \in Nat \ {0}
  BY <1>1, RequestFacts
<1>4. /\ m.to <= m.max /\ (m.newer <=> m.to < m.max)
      /\ m.reset <=> (m.req.dir = "after" /\ m.req.epoch # m.epoch)
  BY <1>1 DEF PageFits
<1>5. CASE m.req.dir = "tail"
  <2>1. m.to = m.max /\ (m.from = 1 \/ m.from + PageSize = m.max + 1)
    BY <1>1, <1>5 DEF PageFits
  <2> QED BY <1>1, <1>2, <1>3, <1>4, <1>5, <2>1
<1>6. CASE m.reset
  <2>1. m.to = m.max /\ (m.from = 1 \/ m.from + PageSize = m.max + 1)
    BY <1>1, <1>6 DEF PageFits
  <2> QED BY <1>1, <1>2, <1>4, <1>6, <2>1
<1>7. CASE m.req.dir # "tail" /\ ~m.reset
  <2>1. m.req.dir = "after" /\ m.req.seq \in Nat \ {0} /\ m.req.epoch = m.epoch
    BY <1>3, <1>4, <1>7
  <2>2. /\ m.from = m.req.seq + 1 /\ m.to <= m.req.seq + PageSize
        /\ m.to = m.max \/ m.to = m.req.seq + PageSize
    BY <1>1, <1>7, <2>1 DEF PageFits
  <2> QED BY <1>1, <1>2, <1>4, <1>7, <2>1, <2>2
<1> QED BY <1>5, <1>6, <1>7

\* A page leaves the screen without a hole, and every cursor one to ask with.
LEMMA PageScreen ==
  ASSUME IInv, NEW m \in Pages, m = Head(down), view' = Shown(m),
         down # <<>>, down' = Tail(down), log' = log
  PROVE  ViewOK' /\ NoGap' /\ RangeSeen' /\ Allowed \subseteq Allowed'
<1>1. /\ m.epoch \in Nat /\ m.from \in Nat \ {0} /\ m.to \in Nat /\ m.max \in Nat
      /\ m.to <= m.max /\ m.kind = "page" /\ Upto(m) = m.max
      /\ PageSize \in Nat \ {0}
  BY PageNumbers, SyncAssumption
<1>2. /\ m.req \in Allowed
      /\ \A e, n \in Nat : Seen(e, n) => Seen(e, n)' /\ AtMost(e, n, m.epoch, m.max)
      /\ \A e \in Nat : Past(e) => Past(e)' /\ e < m.epoch
      /\ \A n \in Nat : n <= m.max => Seen(m.epoch, n)'
      /\ \A e \in Nat : e < m.epoch => Past(e)'
  BY <1>1, HandleFacts
<1>3. /\ view.range \in Ranges \cup {NoRange}
      /\ view.shown \in SUBSET [epoch : Nat, seq : Nat]
  BY DEF IInv, ViewOK
<1>4. Seen(m.epoch, m.to)'
  BY <1>1, <1>2
<1>5. /\ Rows(m.epoch, m.from, m.to) \in SUBSET [epoch : Nat, seq : Nat]
      /\ Empty(m) => Rows(m.epoch, m.from, m.to) = {}
  BY <1>1, RowsFacts DEF Empty
<1>6. ~Empty(m) =>
        /\ PageRange(m) \in Ranges /\ PageRange(m) # NoRange
        /\ PageRange(m).epoch = m.epoch /\ PageRange(m).start = m.from
        /\ PageRange(m).end = m.to
  BY <1>1 DEF Empty, PageRange, Ranges, NoRange
<1>7. ASSUME view'.range \in Ranges \cup {NoRange},
             view'.shown \in SUBSET [epoch : Nat, seq : Nat]
      PROVE  ViewOK'
  <2>1. /\ view'.synced \in BOOLEAN /\ view'.newer \in BOOLEAN
        /\ view' = [synced |-> view'.synced, newer |-> view'.newer,
                    range |-> view'.range, shown |-> view'.shown]
    BY ShownFacts
  <2> QED BY <1>7, <2>1 DEF ViewOK
<1>8. ASSUME \A r \in Allowed : r.dir = "after" =>
               /\ view'.range = NoRange => Past(r.epoch)'
               /\ view'.range # NoRange =>
                    AtMost(r.epoch, r.seq, view'.range.epoch, view'.range.end)
               /\ view'.range # NoRange /\ view'.range.epoch = r.epoch =>
                    \/ view'.range.start <= r.seq + 1
                    \/ view'.range.start + PageSize <= view'.range.end + 1
      PROVE  Allowed \subseteq Allowed'
  <2>1. ASSUME NEW r \in Allowed, r.dir = "after" PROVE May(r.epoch, r.seq)'
    <3>1. r.epoch \in Nat /\ r.seq \in Nat /\ Seen(r.epoch, r.seq)
      BY <2>1, RequestFacts DEF Allowed, May
    <3>2. Seen(r.epoch, r.seq)'
      BY <3>1, <1>2
    <3> QED BY <1>8, <2>1, <3>2 DEF May
  <2> QED BY <2>1 DEF Allowed
<1>9. ASSUME NEW r \in Allowed, r.dir = "after"
      PROVE  r.epoch \in Nat /\ r.seq \in Nat \ {0} /\ May(r.epoch, r.seq)
  BY <1>9, RequestFacts DEF Allowed
<1>10. Replaces(m) => m.to = m.max /\ (m.from = 1 \/ m.from + PageSize = m.max + 1)
  BY PageNumbers DEF Replaces, Bootstraps, Resumes
<1>11. CASE /\ Replaces(m) /\ Empty(m)
            /\ view'.range = NoRange /\ view'.shown = Rows(m.epoch, m.from, m.to)
  <2>1. m.max = 0
    BY <1>1, <1>10, <1>11 DEF Empty
  <2>2. ASSUME NEW r \in Allowed, r.dir = "after" PROVE Past(r.epoch)'
    <3>1. r.epoch \in Nat /\ r.seq \in Nat \ {0} /\ AtMost(r.epoch, r.seq, m.epoch, m.max)
      BY <1>2, <1>9, <2>2 DEF May
    <3>2. r.epoch < m.epoch
      BY <3>1, <2>1 DEF AtMost
    <3> QED BY <3>1, <3>2, <1>2
  <2>3. Allowed \subseteq Allowed'
    BY <1>8, <1>11, <2>2
  <2>4. NoGap' /\ RangeSeen'
    BY <1>5, <1>11 DEF NoGap, RangeSeen
  <2> QED BY <1>5, <1>7, <1>11, <2>3, <2>4
<1>12. CASE /\ Replaces(m) /\ ~Empty(m)
            /\ view'.range = PageRange(m) /\ view'.shown = Rows(m.epoch, m.from, m.to)
  <2>1. m.from = 1 \/ view'.range.start + PageSize <= view'.range.end + 1
    BY <1>1, <1>6, <1>10, <1>12
  <2>2. ASSUME NEW r \in Allowed, r.dir = "after"
        PROVE  \/ view'.range.start <= r.seq + 1
               \/ view'.range.start + PageSize <= view'.range.end + 1
    BY <1>6, <1>9, <1>12, <2>1, <2>2
  <2>3. ASSUME NEW r \in Allowed, r.dir = "after"
        PROVE  AtMost(r.epoch, r.seq, view'.range.epoch, view'.range.end)
    <3>1. AtMost(r.epoch, r.seq, m.epoch, m.max)
      BY <1>2, <1>9, <2>3 DEF May
    <3> QED BY <1>6, <1>10, <1>12, <3>1
  <2>4. Allowed \subseteq Allowed'
    BY <1>6, <1>8, <1>12, <2>2, <2>3
  <2>5. NoGap' /\ RangeSeen'
    BY <1>4, <1>6, <1>12 DEF NoGap, RangeSeen
  <2> QED BY <1>5, <1>6, <1>7, <1>12, <2>4, <2>5
<1>13. CASE /\ ~Replaces(m) /\ Extends(m) /\ view.range = NoRange
            /\ view'.range = PageRange(m) /\ view'.shown = view.shown \cup Added(m)
  <2>1. ~Empty(m) /\ ~Resumes(m)
    BY <1>13 DEF Extends, Resumes
  <2>2. Added(m) = Rows(m.epoch, m.from, m.to)
    BY <2>1 DEF Added
  <2>3. view'.shown = Rows(m.epoch, m.from, m.to)
    BY <1>13, <2>2 DEF IInv, NoGap
  <2>4. ASSUME NEW r \in Allowed, r.dir = "after"
        PROVE  /\ view'.range.epoch # r.epoch
               /\ AtMost(r.epoch, r.seq, view'.range.epoch, view'.range.end)
    <3>1. r.epoch \in Nat /\ Past(r.epoch)
      BY <1>9, <1>13, <2>4 DEF May
    <3>2. r.epoch < m.epoch
      BY <3>1, <1>2
    <3>3. view'.range.epoch = m.epoch
      BY <1>6, <1>13, <2>1
    <3> QED BY <3>1, <3>2, <3>3, <1>1 DEF AtMost
  <2>5. Allowed \subseteq Allowed'
    BY <1>6, <1>8, <1>13, <2>1, <2>4
  <2>6. NoGap' /\ RangeSeen'
    BY <1>4, <1>6, <1>13, <2>1, <2>3 DEF NoGap, RangeSeen
  <2> QED BY <1>5, <1>6, <1>7, <1>13, <2>1, <2>3, <2>5, <2>6
<1>14. CASE /\ ~Replaces(m) /\ Extends(m) /\ view.range # NoRange
            /\ view'.range = [view.range EXCEPT !.end = m.to]
            /\ view'.shown = view.shown \cup Added(m)
  <2>1. /\ view.range \in Ranges
        /\ view.range.epoch \in Nat /\ view.range.start \in Nat \ {0}
        /\ view.range.end \in Nat \ {0} /\ view.range.start <= view.range.end
        /\ view.shown = Rows(view.range.epoch, view.range.start, view.range.end)
    BY <1>3, <1>14 DEF Ranges, IInv, NoGap
  <2>2. /\ m.epoch = view.range.epoch
        /\ m.to > view.range.end /\ m.from <= view.range.end + 1
    BY <1>14 DEF Extends
  <2>3. /\ view'.range \in Ranges /\ view'.range.epoch = m.epoch
        /\ view'.range.start = view.range.start /\ view'.range.end = m.to
    <3> DEFINE next == [view.range EXCEPT !.end = m.to]
    <3>1. m.to \in Nat \ {0} /\ view.range.start <= m.to
      BY <1>1, <2>1, <2>2
    <3>2. /\ next \in Ranges /\ next.epoch = view.range.epoch
          /\ next.start = view.range.start /\ next.end = m.to
      BY <2>1, <3>1 DEF Ranges
    <3> HIDE DEF next
    <3>3. view'.range = next
      BY <1>14 DEF next
    <3> QED BY <2>2, <3>2, <3>3
  <2>4. view'.range # NoRange
    BY <2>3 DEF NoRange, Ranges
  <2>5. view.shown \cup Added(m) = Rows(m.epoch, view.range.start, m.to)
    <3>1. CASE Resumes(m)
      <4>1. Added(m) = Rows(m.epoch, view.range.end + 1, m.to)
        BY <1>1, <2>1, <2>2, <3>1 DEF Added, Greater
      <4>2. /\ view.range.end + 1 \in Nat /\ view.range.start <= view.range.end + 1
            /\ view.range.end <= m.to
        BY <1>1, <2>1, <2>2
      <4> QED BY <1>1, <2>1, <2>2, <4>1, <4>2, RowsMeet
    <3>2. CASE ~Resumes(m)
      <4>1. Added(m) = Rows(m.epoch, m.from, m.to)
        BY <3>2 DEF Added
      <4>2. /\ ~m.reset /\ m.req.dir = "after"
            /\ m.req.epoch = m.epoch /\ m.req.seq \in Nat \ {0}
            /\ m.from = m.req.seq + 1 /\ m.to <= m.req.seq + PageSize
        BY <1>14, <3>2, PageNumbers DEF Replaces, Bootstraps, Resumes, IInv, ViewOK
      <4>3. \/ view.range.start <= m.req.seq + 1
            \/ view.range.start + PageSize <= view.range.end + 1
        <5>1. May(m.req.epoch, m.req.seq)
          BY <1>2, <1>9, <4>2
        <5>2. view.range # NoRange /\ view.range.epoch = m.req.epoch
          BY <1>14, <2>2, <4>2
        <5> QED BY <5>1, <5>2 DEF May
      <4>4. view.range.start <= m.from
        <5> DEFINE start == view.range.start
                   end == view.range.end
                   seq == m.req.seq
                   from == m.from
                   to == m.to
        <5>1. /\ start \in Nat /\ end \in Nat /\ seq \in Nat /\ from \in Nat /\ to \in Nat
              /\ PageSize \in Nat
              /\ to > end /\ from = seq + 1 /\ to <= seq + PageSize
              /\ start <= seq + 1 \/ start + PageSize <= end + 1
          BY <1>1, <2>1, <2>2, <4>2, <4>3
        <5> HIDE DEF start, end, seq, from, to
        <5>2. start <= from
          BY <5>1
        <5> QED BY <5>2 DEF start, from
      <4>5. view.range.end <= m.to
        BY <1>1, <2>1, <2>2
      <4> QED BY <1>1, <2>1, <2>2, <4>1, <4>4, <4>5, RowsMeet
    <3> QED BY <3>1, <3>2
  <2>6. Rows(m.epoch, view.range.start, m.to) \in SUBSET [epoch : Nat, seq : Nat]
    BY <1>1, <2>1, RowsFacts
  <2>7. ASSUME NEW r \in Allowed, r.dir = "after", view'.range.epoch = r.epoch
        PROVE  \/ view'.range.start <= r.seq + 1
               \/ view'.range.start + PageSize <= view'.range.end + 1
    <3>1. \/ view.range.start <= r.seq + 1
          \/ view.range.start + PageSize <= view.range.end + 1
      BY <1>14, <2>2, <2>3, <2>7 DEF Allowed, May
    <3> QED BY <1>1, <2>1, <2>2, <2>3, <3>1
  <2>8. ASSUME NEW r \in Allowed, r.dir = "after"
        PROVE  AtMost(r.epoch, r.seq, view'.range.epoch, view'.range.end)
    <3>1. /\ AtMost(r.epoch, r.seq, view.range.epoch, view.range.end)
          /\ r.epoch \in Nat /\ r.seq \in Nat
      BY <1>9, <1>14, <2>8 DEF May
    <3>2. /\ view'.range.epoch = view.range.epoch
          /\ view'.range.end \in Nat /\ view.range.end <= view'.range.end
      BY <1>1, <2>1, <2>2, <2>3
    <3> QED BY <2>1, <3>1, <3>2 DEF AtMost
  <2>9. Allowed \subseteq Allowed'
    BY <1>8, <2>4, <2>7, <2>8
  <2>10. NoGap' /\ RangeSeen'
    BY <1>4, <1>14, <2>3, <2>4, <2>5 DEF NoGap, RangeSeen
  <2> QED BY <1>7, <1>14, <2>3, <2>5, <2>6, <2>9, <2>10
<1>15. CASE /\ ~Replaces(m) /\ ~Extends(m)
            /\ view'.range = view.range /\ view'.shown = view.shown
  <2>1. view.range # NoRange => view.range.epoch \in Nat /\ view.range.end \in Nat
    BY <1>3 DEF Ranges
  <2>2. RangeSeen'
    BY <1>2, <1>15, <2>1 DEF IInv, RangeSeen
  <2>3. NoGap'
    BY <1>15 DEF IInv, NoGap
  <2>4. ASSUME NEW r \in Allowed, r.dir = "after"
        PROVE  /\ view'.range = NoRange => Past(r.epoch)'
               /\ view'.range # NoRange =>
                    AtMost(r.epoch, r.seq, view'.range.epoch, view'.range.end)
               /\ view'.range # NoRange /\ view'.range.epoch = r.epoch =>
                    \/ view'.range.start <= r.seq + 1
                    \/ view'.range.start + PageSize <= view'.range.end + 1
    <3>1. r.epoch \in Nat /\ May(r.epoch, r.seq)
      BY <1>9, <2>4
    <3> QED BY <1>2, <1>15, <3>1 DEF May
  <2>5. Allowed \subseteq Allowed'
    BY <1>8, <2>4
  <2> QED BY <1>3, <1>7, <1>15, <2>2, <2>3, <2>5
<1> QED BY <1>11, <1>12, <1>13, <1>14, <1>15, ShownFacts

\* The cursor a page leads the app to ask with is one it may ask with.
LEMMA PageCursors ==
  ASSUME IInv, NEW m \in Pages, m = Head(down), view' = Shown(m),
         down # <<>>, down' = Tail(down), log' = log
  PROVE  /\ GapAfter(m) \in Allowed' \cup {None}
         /\ m.newer /\ ~Empty(m) => After(m.epoch, m.to) \in Allowed'
<1>1. /\ m.epoch \in Nat /\ m.from \in Nat \ {0} /\ m.to \in Nat /\ m.max \in Nat
      /\ m.to <= m.max /\ m.kind = "page" /\ Upto(m) = m.max
      /\ PageSize \in Nat \ {0} /\ (m.newer <=> m.to < m.max)
  BY PageNumbers, SyncAssumption
<1>2. /\ m.req \in Allowed
      /\ \A e, n \in Nat : Seen(e, n) => Seen(e, n)' /\ AtMost(e, n, m.epoch, m.max)
      /\ \A e \in Nat : Past(e) => e < m.epoch
      /\ \A n \in Nat : n <= m.max => Seen(m.epoch, n)'
  BY <1>1, HandleFacts
<1>3. Seen(m.epoch, m.to)'
  BY <1>1, <1>2
<1>4. view.range \in Ranges \cup {NoRange}
  BY DEF IInv, ViewOK
<1>5. ASSUME NEW e \in Nat, NEW n \in Nat \ {0}, Seen(e, n)', view'.range # NoRange,
             AtMost(e, n, view'.range.epoch, view'.range.end),
             view'.range.epoch = e =>
               \/ view'.range.start <= n + 1
               \/ view'.range.start + PageSize <= view'.range.end + 1
      PROVE  After(e, n) \in Allowed'
  <2>1. May(e, n)'
    BY <1>5 DEF May
  <2>2. /\ After(e, n) \in Requests
        /\ After(e, n).epoch = e /\ After(e, n).seq = n
    BY RequestFacts
  <2> QED BY <2>1, <2>2 DEF Allowed
<1>6. ASSUME Bootstraps(m), ~Empty(m) PROVE After(m.epoch, m.to) \in Allowed'
  <2>1. Replaces(m)
    BY <1>6 DEF Replaces
  <2>2. view'.range = PageRange(m)
    BY <1>6, <2>1, ShownFacts
  <2>3. /\ view'.range # NoRange /\ view'.range.start = m.from
        /\ view'.range.epoch = m.epoch /\ view'.range.end = m.to
    BY <1>1, <1>6, <2>2 DEF PageRange, NoRange, Empty
  <2>4. m.to \in Nat \ {0} /\ m.from <= m.to + 1
    BY <1>1, <1>6 DEF Empty
  <2>5. AtMost(m.epoch, m.to, view'.range.epoch, view'.range.end)
    BY <1>1, <2>3 DEF AtMost
  <2> QED BY <1>1, <1>3, <1>5, <2>3, <2>4, <2>5
<1>7. ASSUME OutOfReach(m) PROVE After(view.range.epoch, view.range.end) \in Allowed'
  <2>1. /\ ~Replaces(m) /\ view.range # NoRange /\ m.from > view.range.end + 1
    BY <1>7 DEF OutOfReach
  <2>2. /\ view.range.epoch \in Nat /\ view.range.start \in Nat \ {0}
        /\ view.range.end \in Nat \ {0} /\ view.range.start <= view.range.end
    BY <1>4, <2>1 DEF Ranges
  <2>3. ~Extends(m)
    BY <1>1, <2>1, <2>2 DEF Extends
  <2>4. view'.range = view.range
    BY <2>1, <2>3, ShownFacts
  <2> DEFINE e == view.range.epoch
             n == view.range.end
  <2>5. Seen(e, n)
    BY <2>1 DEF IInv, RangeSeen
  <2>6. e \in Nat /\ n \in Nat \ {0} /\ view'.range # NoRange /\ view'.range.start <= n + 1
    BY <2>1, <2>2, <2>4
  <2>7. PICK f \in Nat, k \in Nat \ {0} : f = e /\ k = n
    BY <2>6
  <2>8. Seen(f, k)'
    BY <1>2, <2>5, <2>7
  <2>9. /\ view'.range.start <= k + 1
        /\ AtMost(f, k, view'.range.epoch, view'.range.end)
    BY <2>4, <2>6, <2>7 DEF AtMost
  <2>10. After(f, k) \in Allowed'
    BY <1>5, <2>6, <2>8, <2>9
  <2> QED BY <2>7, <2>10
<1>8. GapAfter(m) \in Allowed' \cup {None}
  BY <1>6, <1>7 DEF GapAfter
<1>9. ASSUME m.newer, ~Empty(m) PROVE After(m.epoch, m.to) \in Allowed'
  <2>1. m.to < m.max /\ m.to \in Nat \ {0}
    BY <1>1, <1>9 DEF Empty
  <2>2. /\ ~m.reset /\ m.req.dir = "after" /\ m.req.dir # "tail"
        /\ m.req.epoch = m.epoch /\ m.req.seq \in Nat \ {0}
        /\ m.from = m.req.seq + 1 /\ m.to <= m.req.seq + PageSize
    BY <1>1, <2>1, PageNumbers
  <2>3. ~Replaces(m)
    BY <2>2 DEF Replaces, Bootstraps, Resumes
  <2>4. May(m.req.epoch, m.req.seq)
    BY <1>2, <2>2 DEF Allowed
  <2>5. view.range # NoRange
    <3>1. ~Past(m.epoch)
      BY <1>1, <1>2
    <3> QED BY <2>2, <2>4, <3>1 DEF May
  <2>6. /\ view.range.epoch \in Nat /\ view.range.start \in Nat \ {0}
        /\ view.range.end \in Nat \ {0} /\ view.range.start <= view.range.end
        /\ view.range \in Ranges
    BY <1>4, <2>5 DEF Ranges
  <2>7. /\ view'.range # NoRange
        /\ view'.range.epoch = view.range.epoch /\ view'.range.start = view.range.start
        /\ view'.range.end \in Nat /\ view.range.end <= view'.range.end
    <3>1. CASE view'.range = view.range
      BY <2>5, <2>6, <3>1
    <3>2. CASE Extends(m) /\ view'.range = [view.range EXCEPT !.end = m.to]
      <4> DEFINE next == [view.range EXCEPT !.end = m.to]
      <4>1. m.to > view.range.end
        BY <2>5, <3>2 DEF Extends
      <4>2. /\ next.epoch = view.range.epoch /\ next.start = view.range.start
            /\ next.end = m.to
        BY <2>6 DEF Ranges
      <4> HIDE DEF next
      <4>3. view'.range = next
        BY <3>2 DEF next
      <4>4. next # NoRange
        BY <1>1, <2>6, <4>1, <4>2 DEF NoRange
      <4> QED BY <1>1, <2>6, <4>1, <4>2, <4>3, <4>4
    <3> QED BY <2>3, <2>5, <3>1, <3>2, ShownFacts
  <2>8. ASSUME view'.range.epoch = m.epoch
        PROVE  \/ view'.range.start <= m.to + 1
               \/ view'.range.start + PageSize <= view'.range.end + 1
    <3>1. view.range.epoch = m.req.epoch
      BY <2>2, <2>7, <2>8
    <3>2. \/ view.range.start <= m.req.seq + 1
          \/ view.range.start + PageSize <= view.range.end + 1
      BY <2>4, <2>5, <3>1 DEF May
    <3> DEFINE start == view.range.start
               end == view.range.end
               next == view'.range.end
               seq == m.req.seq
               to == m.to
    <3>3. /\ start \in Nat /\ end \in Nat /\ next \in Nat /\ seq \in Nat /\ to \in Nat
          /\ PageSize \in Nat /\ end <= next /\ seq + 1 <= to
          /\ start <= seq + 1 \/ start + PageSize <= end + 1
      BY <1>1, <1>9, <2>2, <2>6, <2>7, <3>2 DEF Empty
    <3>4. view'.range.start = start /\ view'.range.end = next
      BY <2>7
    <3> HIDE DEF start, end, next, seq, to
    <3>5. start <= to + 1 \/ start + PageSize <= next + 1
      BY <3>3
    <3> QED BY <3>4, <3>5 DEF to
  <2>9. AtMost(m.epoch, m.to, view'.range.epoch, view'.range.end)
    <3>1. /\ AtMost(m.epoch, m.req.seq, view.range.epoch, view.range.end)
          /\ AtMost(view.range.epoch, view.range.end, m.epoch, m.max)
      BY <1>2, <2>2, <2>4, <2>5, <2>6 DEF May, IInv, RangeSeen
    <3>2. view.range.epoch = m.epoch /\ m.req.seq <= view.range.end
      BY <1>1, <2>6, <3>1 DEF AtMost
    <3>3. m.to <= view'.range.end
      <4>1. CASE m.to <= view.range.end
        BY <1>1, <2>6, <2>7, <4>1
      <4>2. CASE m.to > view.range.end
        <5>1. Extends(m)
          <6>1. ~Discards(m)
            BY <2>2 DEF Discards, Resumes
          <6>2. m.from <= view.range.end + 1
            BY <1>1, <2>2, <2>6, <3>2
          <6> QED BY <1>9, <2>3, <3>2, <4>2, <6>1, <6>2 DEF Extends
        <5>2. view'.range = [view.range EXCEPT !.end = m.to]
          BY <2>3, <2>5, <5>1, ShownFacts
        <5> QED BY <1>1, <2>6, <5>2 DEF Ranges
      <4> QED BY <1>1, <2>6, <4>1, <4>2
    <3> QED BY <2>7, <3>2, <3>3 DEF AtMost
  <2> QED BY <1>1, <1>3, <1>5, <2>1, <2>7, <2>8, <2>9
<1> QED BY <1>8, <1>9

\* What a page leads the synchroniser to ask for is what follows some row.
LEMMA TimelinePageKeeps ==
  ASSUME IInv, TimelinePage
  PROVE  IInv'
<1> PICK m : m = Head(down)
  OBVIOUS
<1> DEFINE got == [sync EXCEPT !.asked = RemoveFirst(@, m.req)]
           told == IF GapAfter(m) = None THEN got ELSE RecoverGap(got, GapAfter(m))
           R == Allowed'
<1>1. /\ down # <<>> /\ down' = Tail(down) /\ log' = log /\ m.kind = "page"
      /\ sync' = Continue(told, m) /\ view' = Shown(m)
  BY DEF TimelinePage
<1>2. m \in Pages
  <2>1. m \in Messages
    BY <1>1, HandleFacts
  <2> QED BY <1>1, <2>1, MessageFacts
<1>3. ViewOK' /\ NoGap' /\ RangeSeen' /\ Allowed \subseteq Allowed'
  BY <1>1, <1>2, PageScreen
<1>4. /\ GapAfter(m) \in R \cup {None}
      /\ m.newer /\ ~Empty(m) => After(m.epoch, m.to) \in R
  BY <1>1, <1>2, PageCursors
<1>5. Fit(sync, R) /\ Tail_ \in R
  BY <1>3, FitMore, RequestFacts DEF IInv
<1> HIDE DEF R
<1>6. Fit(got, R)
  <2>1. RemoveFirst(sync.asked, m.req) \in Seq(R)
    BY <1>5, RemoveFirstFacts DEF Fit
  <2> QED BY <1>5, <2>1 DEF Fit, Fields
<1>7. Fit(told, R)
  <2> HIDE DEF got
  <2> QED BY <1>4, <1>5, <1>6, CatchUpFits
<1>8. ASSUME NEW s, Fit(s, R) PROVE Fit(Continue(s, m), R)
  <2> DEFINE next == After(m.epoch, m.to)
             done == [s EXCEPT !.catchUp = [Idle EXCEPT !.status = "complete"]]
             more == [s EXCEPT !.catchUp.at = next, !.asked = Asking(@, next)]
  <2>1. ASSUME next \in R PROVE Fit(more, R)
    <3> HIDE DEF next
    <3>1. Asking(s.asked, next) \in Seq(R)
      BY <1>8, <2>1, AskingFits DEF Fit
    <3> QED BY <1>8, <3>1 DEF Fit, Fields
  <2>2. Fit(done, R) /\ Fit([done EXCEPT !.mark = "ready"], R)
    BY <1>8 DEF Fit, Fields
  <2>3. s.owed \in R \cup {None}
    BY <1>8 DEF Fit
  <2>4. Fit(StartCatchUp(done, s.owed, TRUE), R)
    <3> HIDE DEF done
    <3> QED BY <1>5, <2>2, <2>3, StartCatchUpFits
  <2>5. \/ Continue(s, m) = s
        \/ m.newer /\ ~Empty(m) /\ Continue(s, m) = more
        \/ Continue(s, m) = StartCatchUp(done, s.owed, TRUE)
        \/ Continue(s, m) = [done EXCEPT !.mark = "ready"]
    BY Zenon DEF Continue
  <2> HIDE DEF done, more
  <2> QED BY <1>4, <1>8, <2>1, <2>2, <2>4, <2>5
<1>9. Fit(sync', R)
  <2> HIDE DEF told
  <2> QED BY <1>1, <1>7, <1>8
<1>10. Fit(sync, Allowed)'
  BY <1>9 DEF R
<1>11. Head(down).kind # "ack"
  BY <1>1
<1> HIDE DEF got, told
<1> QED BY <1>1, <1>3, <1>10, <1>11, HandleMoves

-----------------------------------------------------------------------------
(***************************************************************************)
(* The theorem                                                             *)
(***************************************************************************)

LEMMA InitInvariant ==
  ASSUME Init
  PROVE  IInv
<1>1. Fit(sync, Allowed)
  BY EmptySeq DEF Init, Fit, Fields
<1>2. LogOK
  <2>1. PICK n \in 0..Lesser(2, MaxRows) : log = [epoch |-> 1, max |-> n]
    BY DEF Init
  <2>2. n \in Nat
    OBVIOUS
  <2> QED BY <2>1, <2>2 DEF LogOK
<1>3. ViewOK /\ NoGap /\ RangeSeen
  BY DEF Init, ViewOK, NoGap, RangeSeen
<1>4. down \in Seq(Messages) /\ DOMAIN down = {}
  BY EmptySeq DEF Init
<1>5. Ordered /\ AnswersAllowed
  BY <1>4 DEF Ordered, AnswersAllowed, Stamped
<1> QED BY <1>1, <1>2, <1>3, <1>4, <1>5 DEF IInv

LEMMA NextInvariant ==
  ASSUME IInv, [Next]_vars
  PROVE  IInv'
<1>1. CASE Next
  <2>1. ASSUME NEW v \in SUBSET Agents, View(v) PROVE IInv'
    BY <2>1, ViewKeeps
  <2>2. CASE SetActive
    BY <2>2, SetActiveKeeps
  <2>3. CASE Connect
    BY <2>3, ConnectKeeps
  <2>4. CASE Disconnect
    BY <2>4, DisconnectKeeps
  <2>5. CASE Append_ \/ Rewind
    BY <2>5, DaemonKeeps
  <2>6. CASE Subscribe
    BY <2>6, SubscribeKeeps
  <2>7. CASE Answer
    BY <2>7, AnswerKeeps
  <2>8. CASE Acknowledge
    BY <2>8, AcknowledgeKeeps
  <2>9. CASE LiveRow
    BY <2>9, LiveRowKeeps
  <2>10. CASE TimelinePage
    BY <2>10, TimelinePageKeeps
  <2>11. CASE SubscriptionFails
    BY <2>11, SubscriptionFailsKeeps
  <2>12. CASE RetryMembership \/ RetryCatchUp
    BY <2>12, RetryKeeps
  <2>13. CASE FetchFails
    BY <2>13, FetchFailsKeeps
  <2> QED BY <1>1, <2>1, <2>2, <2>3, <2>4, <2>5, <2>6, <2>7, <2>8, <2>9, <2>10,
             <2>11, <2>12, <2>13 DEF Next
<1>2. CASE UNCHANGED vars
  <2>1. UNCHANGED <<sync, view, log, down>>
    BY <1>2 DEF vars
  <2>2. Fit(sync', Allowed)
    BY <2>1 DEF IInv
  <2> QED BY <2>1, <2>2, SyncMoves
<1> QED BY <1>1, <1>2

\* The inductive invariant holds in every reachable state.
THEOREM Invariance == Spec => []IInv
<1>1. Init => IInv
  BY InitInvariant
<1>2. IInv /\ [Next]_vars => IInv'
  BY NextInvariant
<1> QED BY <1>1, <1>2, PTL DEF Spec

\* However pages of any size and age, live rows, rewinds, failures and lost
\* connections interleave, the rows on screen are of one epoch, without a hole, and
\* exactly those the cursor claims (session-stream-reducers.ts).
THEOREM NothingSkipped == Spec => []NoGap
<1>1. IInv => NoGap
  BY DEF IInv
<1> QED BY <1>1, Invariance, PTL

-----------------------------------------------------------------------------
(***************************************************************************)
(* A timeline that is ready: what the app counts on still comes            *)
(***************************************************************************)

\* The app wants Watched, and the daemon has told it that it gets its rows.
Covered(s) == Watched \in Desired(s) /\ Watched \in s.acked

Formed(s) ==
  /\ DOMAIN s = Fields
  /\ DOMAIN s.rpc = {"at", "req", "stale"}
  /\ DOMAIN s.catchUp = {"status", "req", "at"}

\* What a membership request does not change, and one made for what is wanted now.
Same(s, t) ==
  /\ Formed(t)
  /\ t.connected = s.connected /\ t.recent = s.recent /\ t.acked = s.acked
  /\ t.catchUp = s.catchUp
Fresh(s) ==
  /\ s.rpc.at \in {"none", "sent"}
  /\ s.rpc.at = "sent" => s.connected /\ s.rpc.req = Desired(s)

\* A request under way is kept; without one, a new one may be made.
Asks(s, t) ==
  \/ t.rpc.at = s.rpc.at /\ t.rpc.req = s.rpc.req
  \/ s.rpc.at = "none" /\ Fresh(t)

Complete(s) == s.catchUp.status = "complete"

\* A membership that came back is not counted on.
Sure(s, g) == Covered(s) /\ ~g
Done(s, g) == Complete(s) /\ ~g

\* Without a connection nothing is acknowledged or answered; a request made while
\* Watched is covered asks for it; a catch-up is complete only for an agent that is
\* wanted, and under coverage.
Linked(s, g) ==
  /\ Formed(s)
  /\ ~s.connected => s.acked = {} /\ s.rpc.at \notin {"sent", "answered"}
  /\ Sure(s, g) /\ s.rpc.at \in {"sent", "answered"} => Watched \in s.rpc.req
  /\ Done(s, g) => Sure(s, g)
  /\ Complete(s) => Watched \in Desired(s)

LEMMA MembershipMoves ==
  ASSUME NEW s, Formed(s)
  PROVE  /\ Same(s, Latest(s)) /\ Fresh(Latest(s))
         /\ Same(s, Outdate(s))
         /\ Outdate(s).rpc.at = s.rpc.at /\ Outdate(s).rpc.req = s.rpc.req
         /\ Same(s, Reconcile(s)) /\ Asks(s, Reconcile(s))
         /\ Fresh(s) => Same(s, Release(s)) /\ Fresh(Release(s))
         /\ Same(s, Resume(s)) /\ Fresh(Resume(s))
<1>1. ASSUME NEW t, Formed(t) PROVE Same(t, Latest(t)) /\ Fresh(Latest(t))
  <2>1. CASE Latest(t) = [t EXCEPT !.rpc = NoRpc]
    BY <1>1, <2>1 DEF Formed, Fields, Same, Fresh, NoRpc
  <2>2. CASE /\ t.connected
             /\ Latest(t) = [t EXCEPT !.rpc = [at |-> "sent", req |-> Desired(t), stale |-> FALSE],
                                      !.needsRetry = FALSE]
    <3> DEFINE rpc == [at |-> "sent", req |-> Desired(t), stale |-> FALSE]
    <3>1. DOMAIN rpc = {"at", "req", "stale"} /\ rpc.at = "sent" /\ rpc.req = Desired(t)
      OBVIOUS
    <3>2. Latest(t) = [t EXCEPT !.rpc = rpc, !.needsRetry = FALSE]
      BY <2>2
    <3> HIDE DEF rpc
    <3>3. Same(t, Latest(t)) /\ Latest(t).rpc = rpc
      BY <1>1, <3>1, <3>2 DEF Formed, Fields, Same
    <3>4. Desired(Latest(t)) = Desired(t) /\ Latest(t).connected
      BY <2>2, <3>3 DEF Same, Desired
    <3> QED BY <3>1, <3>3, <3>4 DEF Fresh
  <2> QED BY <2>1, <2>2 DEF Latest
<1>2. /\ Same(s, Outdate(s))
      /\ Outdate(s).rpc.at = s.rpc.at /\ Outdate(s).rpc.req = s.rpc.req
  <2> DEFINE rpc == [s.rpc EXCEPT !.stale = @ \/ s.rpc.at # "none"]
  <2>1. DOMAIN rpc = DOMAIN s.rpc /\ rpc.at = s.rpc.at /\ rpc.req = s.rpc.req
    BY DEF Formed
  <2>2. Outdate(s) = [s EXCEPT !.rpc = rpc]
    BY DEF Outdate
  <2> HIDE DEF rpc
  <2> QED BY <2>1, <2>2 DEF Formed, Fields, Same
<1>3. Same(s, Reconcile(s)) /\ Asks(s, Reconcile(s))
  <2>1. CASE s.rpc.at # "none"
    BY <2>1 DEF Reconcile, Formed, Fields, Same, Asks
  <2>2. CASE s.rpc.at = "none"
    BY <1>1, <2>2 DEF Reconcile, Asks
  <2> QED BY <2>1, <2>2
<1>4. ASSUME NEW t, Formed(t), Fresh(t) PROVE Same(t, Release(t)) /\ Fresh(Release(t))
  <2> DEFINE once == [t EXCEPT !.again = FALSE]
  <2>1. /\ Same(t, once)
    BY <1>4 DEF Formed, Fields, Same
  <2> HIDE DEF once
  <2>2. Formed(once)
    BY <2>1 DEF Same
  <2>3. Same(once, Latest(once)) /\ Fresh(Latest(once))
    BY <1>1, <2>2
  <2>4. Same(t, Latest(once))
    BY <2>1, <2>3 DEF Same
  <2>5. Same(t, t)
    BY <1>4 DEF Same
  <2>6. Release(t) = Latest(once) \/ Release(t) = t
    BY DEF Release, once
  <2> QED BY <1>4, <2>3, <2>4, <2>5, <2>6
<1>5. Same(s, Resume(s)) /\ Fresh(Resume(s))
  <2>1. Same(s, Latest(s)) /\ Fresh(Latest(s)) /\ Formed(Latest(s))
    BY <1>1 DEF Same
  <2>2. Same(Latest(s), Release(Latest(s))) /\ Fresh(Release(Latest(s)))
    BY <1>4, <2>1
  <2>3. Same(s, Release(Latest(s)))
    BY <2>1, <2>2 DEF Same
  <2> QED BY <2>1, <2>2, <2>3 DEF Resume
<1> QED BY <1>1, <1>2, <1>3, <1>4, <1>5

\* Starting a catch-up leaves the membership alone and never completes one; a gap
\* found while the rows count makes one run.
Starts(s, t) ==
  /\ Formed(t)
  /\ t.connected = s.connected /\ t.recent = s.recent /\ t.acked = s.acked
  /\ t.rpc = s.rpc
  /\ Complete(t) => Complete(s)

LEMMA StartCatchUpMoves ==
  ASSUME NEW s, Formed(s), NEW req, NEW supersede \in BOOLEAN
  PROVE  /\ Starts(s, StartCatchUp(s, req, supersede))
         /\ supersede /\ Fetchable(s) => ~Complete(StartCatchUp(s, req, supersede))
<1> DEFINE next == IF req = None THEN Tail_ ELSE req
           running == s.catchUp.status = "running"
           keep == IF supersede THEN running /\ s.catchUp.req = next
                   ELSE s.catchUp.status \in {"running", "complete"}
           park == supersede /\ running /\ s.catchUp.req = Tail_
           run == [s EXCEPT !.catchUp = [status |-> "running", req |-> next, at |-> next],
                            !.owed = None, !.asked = Asking(@, next)]
           t == StartCatchUp(s, req, supersede)
<1>1. Starts(s, s)
  BY DEF Starts
<1>2. ASSUME NEW o PROVE Starts(s, [s EXCEPT !.owed = o])
                         /\ [s EXCEPT !.owed = o].catchUp = s.catchUp
  BY DEF Starts, Formed, Fields, Complete
<1>3. Starts(s, run) /\ ~Complete(run)
  BY DEF Starts, Formed, Fields, Complete
<1>4. \/ ~Fetchable(s) /\ (t = s \/ t = [s EXCEPT !.owed = req])
      \/ keep /\ t = s
      \/ park /\ t = [s EXCEPT !.owed = next]
      \/ t = run
  BY DEF StartCatchUp
<1>5. Starts(s, t)
  <2> HIDE DEF t, run, next, keep, park
  <2> QED BY <1>1, <1>2, <1>3, <1>4
<1>6. ASSUME supersede, Fetchable(s) PROVE ~Complete(t)
  <2>1. keep \/ park => s.catchUp.status = "running"
    BY <1>6
  <2>2. keep \/ park => ~Complete(s)
    BY <2>1 DEF Complete
  <2> HIDE DEF t, run, next, keep, park
  <2>3. CASE t = s /\ keep
    BY <2>2, <2>3
  <2>4. CASE park /\ t = [s EXCEPT !.owed = next]
    BY <1>2, <2>2, <2>4 DEF Complete
  <2> QED BY <1>3, <1>4, <1>6, <2>3, <2>4
<1> QED BY <1>5, <1>6

LEMMA CatchUpMoves ==
  ASSUME NEW s, Formed(s)
  PROVE  /\ Starts(s, StartAcknowledged(s))
         /\ Starts(s, CancelCatchUp(s)) /\ ~Complete(CancelCatchUp(s))
         /\ \A cursor : /\ Starts(s, RecoverGap(s, cursor))
                        /\ Fetchable(s) => ~Complete(RecoverGap(s, cursor))
<1>1. Starts(s, s)
  BY DEF Starts
<1>2. Starts(s, StartAcknowledged(s))
  <2>1. (s.owed # None) \in BOOLEAN
    OBVIOUS
  <2>2. Starts(s, StartCatchUp(s, s.owed, s.owed # None))
    BY <2>1, StartCatchUpMoves
  <2> QED BY <1>1, <2>2 DEF StartAcknowledged
<1>3. Starts(s, CancelCatchUp(s)) /\ ~Complete(CancelCatchUp(s))
  BY DEF CancelCatchUp, Idle, Starts, Formed, Fields, Complete
<1>4. ASSUME NEW cursor
      PROVE  /\ Starts(s, RecoverGap(s, cursor))
             /\ Fetchable(s) => ~Complete(RecoverGap(s, cursor))
  <2>1. /\ Starts(s, StartCatchUp(s, cursor, TRUE))
        /\ Fetchable(s) => ~Complete(StartCatchUp(s, cursor, TRUE))
    BY StartCatchUpMoves
  <2>2. Fetchable(s) => Watched \in Desired(s)
    BY DEF Fetchable
  <2> QED BY <1>1, <2>1, <2>2 DEF RecoverGap
<1> QED BY <1>2, <1>3, <1>4

\* A change of membership: a request under way is kept, a catch-up that is complete
\* stays so only for an agent that stays.
Commits(s, t) ==
  /\ Formed(t) /\ t.connected = s.connected /\ t.acked = s.acked
  /\ Asks(s, t)
  /\ Complete(t) => Complete(s) /\ (Watched \in Desired(s) => Watched \in Desired(t))

LEMMA CommitMoves ==
  ASSUME NEW s, Formed(s), NEW next, NEW reset
  PROVE  /\ Commits(s, Commit(s, next, reset))
         /\ Desired(Commit(s, next, reset)) = ToSet(next)
<1> DEFINE was == Watched \in Desired(s)
           is == Watched \in ToSet(next)
           marked == [s EXCEPT !.recent = next,
                               !.mark = IF is /\ (reset \/ ~was) THEN "pending"
                                        ELSE IF was /\ ~is THEN "ready" ELSE @]
           same == IF s.needsRetry THEN Reconcile(marked) ELSE marked
           left == IF was /\ ~is THEN CancelCatchUp(marked) ELSE marked
           quiet == [left EXCEPT !.retry = FALSE]
           t == Commit(s, next, reset)
<1>1. /\ Formed(marked) /\ marked.connected = s.connected /\ marked.acked = s.acked
      /\ marked.recent = next /\ marked.rpc = s.rpc /\ marked.catchUp = s.catchUp
  BY DEF Formed, Fields
<1>2. Desired(marked) = ToSet(next)
  BY <1>1 DEF Desired
<1>3. ASSUME ToSet(next) = Desired(s),
             t = StartCatchUp(same, None, FALSE) \/ t = same
      PROVE  Commits(s, t) /\ Desired(t) = ToSet(next)
  <2> HIDE DEF marked, t, was, is
  <2>1. Same(marked, same) /\ Asks(marked, same)
    <3>1. Same(marked, marked) /\ Asks(marked, marked)
      BY <1>1 DEF Same, Asks
    <3>2. Same(marked, Reconcile(marked)) /\ Asks(marked, Reconcile(marked))
      BY <1>1, MembershipMoves
    <3> QED BY <3>1, <3>2
  <2> HIDE DEF same
  <2>2. Formed(same)
    BY <2>1 DEF Same
  <2>3. Starts(same, same) /\ Starts(same, StartCatchUp(same, None, FALSE))
    BY <2>2, StartCatchUpMoves DEF Starts
  <2>4. Starts(same, t)
    BY <1>3, <2>3
  <2>5. /\ Formed(t) /\ t.connected = s.connected /\ t.acked = s.acked /\ t.recent = next
        /\ t.rpc = same.rpc
        /\ Complete(t) => Complete(s)
    BY <1>1, <2>1, <2>4 DEF Starts, Same, Complete
  <2>6. Desired(t) = ToSet(next) /\ Desired(same) = ToSet(next)
    BY <2>1, <2>5, <1>1 DEF Desired, Same
  <2>7. Asks(s, t)
    BY <1>1, <2>1, <2>5, <2>6 DEF Asks, Fresh, Same
  <2> QED BY <1>3, <2>5, <2>6, <2>7 DEF Commits
<1>4. ASSUME t = Reconcile(Outdate(quiet))
      PROVE  Commits(s, t) /\ Desired(t) = ToSet(next)
  <2>1. /\ Formed(left) /\ left.connected = s.connected /\ left.acked = s.acked
        /\ left.recent = next /\ left.rpc = s.rpc
        /\ Complete(left) => Complete(s) /\ ~(was /\ ~is)
    <3> HIDE DEF marked, was, is
    <3>1. Starts(marked, CancelCatchUp(marked)) /\ ~Complete(CancelCatchUp(marked))
      BY <1>1, CatchUpMoves
    <3>2. CASE was /\ ~is
      BY <1>1, <3>1, <3>2 DEF Starts
    <3>3. CASE ~(was /\ ~is)
      BY <1>1, <3>3 DEF Complete
    <3> QED BY <3>2, <3>3
  <2> HIDE DEF left, t
  <2>2. Same(left, quiet) /\ quiet.rpc = left.rpc
    BY <2>1 DEF Same, Formed, Fields
  <2> HIDE DEF quiet
  <2>3. Formed(quiet)
    BY <2>2 DEF Same
  <2> DEFINE old == Outdate(quiet)
  <2>4. Same(quiet, old) /\ old.rpc.at = quiet.rpc.at /\ old.rpc.req = quiet.rpc.req
    BY <2>3, MembershipMoves
  <2> HIDE DEF old
  <2>5. Formed(old)
    BY <2>4 DEF Same
  <2>6. Same(old, t) /\ Asks(old, t)
    <3>1. Same(old, Reconcile(old)) /\ Asks(old, Reconcile(old))
      BY <2>5, MembershipMoves
    <3> QED BY <1>4, <3>1 DEF old
  <2>7. /\ Formed(t) /\ t.connected = s.connected /\ t.acked = s.acked /\ t.recent = next
        /\ t.catchUp = left.catchUp
    BY <2>1, <2>2, <2>4, <2>6 DEF Same
  <2>8. Desired(t) = ToSet(next)
    BY <2>7 DEF Desired
  <2>9. Asks(s, t)
    BY <2>1, <2>2, <2>4, <2>6 DEF Asks
  <2>10. Complete(t) => Complete(s) /\ ~(was /\ ~is)
    BY <2>1, <2>7 DEF Complete
  <2> QED BY <2>7, <2>8, <2>9, <2>10 DEF Commits
<1>5. \/ ToSet(next) = Desired(s) /\ (t = StartCatchUp(same, None, FALSE) \/ t = same)
      \/ t = Reconcile(Outdate(quiet))
  BY Zenon DEF Commit
<1> HIDE DEF t, same, quiet, left, marked, was, is
<1> QED BY <1>3, <1>4, <1>5 DEF t

LEMMA PublishMoves ==
  ASSUME NEW s, Formed(s)
  PROVE  Commits(s, Publish(s))
<1>1. Commits(s, s)
  BY DEF Commits, Asks
<1>2. \A next : Commits(s, Commit(s, next, FALSE))
  BY CommitMoves
<1> QED BY <1>1, <1>2 DEF Publish

\* The links hold on when coverage does not begin with the step.
LEMMA LinkedStays ==
  ASSUME NEW s, NEW g, NEW t, NEW h, Linked(s, g), Formed(t), t.connected = s.connected,
         t.acked = s.acked, Asks(s, t), Sure(t, h) => Sure(s, g), Done(t, h) => Done(s, g),
         Complete(t) => Complete(s) /\ (Watched \in Desired(s) => Watched \in Desired(t))
  PROVE  Linked(t, h)
<1>1. ~t.connected => t.acked = {} /\ t.rpc.at \notin {"sent", "answered"}
  BY DEF Linked, Asks, Fresh
<1>2. Sure(t, h) /\ t.rpc.at \in {"sent", "answered"} => Watched \in t.rpc.req
  BY DEF Linked, Asks, Fresh, Covered, Sure, Sure
<1>3. Done(t, h) => Sure(t, h)
  BY DEF Linked, Covered, Sure, Sure, Done
<1>4. Complete(t) => Watched \in Desired(t)
  BY DEF Linked
<1> QED BY <1>1, <1>2, <1>3, <1>4 DEF Linked

-----------------------------------------------------------------------------

Acks == {i \in DOMAIN down : down[i].kind = "ack"}
Answers == {i \in DOMAIN down : down[i].kind = "page"}

\* Every row the daemon has past this one comes after the i-th message under way.
Comes(i, e, n) ==
  \A k \in 1..log.max :
    e # log.epoch \/ k > n =>
      \E j \in DOMAIN down : i < j /\ down[j] = Row(log.epoch, k)
Followed(i) == Comes(i, down[i].epoch, down[i].max)

\* The daemon sends the rows of what it answered with and of what is covered.
Subscribed ==
  /\ sync.rpc.at = "answered" => subs = sync.rpc.req
  /\ Sure(sync, returned) => Watched \in subs
OneAck ==
  /\ Acks # {} => sync.rpc.at = "answered"
  /\ \A i, j \in Acks : i = j

\* An epoch that follows one with rows or answers under way has rows.
Lively == \A i \in Stamped : down[i].epoch # log.epoch => log.max > 0

\* Under coverage, and behind the answer that will cover it, what a page of Watched
\* does not have comes after it.
RowsFollow ==
  /\ Sure(sync, returned) => \A i \in Answers : Followed(i)
  /\ sync.rpc.at = "answered" /\ Watched \in sync.rpc.req =>
       \A i \in Acks, j \in Answers : i < j => Followed(j)

\* After a complete catch-up, what the screen does not have is under way.
Caught ==
  Done(sync, returned) /\ ~view.newer =>
    /\ view.synced
    /\ Comes(0, view.range.epoch, view.range.end)
    /\ view.range # NoRange /\ view.range.epoch # log.epoch => log.max > 0

RInv == Linked(sync, returned) /\ Subscribed /\ OneAck /\ Lively /\ RowsFollow /\ Caught

\* What comes still comes when a message is handled or lost, unless it was that one.
LEMMA ComesMoves ==
  ASSUME log' = log, NEW f, NEW k, Places(f, down', down, k), NEW a, NEW i,
         \A l \in DOMAIN down' : a < f[l] => i < l,
         NEW e, NEW n, Comes(a, e, n),
         \A p \in 1..log.max :
           (e # log.epoch \/ p > n) /\ k \in DOMAIN down /\ a < k =>
             down[k] # Row(log.epoch, p)
  PROVE  Comes(i, e, n)'
<1>1. ASSUME NEW p \in 1..log.max, e # log.epoch \/ p > n
      PROVE  \E l \in DOMAIN down' : i < l /\ down'[l] = Row(log.epoch, p)
  <2>1. PICK j \in DOMAIN down : a < j /\ down[j] = Row(log.epoch, p)
    BY <1>1 DEF Comes
  <2>2. j # k
    BY <1>1, <2>1
  <2>3. PICK l \in DOMAIN down' : f[l] = j
    BY <2>1, <2>2 DEF Places
  <2>4. down'[l] = down[j]
    BY <2>3 DEF Places
  <2> QED BY <2>1, <2>3, <2>4
<1> QED BY <1>1 DEF Comes

\* What comes still comes, and new rows too, when the daemon sends them.
LEMMA ComesGrows ==
  ASSUME down \in Seq(Messages), NEW sent \in Seq(Messages), down' = down \o sent,
         log.epoch \in Nat, log.max \in Nat, log'.epoch \in Nat, log'.max \in Nat,
         \A p \in 1..log'.max :
           \/ log'.epoch = log.epoch /\ p <= log.max
           \/ \E j \in DOMAIN sent : sent[j] = Row(log'.epoch, p),
         NEW i \in 0..Len(down), NEW e, NEW n, Comes(i, e, n)
  PROVE  Comes(i, e, n)'
<1>1. /\ Len(down) \in Nat /\ Len(sent) \in Nat /\ DOMAIN down = 1..Len(down)
      /\ DOMAIN sent = 1..Len(sent) /\ DOMAIN down' = 1..(Len(down) + Len(sent))
      /\ \A j \in 1..Len(down) : down'[j] = down[j]
      /\ \A j \in 1..Len(sent) : down'[Len(down) + j] = sent[j]
  <2>1. down' \in Seq(Messages) /\ Len(down') = Len(down) + Len(sent)
    BY ConcatProperties
  <2> QED BY <2>1, ConcatProperties, LenProperties
<1>2. ASSUME NEW p \in 1..log'.max, e # log'.epoch \/ p > n
      PROVE  \E l \in DOMAIN down' : i < l /\ down'[l] = Row(log'.epoch, p)
  <2>1. CASE log'.epoch = log.epoch /\ p <= log.max
    <3>1. p \in 1..log.max /\ (e # log.epoch \/ p > n)
      BY <1>2, <2>1
    <3>2. PICK j \in DOMAIN down : i < j /\ down[j] = Row(log.epoch, p)
      BY <3>1 DEF Comes
    <3>3. j \in DOMAIN down' /\ down'[j] = down[j]
      BY <1>1, <3>2
    <3> QED BY <2>1, <3>2, <3>3
  <2>2. CASE \E j \in DOMAIN sent : sent[j] = Row(log'.epoch, p)
    <3>1. PICK j \in DOMAIN sent : sent[j] = Row(log'.epoch, p)
      BY <2>2
    <3>2. /\ Len(down) + j \in DOMAIN down' /\ i < Len(down) + j
          /\ down'[Len(down) + j] = sent[j]
      BY <1>1, <3>1
    <3> QED BY <3>1, <3>2
  <2> QED BY <2>1, <2>2
<1> QED BY <1>2 DEF Comes

-----------------------------------------------------------------------------

\* Steps of the synchroniser alone: a request under way is kept, and coverage and a
\* complete catch-up only end.
LEMMA RSyncMoves ==
  ASSUME RInv, Linked(sync', returned'), Asks(sync, sync'),
         Sure(sync', returned') => Sure(sync, returned),
         Done(sync', returned') => Done(sync, returned),
         UNCHANGED <<view, log, subs, down>>
  PROVE  RInv'
<1>1. sync'.rpc.at = "answered" => sync.rpc.at = "answered" /\ sync'.rpc.req = sync.rpc.req
  BY DEF Asks, Fresh
<1>2. sync.rpc.at = "answered" => sync'.rpc.at = "answered"
  BY DEF Asks
<1>3. \A i, e, n : Comes(i, e, n)' <=> Comes(i, e, n)
  BY DEF Comes
<1>4. Acks' = Acks /\ Answers' = Answers /\ Stamped' = Stamped
  BY DEF Acks, Answers, Stamped
<1>5. \A i : Followed(i)' <=> Followed(i)
  BY DEF Followed, Comes
<1>6. Linked(sync, returned)' /\ Subscribed' /\ OneAck' /\ Lively'
  BY <1>1, <1>2, <1>4 DEF RInv, Subscribed, OneAck, Lively
<1>7. RowsFollow'
  BY <1>1, <1>4, <1>5 DEF RInv, RowsFollow
<1>8. Caught'
  BY <1>3 DEF RInv, Caught
<1> QED BY <1>6, <1>7, <1>8 DEF RInv

\* Opening or closing a pane, or the app: coverage begins with it only for a membership
\* that comes back, and one that came back is let go only without coverage.
LEMMA RPublishes ==
  ASSUME RInv, NEW s, Same(sync, s), s.rpc = sync.rpc, Moves(Publish(s))
  PROVE  RInv'
<1>1. /\ sync' = Publish(s) /\ UNCHANGED <<view, log, subs, down>>
      /\ returned' = (Watched \in Desired(sync') /\ (returned \/ ComesBack(sync, sync')))
  BY DEF Moves
<1>2. Commits(s, sync')
  BY <1>1, PublishMoves DEF Same
<1>3. Desired(s) = Desired(sync)
  BY DEF Same, Desired
<1>4. /\ Formed(sync') /\ sync'.connected = sync.connected /\ sync'.acked = sync.acked
      /\ Complete(sync') =>
           Complete(sync) /\ (Watched \in Desired(sync) => Watched \in Desired(sync'))
  BY <1>2, <1>3 DEF Commits, Same, Complete
<1>5. Asks(sync, sync')
  BY <1>2 DEF Commits, Asks
<1>6. Watched \in Desired(sync') /\ ~returned' => ~returned /\ ~ComesBack(sync, sync')
  BY <1>1
<1>7. Sure(sync', returned') => Sure(sync, returned)
  <2>1. ASSUME Sure(sync', returned'), Watched \notin Desired(sync) PROVE FALSE
    <3>1. Watched \in (Desired(sync') \ Desired(sync)) \cap sync.acked
      BY <1>4, <2>1 DEF Covered, Sure
    <3>2. Desired(sync') # Desired(sync)
      BY <3>1
    <3>3. ComesBack(sync, sync')
      BY <3>1, <3>2 DEF ComesBack
    <3> QED BY <1>6, <2>1, <3>1, <3>3 DEF Sure
  <2> QED BY <2>1, <1>4, <1>6 DEF Covered, Sure
<1>8. Done(sync', returned') => Done(sync, returned)
  <2>1. Complete(sync') => Complete(sync) /\ Watched \in Desired(sync')
    BY <1>4 DEF RInv, Linked
  <2> QED BY <1>6, <2>1 DEF Done
<1>9. Linked(sync', returned')
  BY <1>4, <1>5, <1>7, <1>8, LinkedStays DEF RInv
<1> QED BY <1>1, <1>5, <1>7, <1>8, <1>9, RSyncMoves

LEMMA ViewCounts ==
  ASSUME RInv, NEW v \in SUBSET Agents, View(v)
  PROVE  RInv'
<1> DEFINE s == [sync EXCEPT !.visible = v]
<1>1. Same(sync, s) /\ s.rpc = sync.rpc
  BY DEF RInv, Linked, Same, Formed, Fields
<1>2. Moves(Publish(s))
  BY DEF View
<1> HIDE DEF s
<1> QED BY <1>1, <1>2, RPublishes

LEMMA SetActiveCounts ==
  ASSUME RInv, SetActive
  PROVE  RInv'
<1> DEFINE s == [sync EXCEPT !.active = ~@]
<1>1. Same(sync, s) /\ s.rpc = sync.rpc
  BY DEF RInv, Linked, Same, Formed, Fields
<1>2. Moves(Publish(s))
  BY DEF SetActive
<1> HIDE DEF s
<1> QED BY <1>1, <1>2, RPublishes

LEMMA ConnectCounts ==
  ASSUME RInv, Connect
  PROVE  RInv'
<1> DEFINE on == [sync EXCEPT !.connected = TRUE]
           old == Outdate(on)
<1>1. /\ Formed(on) /\ on.recent = sync.recent /\ on.acked = sync.acked
      /\ on.rpc = sync.rpc /\ on.catchUp = sync.catchUp
  BY DEF RInv, Linked, Formed, Fields
<1> HIDE DEF on
<1>2. Same(on, old) /\ old.rpc.at = on.rpc.at /\ old.rpc.req = on.rpc.req
  BY <1>1, MembershipMoves
<1>3. sync' = Reconcile(old) /\ UNCHANGED <<view, log, subs, down, returned>> /\ ~sync.connected
  BY DEF Connect, on
<1> HIDE DEF old
<1>4. Formed(old)
  BY <1>2 DEF Same
<1>5. Same(old, sync') /\ Asks(old, sync')
  BY <1>3, <1>4, MembershipMoves
<1>6. /\ Formed(sync') /\ sync'.recent = sync.recent /\ sync'.acked = sync.acked
      /\ sync'.catchUp = sync.catchUp
  BY <1>1, <1>2, <1>5 DEF Same
<1>7. Asks(sync, sync')
  BY <1>1, <1>2, <1>5 DEF Asks
<1>8. /\ ~Sure(sync, returned) /\ ~Sure(sync', returned')
      /\ ~Done(sync, returned) /\ ~Done(sync', returned')
      /\ Complete(sync') => Watched \in Desired(sync')
  BY <1>3, <1>6 DEF RInv, Linked, Covered, Sure, Complete, Done, Desired
<1>9. sync'.rpc.at # "answered" /\ (~sync'.connected => sync'.acked = {})
  BY <1>3, <1>6, <1>7 DEF RInv, Linked, Asks, Fresh
<1>10. ~sync'.connected => sync'.rpc.at \notin {"sent", "answered"}
  <2>1. sync'.connected
    BY <1>1, <1>2, <1>5 DEF Same, on, RInv, Linked, Formed, Fields
  <2> QED BY <2>1
<1>11. Linked(sync', returned')
  BY <1>6, <1>8, <1>9, <1>10 DEF Linked
<1> QED BY <1>3, <1>7, <1>8, <1>11, RSyncMoves

LEMMA RetryCounts ==
  ASSUME RInv, RetryMembership \/ RetryCatchUp
  PROVE  RInv'
<1>1. CASE RetryMembership
  <2> DEFINE s == [sync EXCEPT !.retry = FALSE]
  <2>1. Same(sync, s) /\ s.rpc = sync.rpc
    BY DEF RInv, Linked, Same, Formed, Fields
  <2>2. sync' = Reconcile(s) /\ UNCHANGED <<view, log, subs, down, returned>>
    BY <1>1 DEF RetryMembership
  <2> HIDE DEF s
  <2>3. Formed(s)
    BY <2>1 DEF Same
  <2>4. Same(s, sync') /\ Asks(s, sync')
    BY <2>2, <2>3, MembershipMoves
  <2>5. Same(sync, sync') /\ Asks(sync, sync')
    BY <2>1, <2>4 DEF Same, Asks
  <2>6. /\ Sure(sync', returned') <=> Sure(sync, returned)
        /\ Done(sync', returned') <=> Done(sync, returned)
        /\ Complete(sync') <=> Complete(sync)
        /\ Desired(sync') = Desired(sync)
    BY <2>2, <2>5 DEF Same, Covered, Sure, Desired, Complete, Done
  <2>7. Linked(sync', returned')
    BY <2>5, <2>6, LinkedStays DEF RInv, Same
  <2> QED BY <2>2, <2>5, <2>6, <2>7, RSyncMoves
<1>2. CASE RetryCatchUp
  <2>1. sync' = StartCatchUp(sync, None, FALSE) /\ UNCHANGED <<view, log, subs, down, returned>>
    BY <1>2 DEF RetryCatchUp
  <2>2. Starts(sync, sync')
    BY <2>1, StartCatchUpMoves DEF RInv, Linked
  <2>3. /\ Sure(sync', returned') <=> Sure(sync, returned)
        /\ Done(sync', returned') => Done(sync, returned)
        /\ Desired(sync') = Desired(sync)
        /\ Asks(sync, sync')
    BY <2>1, <2>2 DEF Starts, Covered, Sure, Done, Desired, Asks
  <2>4. Linked(sync', returned')
    BY <2>2, <2>3, LinkedStays DEF RInv, Starts
  <2> QED BY <2>1, <2>3, <2>4, RSyncMoves
<1> QED BY <1>1, <1>2

\* A lost connection leaves nothing under way, covered or complete.
LEMMA DisconnectCounts ==
  ASSUME IInv, RInv, Disconnect
  PROVE  RInv'
<1> DEFINE shown == IF sync.active THEN SetToSeq(sync.visible) ELSE <<>>
           rpc == [sync.rpc EXCEPT !.at = IF @ = "none" THEN @ ELSE "lost"]
           lost == [sync EXCEPT !.connected = FALSE, !.asked = <<>>,
                                !.rpc.at = IF @ = "none" THEN @ ELSE "lost"]
           was == Commit(lost, shown, TRUE)
           quiet == [was EXCEPT !.retry = FALSE, !.acked = {}]
           left == Outdate(quiet)
<1>1. /\ sync' = IF Watched \in Desired(left) THEN CancelCatchUp(left) ELSE left
      /\ down' = <<>>
  BY Zenon DEF Disconnect
<1>2. DOMAIN rpc = DOMAIN sync.rpc /\ rpc.at \in {"none", "lost"}
  BY DEF RInv, Linked, Formed
<1>3. /\ Formed(lost) /\ lost.connected = FALSE /\ lost.recent = sync.recent
      /\ lost.rpc = rpc /\ lost.catchUp = sync.catchUp
  <2>1. lost = [sync EXCEPT !.connected = FALSE, !.asked = <<>>, !.rpc = rpc]
    BY Zenon
  <2> HIDE DEF rpc, lost
  <2> QED BY <1>2, <2>1 DEF RInv, Linked, Formed, Fields
<1> HIDE DEF rpc, shown
<1> HIDE DEF lost
<1>4. Commits(lost, was)
  BY <1>3, CommitMoves
<1> HIDE DEF was
<1>5. /\ Formed(quiet) /\ quiet.connected = FALSE /\ quiet.recent = was.recent
      /\ quiet.acked = {} /\ quiet.rpc = was.rpc /\ quiet.catchUp = was.catchUp
  BY <1>3, <1>4 DEF Commits, Formed, Fields
<1> HIDE DEF quiet
<1>6. Same(quiet, left) /\ left.rpc.at = quiet.rpc.at
  BY <1>5, MembershipMoves
<1> HIDE DEF left
<1>7. was.rpc.at \notin {"sent", "answered"}
  BY <1>2, <1>3, <1>4 DEF Commits, Asks, Fresh
<1>8. /\ Formed(left) /\ left.connected = FALSE /\ left.acked = {}
      /\ left.rpc.at \notin {"sent", "answered"}
  BY <1>5, <1>6, <1>7 DEF Same
<1>9. Starts(left, CancelCatchUp(left)) /\ ~Complete(CancelCatchUp(left))
  BY <1>8, CatchUpMoves
<1>10. ASSUME Watched \notin Desired(left) PROVE ~Complete(left)
  <2>1. Desired(left) = Desired(was) /\ Desired(lost) = Desired(sync)
    BY <1>3, <1>5, <1>6 DEF Same, Desired
  <2>2. Complete(left) => Complete(sync) /\ Watched \notin Desired(sync)
    BY <1>3, <1>4, <1>5, <1>6, <1>10, <2>1 DEF Commits, Same, Complete, Done
  <2> QED BY <2>2 DEF RInv, Linked, Covered, Sure
<1>11. /\ Formed(sync') /\ sync'.connected = FALSE /\ sync'.acked = {}
       /\ sync'.rpc.at \notin {"sent", "answered"} /\ ~Complete(sync') /\ ~Done(sync', returned')
  BY <1>1, <1>8, <1>9, <1>10 DEF Starts, Done
<1>12. ~Sure(sync', returned')
  BY <1>11 DEF Covered, Sure
<1>13. Linked(sync', returned')
  BY <1>11, <1>12 DEF Linked
<1>14. DOMAIN down' = {}
  BY <1>1, EmptySeq
<1>15. Acks' = {} /\ Answers' = {} /\ Stamped' = {}
  BY <1>14 DEF Acks, Answers, Stamped
<1>16. Subscribed' /\ OneAck' /\ Lively'
  BY <1>11, <1>12, <1>15 DEF Subscribed, OneAck, Lively
<1>17. RowsFollow' /\ Caught'
  BY <1>11, <1>12 DEF RowsFollow, Caught
<1> QED BY <1>13, <1>16, <1>17 DEF RInv

-----------------------------------------------------------------------------

\* Steps of the daemon: coverage, the answer under way and the catch-up are the same,
\* and while the daemon sends rows of Watched it sends each new one.
LEMMA RSendMoves ==
  ASSUME IInv, RInv, view' = view, LogOK', NEW sent \in Seq(Messages), down' = down \o sent,
         Linked(sync', returned'), Subscribed',
         Sure(sync', returned') <=> Sure(sync, returned),
         Done(sync', returned') <=> Done(sync, returned),
         log' = log \/ log'.max > 0,
         Watched \in subs =>
           \A p \in 1..log'.max :
             \/ log'.epoch = log.epoch /\ p <= log.max
             \/ \E j \in DOMAIN sent : sent[j] = Row(log'.epoch, p),
         \A j \in DOMAIN sent : sent[j].kind # "ack" => sent[j].epoch = log'.epoch,
         \A j \in DOMAIN sent : sent[j].kind = "page" => sent[j].max = log'.max,
         \/ sync' = sync /\ \A j \in DOMAIN sent : sent[j].kind # "ack"
         \/ /\ sync.rpc.at # "answered" /\ sync'.rpc.at = "answered"
            /\ DOMAIN sent = {1} /\ sent[1].kind = "ack"
  PROVE  RInv'
<1>1. /\ Len(down) \in Nat /\ Len(sent) \in Nat /\ DOMAIN down = 1..Len(down)
      /\ DOMAIN sent = 1..Len(sent) /\ DOMAIN down' = 1..(Len(down) + Len(sent))
      /\ \A j \in 1..Len(down) : down'[j] = down[j]
      /\ \A j \in 1..Len(sent) : down'[Len(down) + j] = sent[j]
      /\ down \in Seq(Messages)
  <2>1. down \in Seq(Messages)
    BY DEF IInv
  <2>2. down' \in Seq(Messages) /\ Len(down') = Len(down) + Len(sent)
    BY <2>1, ConcatProperties
  <2> QED BY <2>1, <2>2, ConcatProperties, LenProperties
<1>2. ASSUME NEW i \in DOMAIN down'
      PROVE  \/ i \in DOMAIN down /\ down'[i] = down[i] /\ i <= Len(down)
             \/ i - Len(down) \in DOMAIN sent /\ down'[i] = sent[i - Len(down)] /\ i > Len(down)
  <2>1. CASE i <= Len(down)
    BY <1>1, <2>1
  <2>2. CASE i > Len(down)
    <3>1. i - Len(down) \in 1..Len(sent) /\ Len(down) + (i - Len(down)) = i
      BY <1>1, <2>2
    <3>2. down'[Len(down) + (i - Len(down))] = sent[i - Len(down)]
      BY <1>1, <3>1
    <3> QED BY <1>1, <2>2, <3>1, <3>2
  <2> QED BY <1>1, <2>1, <2>2
<1>3. log.epoch \in Nat /\ log.max \in Nat /\ log'.epoch \in Nat /\ log'.max \in Nat
  BY DEF IInv, LogOK
<1>4. ASSUME Watched \in subs, NEW i \in 0..Len(down), NEW e, NEW n, Comes(i, e, n)
      PROVE  Comes(i, e, n)'
  BY <1>1, <1>3, <1>4, ComesGrows
<1>5. ASSUME Watched \in subs, NEW i \in DOMAIN down, Followed(i)
      PROVE  Followed(i)'
  <2>1. i \in 0..Len(down) /\ down'[i] = down[i]
    BY <1>1
  <2> DEFINE e == down[i].epoch
             n == down[i].max
  <2>2. Comes(i, e, n)
    BY <1>5 DEF Followed
  <2> HIDE DEF e, n
  <2>3. PICK f, k : f = e /\ k = n
    OBVIOUS
  <2>4. Comes(i, f, k)'
    BY <1>4, <1>5, <2>1, <2>2, <2>3
  <2>5. down'[i].epoch = f /\ down'[i].max = k
    BY <2>1, <2>3 DEF e, n
  <2> QED BY <2>4, <2>5 DEF Followed
<1>6. ASSUME NEW i \in DOMAIN down', i > Len(down), down'[i].kind = "page"
      PROVE  Followed(i)'
  <2>1. down'[i] = sent[i - Len(down)] /\ i - Len(down) \in DOMAIN sent
    BY <1>1, <1>2, <1>6
  <2>2. down'[i].epoch = log'.epoch /\ down'[i].max = log'.max
    BY <1>6, <2>1
  <2>3. \A k \in 1..log'.max : ~(down'[i].epoch # log'.epoch \/ k > down'[i].max)
    BY <1>3, <2>2
  <2> QED BY <2>3 DEF Followed, Comes
<1>7. Lively'
  <2>1. ASSUME NEW i \in Stamped', down'[i].epoch # log'.epoch PROVE log'.max > 0
    <3>1. i \in DOMAIN down' /\ down'[i].kind # "ack"
      BY DEF Stamped
    <3>2. i \in Stamped /\ down'[i] = down[i]
      BY <1>2, <2>1, <3>1 DEF Stamped
    <3>3. CASE log' = log
      BY <2>1, <3>2, <3>3 DEF RInv, Lively
    <3> QED BY <3>3
  <2> QED BY <2>1 DEF Lively
<1>8. ASSUME Sure(sync', returned') PROVE \A i \in Answers' : Followed(i)'
  <2>1. Sure(sync, returned) /\ Watched \in subs
    BY <1>8 DEF RInv, Subscribed
  <2>2. ASSUME NEW i \in Answers' PROVE Followed(i)'
    <3>1. i \in DOMAIN down' /\ down'[i].kind = "page"
      BY DEF Answers
    <3>2. CASE i \in DOMAIN down /\ down'[i] = down[i]
      <4>1. i \in Answers
        BY <3>1, <3>2 DEF Answers
      <4> QED BY <1>5, <2>1, <3>2, <4>1 DEF RInv, RowsFollow
    <3> QED BY <1>2, <1>6, <3>1, <3>2
  <2> QED BY <2>2
<1>9. ASSUME sync'.rpc.at = "answered", Watched \in sync'.rpc.req,
             NEW i \in Acks', NEW j \in Answers', i < j
      PROVE  Followed(j)'
  <2>1. /\ i \in DOMAIN down' /\ down'[i].kind = "ack"
        /\ j \in DOMAIN down' /\ down'[j].kind = "page"
    BY DEF Acks, Answers
  <2>2. CASE sync' = sync /\ \A l \in DOMAIN sent : sent[l].kind # "ack"
    <3>1. i \in Acks
      BY <1>2, <2>1, <2>2 DEF Acks
    <3>2. Watched \in subs
      BY <1>9, <2>2 DEF RInv, Subscribed
    <3>3. CASE j \in DOMAIN down /\ down'[j] = down[j]
      <4>1. j \in Answers
        BY <2>1, <3>3 DEF Answers
      <4>2. Followed(j)
        BY <1>9, <2>2, <3>1, <4>1 DEF RInv, RowsFollow
      <4> QED BY <1>5, <3>2, <3>3, <4>2
    <3> QED BY <1>2, <1>6, <2>1, <3>3
  <2>3. CASE sync.rpc.at # "answered" /\ DOMAIN sent = {1} /\ sent[1].kind = "ack"
    <3>1. Acks = {}
      BY <2>3 DEF RInv, OneAck
    <3>2. i > Len(down)
      BY <1>2, <2>1, <3>1 DEF Acks
    <3>3. j <= Len(down)
      BY <1>2, <2>1, <2>3
    <3> QED BY <1>1, <1>9, <2>1, <3>2, <3>3
  <2> QED BY <2>2, <2>3
<1>10. RowsFollow'
  BY <1>8, <1>9 DEF RowsFollow
<1>11. Caught'
  <2>1. ASSUME Done(sync', returned'), ~view'.newer
        PROVE  /\ view'.synced
               /\ Comes(0, view.range.epoch, view.range.end)'
               /\ view'.range # NoRange /\ view'.range.epoch # log'.epoch => log'.max > 0
    <3>1. Done(sync, returned) /\ ~view.newer /\ Watched \in subs
      BY <2>1 DEF RInv, Linked, Subscribed
    <3>2. /\ view.synced /\ Comes(0, view.range.epoch, view.range.end)
          /\ view.range # NoRange /\ view.range.epoch # log.epoch => log.max > 0
      BY <3>1 DEF RInv, Caught
    <3>3. Comes(0, view.range.epoch, view.range.end)'
      <4>1. PICK e, n : e = view.range.epoch /\ n = view.range.end
        OBVIOUS
      <4>2. Comes(0, e, n)'
        BY <1>1, <1>4, <3>1, <3>2, <4>1
      <4> QED BY <4>1, <4>2
    <3>4. CASE log' = log
      BY <3>2, <3>3, <3>4
    <3> QED BY <3>2, <3>3, <3>4
  <2> QED BY <2>1 DEF Caught
<1>12. OneAck'
  <2>1. CASE sync' = sync /\ \A l \in DOMAIN sent : sent[l].kind # "ack"
    <3>1. Acks' \subseteq Acks
      BY <1>2, <2>1 DEF Acks
    <3> QED BY <2>1, <3>1 DEF RInv, OneAck
  <2>2. CASE /\ sync.rpc.at # "answered" /\ sync'.rpc.at = "answered"
             /\ DOMAIN sent = {1} /\ sent[1].kind = "ack"
    <3>1. Acks = {}
      BY <2>2 DEF RInv, OneAck
    <3>2. ASSUME NEW i \in Acks' PROVE i = Len(down) + 1
      <4>1. i \in DOMAIN down' /\ down'[i].kind = "ack"
        BY DEF Acks
      <4>2. i - Len(down) \in DOMAIN sent
        BY <1>2, <3>1, <4>1 DEF Acks
      <4> QED BY <1>1, <2>2, <4>1, <4>2
    <3> QED BY <2>2, <3>2 DEF OneAck
  <2> QED BY <2>1, <2>2
<1> QED BY <1>7, <1>10, <1>11, <1>12 DEF RInv

LEMMA DaemonCounts ==
  ASSUME IInv, IInv', RInv, Append_ \/ Rewind
  PROVE  RInv'
<1>1. log.epoch \in Nat /\ log.max \in Nat /\ down \in Seq(Messages) /\ LogOK'
  BY DEF IInv, LogOK
<1>2. ASSUME NEW rows \in Seq(RowsSent), Send(rows), UNCHANGED <<sync, view, subs, returned>>,
             log'.max > 0,
             \A j \in DOMAIN rows : rows[j].epoch = log'.epoch,
             \A p \in 1..log'.max :
               \/ log'.epoch = log.epoch /\ p <= log.max
               \/ \E j \in DOMAIN rows : rows[j] = Row(log'.epoch, p)
      PROVE  RInv'
  <2>1. Linked(sync', returned') /\ Subscribed'
    BY <1>2 DEF RInv, Subscribed
  <2>2. CASE Watched \in subs
    <3>1. down' = down \o rows
      BY <1>2, <2>2 DEF Send
    <3>2. rows \in Seq(Messages)
      BY <1>2, ElementOfSeq, LenProperties DEF Messages
    <3>3. ASSUME NEW j \in DOMAIN rows PROVE rows[j].kind = "row"
      <4>1. rows[j] \in RowsSent
        BY <1>2, ElementOfSeq, LenProperties
      <4> QED BY <4>1 DEF RowsSent, Row
    <3> QED BY <1>1, <1>2, <2>1, <3>1, <3>2, <3>3, RSendMoves
  <2>3. CASE Watched \notin subs
    <3> DEFINE sent == << >>
    <3>1. sent \in Seq(Messages) /\ down' = down \o sent /\ DOMAIN sent = {}
      BY <1>1, <1>2, <2>3, ConcatEmptySeq, EmptySeq DEF Send
    <3> HIDE DEF sent
    <3> QED BY <1>1, <1>2, <2>1, <2>3, <3>1, RSendMoves
  <2> QED BY <2>2, <2>3
<1>3. CASE Append_
  <2> DEFINE row == Row(log.epoch, log.max + 1)
             rows == <<row>>
  <2>1. row \in RowsSent /\ row.epoch = log.epoch
    BY <1>1 DEF RowsSent, Row
  <2>2. log' = [log EXCEPT !.max = @ + 1] /\ Send(rows) /\ UNCHANGED <<sync, view, subs, returned>>
    BY <1>3 DEF Append_
  <2>3. log'.epoch = log.epoch /\ log'.max = log.max + 1
    BY <2>2 DEF IInv, LogOK
  <2>4. ASSUME NEW p \in 1..log'.max, p > log.max PROVE row = Row(log'.epoch, p)
    <3>1. p = log.max + 1
      BY <1>1, <2>3, <2>4
    <3> QED BY <2>3, <3>1
  <2> HIDE DEF row
  <2>5. rows \in Seq(RowsSent) /\ DOMAIN rows = {1} /\ rows[1] = row
    BY <2>1
  <2> HIDE DEF rows
  <2>6. \A p \in 1..log'.max :
          \/ log'.epoch = log.epoch /\ p <= log.max
          \/ \E j \in DOMAIN rows : rows[j] = Row(log'.epoch, p)
    BY <1>1, <2>3, <2>4, <2>5
  <2>7. log'.max > 0
    BY <1>1, <2>3
  <2> QED BY <1>2, <2>1, <2>2, <2>3, <2>5, <2>6, <2>7
<1>4. CASE Rewind
  <2>1. PICK n \in 1..log.max :
          /\ log' = [epoch |-> log.epoch + 1, max |-> n]
          /\ Send([i \in 1..n |-> Row(log.epoch + 1, i)])
    BY <1>4 DEF Rewind
  <2> DEFINE rows == [i \in 1..n |-> Row(log.epoch + 1, i)]
  <2>2. n \in Nat /\ n > 0 /\ log'.epoch = log.epoch + 1 /\ log'.max = n
    BY <1>1, <2>1
  <2>3. \A i \in 1..n : rows[i] = Row(log'.epoch, i)
    BY <2>2
  <2>4. ASSUME NEW i \in 1..n PROVE rows[i] \in RowsSent /\ rows[i].epoch = log'.epoch
    <3>1. log'.epoch \in Nat /\ i \in Nat \ {0}
      BY <1>1, <2>2
    <3>2. Row(log'.epoch, i) \in RowsSent
      BY <3>1 DEF RowsSent
    <3> HIDE DEF rows
    <3> QED BY <2>3, <3>2 DEF Row
  <2>5. rows \in Seq(RowsSent) /\ DOMAIN rows = 1..n
    BY <2>2, <2>4
  <2>6. Send(rows) /\ UNCHANGED <<sync, view, subs, returned>>
    BY <1>4, <2>1 DEF Rewind
  <2> HIDE DEF rows
  <2> QED BY <1>2, <2>2, <2>3, <2>4, <2>5, <2>6
<1> QED BY <1>3, <1>4

LEMMA SubscribeCounts ==
  ASSUME IInv, IInv', RInv, Subscribe
  PROVE  RInv'
<1> DEFINE sent == <<Ack>>
           rpc == [sync.rpc EXCEPT !.at = "answered"]
<1>1. sent \in Seq(Messages) /\ DOMAIN sent = {1} /\ sent[1].kind = "ack"
  BY DEF Messages, Ack
<1>2. /\ down' = down \o sent /\ UNCHANGED <<log, view, returned>> /\ subs' = sync.rpc.req
      /\ sync.rpc.at = "sent"
  BY AppendIsConcat DEF Subscribe, IInv
<1>3. DOMAIN rpc = {"at", "req", "stale"} /\ rpc.at = "answered" /\ rpc.req = sync.rpc.req
  BY DEF RInv, Linked, Formed
<1>4. sync' = [sync EXCEPT !.rpc = rpc]
  BY DEF Subscribe
<1> HIDE DEF sent, rpc
<1>5. Same(sync, sync') /\ sync'.rpc = rpc
  BY <1>3, <1>4 DEF RInv, Linked, Formed, Fields, Same
<1>6. /\ Sure(sync', returned') <=> Sure(sync, returned)
      /\ Done(sync', returned') <=> Done(sync, returned)
      /\ Complete(sync') => Watched \in Desired(sync')
  BY <1>2, <1>5 DEF RInv, Linked, Same, Covered, Sure, Desired, Complete, Done
<1>7. Sure(sync', returned') => Watched \in rpc.req
  BY <1>2, <1>3, <1>6 DEF RInv, Linked
<1>8. sync'.connected
  BY <1>2, <1>5 DEF RInv, Linked, Same
<1>9. Linked(sync', returned')
  BY <1>5, <1>6, <1>7, <1>8 DEF RInv, Linked, Same
<1>10. Subscribed'
  BY <1>2, <1>3, <1>5, <1>7 DEF Subscribed
<1>11. LogOK' /\ log.epoch \in Nat /\ log.max \in Nat
  BY DEF IInv, LogOK
<1>12. \A p \in 1..log'.max : log'.epoch = log.epoch /\ p <= log.max
  BY <1>2, <1>11
<1>13. sync.rpc.at # "answered" /\ sync'.rpc.at = "answered"
  BY <1>2, <1>3, <1>5
<1> QED BY <1>1, <1>2, <1>6, <1>9, <1>10, <1>11, <1>12, <1>13, RSendMoves

LEMMA AnswerCounts ==
  ASSUME IInv, IInv', RInv, Answer
  PROVE  RInv'
<1>1. PICK i \in DOMAIN sync.asked : down' = Append(down, Page(sync.asked[i]))
  BY DEF Answer
<1> DEFINE page == Page(sync.asked[i])
           sent == <<page>>
<1>2. sync.asked[i] \in Requests
  BY ElementOfSeq, LenProperties DEF IInv, Fit, Allowed
<1>3. page \in Pages /\ page.epoch = log.epoch /\ page.max = log.max
  BY <1>2, PageFacts DEF IInv
<1>4. down' = Append(down, page) /\ UNCHANGED <<sync, view, log, subs, returned>>
  BY <1>1 DEF Answer
<1> HIDE DEF page
<1>5. page \in Messages /\ page.kind = "page"
  BY <1>3 DEF Messages, Pages
<1>6. sent \in Seq(Messages) /\ DOMAIN sent = {1} /\ sent[1] = page
  BY <1>5
<1>7. down' = down \o sent
  BY <1>4, <1>5, AppendIsConcat DEF IInv
<1> HIDE DEF sent
<1>8. Linked(sync', returned') /\ Subscribed'
  BY <1>4 DEF RInv, Subscribed
<1>9. LogOK' /\ log.epoch \in Nat /\ log.max \in Nat
  BY DEF IInv, LogOK
<1>10. \A p \in 1..log'.max : log'.epoch = log.epoch /\ p <= log.max
  BY <1>4, <1>9
<1>11. \A j \in DOMAIN sent : /\ sent[j].kind = "page" /\ sent[j].epoch = log'.epoch
                              /\ sent[j].max = log'.max
  BY <1>3, <1>4, <1>5, <1>6
<1> QED BY <1>4, <1>6, <1>7, <1>8, <1>9, <1>10, <1>11, RSendMoves

-----------------------------------------------------------------------------

\* A page is still followed when a message before it, or that is no row, goes.
LEMMA FollowedMoves ==
  ASSUME down \in Seq(Messages), down' \in Seq(Messages), log' = log,
         NEW f, NEW k, Places(f, down', down, k),
         k = 1 \/ (k \in DOMAIN down => down[k].kind # "row"),
         NEW i \in DOMAIN down', Followed(f[i])
  PROVE  Followed(i)'
<1>1. /\ DOMAIN down \subseteq Nat \ {0} /\ DOMAIN down' \subseteq Nat \ {0}
      /\ \A l \in DOMAIN down' : f[l] \in DOMAIN down
      /\ \A l, m \in DOMAIN down' : l < m => f[l] < f[m]
      /\ down'[i] = down[f[i]]
  BY LenProperties DEF Places
<1>2. ASSUME NEW l \in DOMAIN down', f[i] < f[l] PROVE i < l
  <2>1. l < i => f[l] < f[i]
    BY <1>1
  <2>2. /\ l \in Nat /\ i \in Nat /\ f[l] \in Nat /\ f[i] \in Nat
        /\ l = i => f[l] = f[i]
    BY <1>1
  <2> QED BY <1>2, <2>1, <2>2
<1>3. \A p : k \in DOMAIN down /\ f[i] < k => down[k] # Row(log.epoch, p)
  <2>1. k = 1 => ~(f[i] < k)
    BY <1>1
  <2> QED BY <2>1 DEF Row
<1> PICK a, e, n : a = f[i] /\ e = down[f[i]].epoch /\ n = down[f[i]].max
  OBVIOUS
<1>4. Comes(a, e, n)
  BY DEF Followed
<1>5. Comes(i, e, n)'
  BY <1>2, <1>3, <1>4, ComesMoves
<1>6. down'[i].epoch = e /\ down'[i].max = n
  BY <1>1
<1> QED BY <1>5, <1>6 DEF Followed

\* Steps that handle or lose an answer without touching the screen.
LEMMA RLosesMoves ==
  ASSUME IInv, RInv, down' \in Seq(Messages), NEW f, NEW k, Places(f, down', down, k),
         k \in DOMAIN down => down[k].kind # "row", UNCHANGED <<view, log, subs>>,
         Linked(sync', returned'), OneAck',
         Sure(sync', returned') => Watched \in subs /\ \A i \in Answers : Followed(i),
         Done(sync', returned') => Done(sync, returned),
         sync'.rpc.at = "answered" =>
           sync.rpc.at = "answered" /\ sync'.rpc.req = sync.rpc.req
  PROVE  RInv'
<1>0. down \in Seq(Messages)
  BY DEF IInv
<1>1. /\ DOMAIN down \subseteq Nat \ {0} /\ DOMAIN down' \subseteq Nat \ {0}
      /\ \A l \in DOMAIN down' : f[l] \in DOMAIN down /\ down'[l] = down[f[l]]
      /\ \A l, m \in DOMAIN down' : l < m => f[l] < f[m]
  BY <1>0, LenProperties DEF Places
<1>2. ASSUME NEW i \in DOMAIN down', Followed(f[i]) PROVE Followed(i)'
  BY <1>0, <1>2, FollowedMoves
<1>3. Subscribed'
  BY DEF RInv, Subscribed
<1>4. Lively'
  BY <1>1 DEF RInv, Lively, Stamped
<1>5. RowsFollow'
  <2>1. ASSUME Sure(sync', returned'), NEW i \in Answers' PROVE Followed(i)'
    <3>1. i \in DOMAIN down' /\ f[i] \in Answers
      BY <1>1 DEF Answers
    <3> QED BY <1>2, <2>1, <3>1
  <2>2. ASSUME sync'.rpc.at = "answered", Watched \in sync'.rpc.req,
               NEW i \in Acks', NEW j \in Answers', i < j
        PROVE  Followed(j)'
    <3>1. /\ i \in DOMAIN down' /\ j \in DOMAIN down'
          /\ f[i] \in Acks /\ f[j] \in Answers /\ f[i] < f[j]
      BY <1>1, <2>2 DEF Acks, Answers
    <3>2. Followed(f[j])
      BY <2>2, <3>1 DEF RInv, RowsFollow
    <3> QED BY <1>2, <3>1, <3>2
  <2> QED BY <2>1, <2>2 DEF RowsFollow
<1>6. ASSUME NEW e, NEW n, Comes(0, e, n) PROVE Comes(0, e, n)'
  <2>1. \A p : k \in DOMAIN down => down[k] # Row(log.epoch, p)
    BY DEF Row
  <2>2. \A l \in DOMAIN down' : 0 < l
    BY <1>1
  <2> QED BY <1>6, <2>1, <2>2, ComesMoves
<1>7. Caught'
  <2>1. Done(sync', returned') /\ ~view'.newer => Done(sync, returned) /\ ~view.newer
    OBVIOUS
  <2> QED BY <1>6, <2>1 DEF RInv, Caught
<1> QED BY <1>3, <1>4, <1>5, <1>7 DEF RInv

LEMMA AcknowledgeCounts ==
  ASSUME IInv, IInv', RInv, Acknowledge
  PROVE  RInv'
<1> DEFINE acked == [sync EXCEPT !.acked = sync.rpc.req, !.retry = FALSE]
           s == IF sync.rpc.stale THEN acked ELSE StartAcknowledged(acked)
<1>1. /\ down # <<>> /\ Head(down).kind = "ack" /\ down' = Tail(down)
      /\ sync' = Resume(s) /\ UNCHANGED <<view, log, subs, returned>>
  BY DEF Acknowledge
<1>2. /\ down \in Seq(Messages) /\ DOMAIN down = 1..Len(down) /\ Len(down) \in Nat \ {0}
      /\ Head(down) = down[1]
  BY <1>1, HeadTailProperties, LenProperties, EmptySeq DEF IInv
<1>3. PICK f : Places(f, down', down, 1)
  BY <1>1, <1>2, TailFacts DEF Loses
<1>4. 1 \in Acks /\ sync.rpc.at = "answered" /\ subs = sync.rpc.req
  BY <1>1, <1>2 DEF Acks, RInv, OneAck, Subscribed
<1>5. Acks' = {}
  <2>1. ASSUME NEW i \in Acks' PROVE FALSE
    <3>1. f[i] \in Acks /\ f[i] # 1
      BY <1>3 DEF Acks, Places
    <3> QED BY <1>4, <3>1 DEF RInv, OneAck
  <2> QED BY <2>1
<1>6. OneAck'
  BY <1>5 DEF OneAck
<1>7. Formed(acked) /\ /\ acked.connected = sync.connected /\ acked.recent = sync.recent
      /\ acked.acked = sync.rpc.req /\ acked.catchUp = sync.catchUp
  BY DEF RInv, Linked, Formed, Fields
<1> HIDE DEF acked
<1>8. Starts(acked, s)
  BY <1>7, CatchUpMoves DEF Starts
<1> HIDE DEF s
<1>9. Same(s, sync') /\ Fresh(sync')
  BY <1>1, <1>8, MembershipMoves DEF Starts
<1>10. /\ Formed(sync') /\ sync'.connected = sync.connected /\ sync'.recent = sync.recent
       /\ sync'.acked = sync.rpc.req
       /\ Complete(sync') => Complete(sync)
       /\ Done(sync', returned') => Done(sync, returned)
  BY <1>1, <1>7, <1>8, <1>9 DEF Starts, Same, Complete, Done
<1>11. sync.connected
  BY <1>4 DEF RInv, Linked
<1>12. Sure(sync', returned') => Watched \in sync.rpc.req /\ Watched \in Desired(sync')
  BY <1>10 DEF Covered, Sure
<1>13. Done(sync', returned') => Sure(sync', returned')
  <2>1. Done(sync', returned') => Sure(sync, returned) /\ Watched \in sync.rpc.req
    BY <1>4, <1>10 DEF RInv, Linked
  <2>2. Desired(sync') = Desired(sync)
    BY <1>10 DEF Desired
  <2> QED BY <1>1, <1>10, <2>1, <2>2 DEF Covered, Sure
<1>14. Linked(sync', returned')
  BY <1>9, <1>10, <1>11, <1>12, <1>13 DEF RInv, Linked, Fresh, Desired
<1>15. ASSUME Sure(sync', returned') PROVE Watched \in subs /\ \A i \in Answers : Followed(i)
  <2>1. \A i \in Answers : 1 < i
    BY <1>1, <1>2 DEF Answers
  <2> QED BY <1>4, <1>12, <1>15, <2>1 DEF RInv, RowsFollow
<1>16. sync'.rpc.at # "answered"
  BY <1>9 DEF Fresh
<1>17. down' \in Seq(Messages)
  BY DEF IInv
<1>18. down[1].kind # "row"
  BY <1>1, <1>2
<1> QED BY <1>1, <1>3, <1>6, <1>10, <1>14, <1>15, <1>16, <1>17, <1>18, RLosesMoves

LEMMA SubscriptionFailsCounts ==
  ASSUME IInv, IInv', RInv, SubscriptionFails
  PROVE  RInv'
<1> DEFINE failed == [sync EXCEPT !.needsRetry = TRUE, !.rpc = NoRpc,
                                  !.retry = ~sync.rpc.stale,
                                  !.mark = IF Watched \in sync.rpc.req /\ @ = "pending"
                                           THEN "error" ELSE @]
<1>1. /\ sync' = Release(failed) /\ down' = RemoveFirst(down, Ack)
      /\ UNCHANGED <<view, log, subs, returned>>
  BY DEF SubscriptionFails
<1>2. Same(sync, failed) /\ failed.rpc.at = "none"
  BY DEF RInv, Linked, Formed, Fields, Same, NoRpc
<1> HIDE DEF failed
<1>3. Formed(failed) /\ Fresh(failed)
  BY <1>2 DEF Same, Fresh
<1>4. Same(failed, sync') /\ Fresh(sync')
  BY <1>1, <1>3, MembershipMoves
<1>5. Same(sync, sync')
  BY <1>2, <1>4 DEF Same
<1>6. /\ Sure(sync', returned') <=> Sure(sync, returned)
      /\ Done(sync', returned') <=> Done(sync, returned)
      /\ Complete(sync') => Watched \in Desired(sync')
  BY <1>1, <1>5 DEF RInv, Linked, Same, Covered, Sure, Desired, Complete, Done
<1>7. Linked(sync', returned')
  BY <1>4, <1>5, <1>6 DEF RInv, Linked, Same, Fresh, Covered, Sure
<1>8. /\ down \in Seq(Messages) /\ down' \in Seq(Messages) /\ DOMAIN down = 1..Len(down)
      /\ Len(down) \in Nat
  BY LenProperties DEF IInv
<1>9. PICK k \in 0..Len(down) :
        /\ Loses(down', down, k)
        /\ k = 0 => \A i \in 1..Len(down) : down[i] # Ack
        /\ k # 0 => down[k] = Ack
  BY <1>1, <1>8, RemoveFirstFacts
<1>10. PICK f : Places(f, down', down, k)
  BY <1>9 DEF Loses
<1>11. \A i \in Acks : down[i] = Ack
  <2>1. ASSUME NEW i \in Acks PROVE down[i] = Ack
    <3>1. down[i] \in Messages /\ down[i].kind = "ack"
      BY <1>8, ElementOfSeq DEF Acks
    <3> QED BY <3>1 DEF Messages, RowsSent, Row, Pages
  <2> QED BY <2>1
<1>12. Acks' = {}
  <2>1. ASSUME NEW i \in Acks' PROVE FALSE
    <3>1. f[i] \in Acks /\ f[i] # k
      BY <1>10 DEF Acks, Places
    <3>2. k # 0
      BY <1>8, <1>9, <1>11, <3>1 DEF Acks
    <3>3. k \in Acks
      BY <1>8, <1>9, <3>2 DEF Acks, Ack
    <3> QED BY <3>1, <3>3 DEF RInv, OneAck
  <2> QED BY <2>1
<1>13. OneAck'
  BY <1>12 DEF OneAck
<1>14. k \in DOMAIN down => down[k].kind # "row"
  BY <1>8, <1>9 DEF Ack
<1>15. Sure(sync', returned') => Watched \in subs /\ \A i \in Answers : Followed(i)
  BY <1>6 DEF RInv, Subscribed, RowsFollow
<1>16. sync'.rpc.at # "answered"
  BY <1>4 DEF Fresh
<1> QED BY <1>1, <1>6, <1>7, <1>8, <1>10, <1>13, <1>14, <1>15, <1>16, RLosesMoves

LEMMA FetchFailsCounts ==
  ASSUME IInv, IInv', RInv, FetchFails
  PROVE  RInv'
<1>1. PICK req \in ToSet(sync.asked) :
        LET got == [sync EXCEPT !.asked = RemoveFirst(@, req)]
        IN  /\ sync' = IF sync.catchUp.status = "running" /\ sync.catchUp.at = req
                       THEN [got EXCEPT !.catchUp = [Idle EXCEPT !.status = "error"],
                                        !.mark = IF @ = "pending" THEN "error" ELSE @]
                       ELSE got
            /\ down' = RemoveFirstMatch(down, LAMBDA m : m.kind = "page" /\ m.req = req)
  BY Zenon DEF FetchFails
<1> DEFINE got == [sync EXCEPT !.asked = RemoveFirst(@, req)]
           failed == [got EXCEPT !.catchUp = [Idle EXCEPT !.status = "error"],
                                 !.mark = IF @ = "pending" THEN "error" ELSE @]
<1>2. Same(sync, got) /\ got.rpc = sync.rpc
  BY DEF RInv, Linked, Formed, Fields, Same
<1>3. Starts(got, failed)
  <2> HIDE DEF got
  <2> QED BY <1>2 DEF Same, Starts, Formed, Fields, Idle, Complete, Done
<1>4. Starts(sync, sync')
  <2>1. sync' = failed \/ sync' = got
    BY <1>1, Zenon
  <2> HIDE DEF got, failed
  <2> QED BY <1>2, <1>3, <2>1 DEF Same, Starts, Complete, Done
<1> HIDE DEF got, failed
<1>13. UNCHANGED <<view, log, subs, returned>>
  BY DEF FetchFails
<1>5. /\ Sure(sync', returned') <=> Sure(sync, returned)
      /\ Done(sync', returned') => Done(sync, returned)
      /\ Desired(sync') = Desired(sync) /\ Asks(sync, sync')
  BY <1>4, <1>13 DEF Starts, Covered, Sure, Done, Desired, Asks
<1>6. Linked(sync', returned')
  BY <1>4, <1>5, LinkedStays DEF RInv, Starts
<1>7. /\ down \in Seq(Messages) /\ down' \in Seq(Messages) /\ DOMAIN down = 1..Len(down)
      /\ Len(down) \in Nat
  BY LenProperties DEF IInv
<1>8. PICK k \in 0..Len(down) : Loses(down', down, k) /\ (k # 0 => down[k].kind = "page")
  <2>1. down' = WithoutPage(down, req)
    BY <1>1, Zenon DEF WithoutPage
  <2> QED BY <1>7, <2>1, WithoutPageFacts
<1>9. PICK f : Places(f, down', down, k)
  BY <1>8 DEF Loses
<1>10. OneAck'
  <2>1. /\ \A i \in Acks' : i \in Nat /\ f[i] \in Acks
        /\ \A i, j \in Acks' : i < j => f[i] < f[j]
        /\ \A i \in Acks : i \in Nat
    BY <1>7, <1>9, LenProperties DEF Acks, Places
  <2>2. \A i, j \in Acks : i = j
    BY DEF RInv, OneAck
  <2>3. ASSUME NEW i \in Acks', NEW j \in Acks' PROVE i = j
    <3>1. f[i] = f[j] /\ f[i] \in Nat
      BY <2>1, <2>2
    <3>2. ~(i < j) /\ ~(j < i)
      BY <2>1, <3>1
    <3> QED BY <2>1, <3>2
  <2>4. Acks' # {} => sync'.rpc.at = "answered"
    BY <1>4, <2>1 DEF RInv, OneAck, Starts
  <2> QED BY <2>3, <2>4 DEF OneAck
<1>11. k \in DOMAIN down => down[k].kind # "row"
  BY <1>7, <1>8
<1>12. Sure(sync', returned') => Watched \in subs /\ \A i \in Answers : Followed(i)
  BY <1>5 DEF RInv, Subscribed, RowsFollow
<1> QED BY <1>4, <1>5, <1>6, <1>7, <1>9, <1>10, <1>11, <1>12, <1>13, RLosesMoves DEF Starts


-----------------------------------------------------------------------------

\* What comes still comes when the app handles the first message: what it counts on
\* afterwards it counted on before, and is not in that message.
LEMMA HeadComes ==
  ASSUME IInv, IInv', down # <<>>, down' = Tail(down), log' = log,
         NEW m, m = Head(down), NEW a \in {0, 1}, NEW e, NEW n, Comes(a, e, n),
         NEW g, NEW q,
         \A p \in 1..log.max : g # log.epoch \/ p > q =>
           /\ e # log.epoch \/ p > n
           /\ a = 0 => m # Row(log.epoch, p)
  PROVE  Comes(0, g, q)'
<1>1. /\ down \in Seq(Messages) /\ down' \in Seq(Messages)
      /\ DOMAIN down = 1..Len(down) /\ Len(down) \in Nat \ {0} /\ down[1] = m
      /\ DOMAIN down' \subseteq Nat \ {0}
  BY HeadTailProperties, LenProperties, EmptySeq DEF IInv
<1>2. PICK f : Places(f, down', down, 1)
  BY <1>1, TailFacts DEF Loses
<1>3. Comes(a, g, q)
  BY DEF Comes
<1>4. \A l \in DOMAIN down' : a < f[l] => 0 < l
  BY <1>1
<1>5. \A p \in 1..log.max :
        (g # log.epoch \/ p > q) /\ 1 \in DOMAIN down /\ a < 1 => down[1] # Row(log.epoch, p)
  BY <1>1
<1> QED BY <1>2, <1>3, <1>4, <1>5, ComesMoves

\* After a row or a page: what is left to prove of a step that handles one.
LEMMA HeadCounts ==
  ASSUME IInv, IInv', RInv, down # <<>>, down' = Tail(down), Head(down).kind # "ack",
         UNCHANGED <<log, subs>>, Linked(sync', returned'), sync'.rpc = sync.rpc,
         Sure(sync', returned') => Sure(sync, returned), Caught'
  PROVE  RInv'
<1>1. /\ down \in Seq(Messages) /\ down' \in Seq(Messages)
      /\ DOMAIN down = 1..Len(down) /\ Len(down) \in Nat \ {0} /\ down[1] = Head(down)
      /\ DOMAIN down \subseteq Nat \ {0} /\ DOMAIN down' \subseteq Nat \ {0}
  BY HeadTailProperties, LenProperties, EmptySeq DEF IInv
<1>2. PICK f : Places(f, down', down, 1)
  BY <1>1, TailFacts DEF Loses
<1>3. /\ \A l \in DOMAIN down' : f[l] \in DOMAIN down /\ down'[l] = down[f[l]]
      /\ \A l, n \in DOMAIN down' : l < n => f[l] < f[n]
  BY <1>2 DEF Places
<1>4. ASSUME NEW i \in DOMAIN down', Followed(f[i]) PROVE Followed(i)'
  BY <1>1, <1>2, <1>4, FollowedMoves
<1>5. Subscribed'
  BY DEF RInv, Subscribed
<1>6. Lively'
  BY <1>3 DEF RInv, Lively, Stamped
<1>7. RowsFollow'
  <2>1. ASSUME Sure(sync', returned'), NEW i \in Answers' PROVE Followed(i)'
    <3>1. i \in DOMAIN down' /\ f[i] \in Answers
      BY <1>3 DEF Answers
    <3>2. Followed(f[i])
      BY <2>1, <3>1 DEF RInv, RowsFollow
    <3> QED BY <1>4, <3>1, <3>2
  <2>2. ASSUME sync'.rpc.at = "answered", Watched \in sync'.rpc.req,
               NEW i \in Acks', NEW j \in Answers', i < j
        PROVE  Followed(j)'
    <3>1. /\ i \in DOMAIN down' /\ j \in DOMAIN down'
          /\ f[i] \in Acks /\ f[j] \in Answers /\ f[i] < f[j]
      BY <1>3, <2>2 DEF Acks, Answers
    <3>2. Followed(f[j])
      BY <2>2, <3>1 DEF RInv, RowsFollow
    <3> QED BY <1>4, <3>1, <3>2
  <2> QED BY <2>1, <2>2 DEF RowsFollow
<1>8. OneAck'
  <2>1. /\ \A i \in Acks' : i \in Nat /\ f[i] \in Acks
        /\ \A i, j \in Acks' : i < j => f[i] < f[j]
        /\ \A i \in Acks : i \in Nat
    BY <1>1, <1>3 DEF Acks
  <2>2. \A i, j \in Acks : i = j
    BY DEF RInv, OneAck
  <2>3. ASSUME NEW i \in Acks', NEW j \in Acks' PROVE i = j
    <3>1. f[i] = f[j] /\ f[i] \in Nat
      BY <2>1, <2>2
    <3>2. ~(i < j) /\ ~(j < i)
      BY <2>1, <3>1
    <3> QED BY <2>1, <3>2
  <2>4. Acks' # {} => sync'.rpc.at = "answered"
    BY <2>1 DEF RInv, OneAck
  <2> QED BY <2>3, <2>4 DEF OneAck
<1> QED BY <1>5, <1>6, <1>7, <1>8 DEF RInv


\* A live row the app drops after a complete catch-up is one it has, or of an epoch
\* whose first row it has yet to get; one it shows was the next it counted on.
LEMMA LiveRowCaught ==
  ASSUME IInv, IInv', RInv, LiveRow, Done(sync, returned), ~view.newer,
         NEW m, m = Head(down), ~HasGap(m)
  PROVE  /\ view'.synced
         /\ Comes(0, view.range.epoch, view.range.end)'
         /\ view'.range # NoRange /\ view'.range.epoch # log'.epoch => log'.max > 0
<1>1. /\ m.kind = "row" /\ down # <<>> /\ down' = Tail(down) /\ log' = log
      /\ down \in Seq(Messages) /\ log.epoch \in Nat /\ log.max \in Nat
  BY DEF LiveRow, IInv, LogOK
<1>2. /\ DOMAIN down = 1..Len(down) /\ Len(down) \in Nat \ {0} /\ down[1] = m
  BY <1>1, HeadTailProperties, LenProperties, EmptySeq
<1>3. /\ m \in Messages /\ m.epoch \in Nat
      /\ \A e, n \in Nat : Seen(e, n) => AtMost(e, n, m.epoch, Upto(m))
  BY <1>1, HandleFacts
<1>4. m.seq \in Nat \ {0} /\ Upto(m) = m.seq
  BY <1>1, <1>3, MessageFacts
<1>5. 1 \in Stamped
  BY <1>1, <1>2 DEF Stamped
<1>6. AtMost(m.epoch, m.seq, log.epoch, log.max)
  BY <1>2, <1>4, <1>5 DEF IInv, Ordered
<1>7. m.epoch # log.epoch => log.max > 0
  BY <1>2, <1>5 DEF RInv, Lively
<1>8. PICK e, n : e = view.range.epoch /\ n = view.range.end
  OBVIOUS
<1>9. /\ view.synced /\ Comes(0, e, n)
      /\ view.range # NoRange /\ e # log.epoch => log.max > 0
  BY <1>8 DEF RInv, Caught
<1>10. /\ DOMAIN view = {"synced", "newer", "range", "shown"}
       /\ view.range # NoRange => view.range \in Ranges /\ e \in Nat /\ n \in Nat \ {0}
  BY <1>8 DEF IInv, ViewOK, Ranges
<1>11. \A p : (m.epoch # log.epoch \/ m.seq # p) => m # Row(log.epoch, p)
  BY DEF Row
<1>12. ASSUME NEW g, NEW q,
              \A p \in 1..log.max : g # log.epoch \/ p > q =>
                /\ e # log.epoch \/ p > n
                /\ m.epoch # log.epoch \/ m.seq # p
       PROVE  Comes(0, g, q)'
  <2>1. \A p \in 1..log.max : g # log.epoch \/ p > q =>
          /\ e # log.epoch \/ p > n
          /\ 0 = 0 => m # Row(log.epoch, p)
    BY <1>11, <1>12
  <2> QED BY <1>1, <1>9, <2>1, HeadComes
<1>13. view.range # NoRange /\ m.epoch # e => e < m.epoch
  BY <1>3, <1>4, <1>8, <1>10 DEF IInv, RangeSeen, AtMost
<1>14. CASE Restarts(m)
  <2> DEFINE range == [epoch |-> m.epoch, start |-> 1, end |-> 1]
  <2>1. view' = [view EXCEPT !.range = range, !.shown = Rows(m.epoch, 1, 1)]
    BY <1>9, <1>14 DEF LiveRow
  <2>2. range.epoch = m.epoch /\ range.end = 1
    OBVIOUS
  <2> HIDE DEF range
  <2>3. view'.range = range /\ view'.synced
    BY <1>9, <1>10, <2>1
  <2>4. view.range # NoRange /\ m.epoch # e /\ m.seq = 1
    BY <1>8, <1>14 DEF Restarts
  <2>5. e # log.epoch
    BY <1>1, <1>3, <1>6, <1>10, <1>13, <2>4 DEF AtMost
  <2>6. PICK g, q : g = m.epoch /\ q = 1
    OBVIOUS
  <2>7. Comes(0, g, q)'
    BY <1>12, <2>4, <2>5, <2>6
  <2> QED BY <1>1, <1>7, <2>2, <2>3, <2>6, <2>7
<1>15. CASE ~Restarts(m) /\ Accepts(m)
  <2> DEFINE range == Extended(m)
  <2>1. view' = [view EXCEPT !.range = range, !.shown = @ \cup Rows(m.epoch, m.seq, m.seq)]
    BY <1>9, <1>15 DEF LiveRow
  <2>2. CASE view.range = NoRange
    <3>1. range.epoch = m.epoch /\ range.end = m.seq
      BY <2>2 DEF Extended
    <3> HIDE DEF range
    <3>2. view'.range = range /\ view'.synced
      BY <1>9, <1>10, <2>1
    <3>3. e = 0 /\ n = 0
      BY <1>8, <2>2 DEF NoRange
    <3>4. PICK g, q : g = m.epoch /\ q = m.seq
      OBVIOUS
    <3>5. \A p \in 1..log.max : g # log.epoch \/ p > q =>
            /\ e # log.epoch \/ p > n
            /\ m.epoch # log.epoch \/ m.seq # p
      BY <1>4, <3>3, <3>4
    <3>6. Comes(0, g, q)'
      BY <1>12, <3>5
    <3> QED BY <1>1, <1>7, <3>1, <3>2, <3>4, <3>6
  <2>3. CASE view.range # NoRange
    <3>1. m.epoch = e /\ m.seq = n + 1
      BY <1>8, <1>15, <2>3 DEF Accepts
    <3>2. range.epoch = e /\ range.end = m.seq
      BY <1>8, <1>10, <2>3 DEF Extended, Ranges
    <3> HIDE DEF range
    <3>3. view'.range = range /\ view'.synced
      BY <1>9, <1>10, <2>1
    <3>4. PICK g, q : g = e /\ q = m.seq
      OBVIOUS
    <3>5. \A p \in 1..log.max : g # log.epoch \/ p > q =>
            /\ e # log.epoch \/ p > n
            /\ m.epoch # log.epoch \/ m.seq # p
      BY <1>4, <1>10, <2>3, <3>1, <3>4
    <3>6. Comes(0, g, q)'
      BY <1>12, <3>5
    <3> QED BY <1>1, <1>9, <2>3, <3>2, <3>3, <3>4, <3>6
  <2> QED BY <2>2, <2>3
<1>16. CASE ~Restarts(m) /\ ~Accepts(m)
  <2>1. view' = view
    BY <1>16 DEF LiveRow
  <2>2. view.range # NoRange
    BY <1>16 DEF Accepts
  <2>3. m.epoch # e \/ m.seq <= n
    BY <1>4, <1>8, <1>10, <1>16, <2>2 DEF HasGap, Accepts
  <2>4. m.epoch # e => m.seq # 1
    BY <1>8, <1>16, <2>2 DEF Restarts
  <2>5. ASSUME m.epoch # e, m.epoch = log.epoch PROVE FALSE
    <3>1. 1 \in 1..log.max
      BY <1>1, <1>4, <1>6, <2>5 DEF AtMost
    <3>2. PICK j \in DOMAIN down : 0 < j /\ down[j] = Row(log.epoch, 1)
      BY <1>9, <2>5, <3>1 DEF Comes
    <3>3. down[j].kind = "row" /\ down[j].epoch = log.epoch /\ down[j].seq = 1
      BY <3>2 DEF Row
    <3>4. j # 1
      BY <1>2, <2>4, <2>5, <3>3
    <3>5. j \in Stamped /\ 1 < j /\ Upto(down[j]) = 1
      BY <1>2, <3>2, <3>3, <3>4 DEF Stamped, Upto
    <3>6. AtMost(m.epoch, m.seq, log.epoch, 1)
      BY <1>2, <1>4, <1>5, <3>3, <3>5 DEF IInv, Ordered
    <3> QED BY <1>1, <1>4, <2>4, <2>5, <3>6 DEF AtMost
  <2>6. \A p \in 1..log.max : e # log.epoch \/ p > n =>
          /\ e # log.epoch \/ p > n
          /\ m.epoch # log.epoch \/ m.seq # p
    <3>1. ASSUME m.epoch = log.epoch, NEW p \in 1..log.max, e # log.epoch \/ p > n
          PROVE  m.seq # p
      <4>1. m.epoch = e /\ m.seq <= n
        BY <2>3, <2>5, <3>1
      <4> QED BY <1>1, <1>4, <1>10, <2>2, <3>1, <4>1
    <3> QED BY <3>1
  <2>7. Comes(0, e, n)'
    BY <1>12, <2>6
  <2> QED BY <1>1, <1>8, <1>9, <2>1, <2>7
<1> QED BY <1>14, <1>15, <1>16

LEMMA LiveRowCounts ==
  ASSUME IInv, IInv', RInv, LiveRow
  PROVE  RInv'
<1> PICK m : m = Head(down)
  OBVIOUS
<1> DEFINE live == view.synced /\ ~view.newer
           cursor == After(view.range.epoch, view.range.end)
<1>1. /\ down # <<>> /\ down' = Tail(down) /\ Head(down).kind # "ack"
      /\ UNCHANGED <<log, subs, returned>>
      /\ sync' = IF live /\ HasGap(m) THEN RecoverGap(sync, cursor) ELSE sync
  BY DEF LiveRow
<1> HIDE DEF cursor
<1>2. Formed(sync)
  BY DEF RInv, Linked
<1>3. Starts(sync, sync')
  <2>1. Starts(sync, sync) /\ Starts(sync, RecoverGap(sync, cursor))
    BY <1>2, CatchUpMoves DEF Starts
  <2> QED BY <1>1, <2>1
<1>4. /\ Sure(sync', returned') <=> Sure(sync, returned)
      /\ Done(sync', returned') => Done(sync, returned)
      /\ Desired(sync') = Desired(sync) /\ Asks(sync, sync')
  BY <1>1, <1>3 DEF Starts, Covered, Sure, Done, Desired, Asks
<1>5. Linked(sync', returned')
  BY <1>3, <1>4, LinkedStays DEF RInv, Starts
<1>6. view'.newer = view.newer
  BY DEF LiveRow, IInv, ViewOK
<1>7. ASSUME Done(sync', returned'), ~view'.newer
      PROVE  Done(sync, returned) /\ ~view.newer /\ ~HasGap(m)
  <2>1. Done(sync, returned) /\ ~view.newer
    BY <1>4, <1>6, <1>7
  <2>2. live
    BY <2>1 DEF RInv, Caught
  <2>3. Fetchable(sync)
    BY <2>1 DEF RInv, Linked, Covered, Sure, Fetchable
  <2>4. ~Complete(RecoverGap(sync, cursor))
    BY <1>2, <2>3, CatchUpMoves
  <2> QED BY <1>1, <1>7, <2>1, <2>2, <2>4 DEF Done
<1>8. Caught'
  <2>1. Done(sync', returned') /\ ~view'.newer =>
          /\ view'.synced
          /\ Comes(0, view.range.epoch, view.range.end)'
          /\ view'.range # NoRange /\ view'.range.epoch # log'.epoch => log'.max > 0
    BY <1>7, LiveRowCaught
  <2> QED BY <2>1 DEF Caught
<1> QED BY <1>1, <1>3, <1>4, <1>5, <1>8, HeadCounts DEF Starts


-----------------------------------------------------------------------------

\* A page that is not followed by newer ones says so on screen, and has rows if the
\* daemon has any.
LEMMA PageFlags ==
  ASSUME IInv, NEW m \in Pages, view' = Shown(m)
  PROVE  /\ view'.newer = m.newer
         /\ ~m.newer => view'.synced
         /\ m.newer => ~Empty(m)
<1>1. PICK at : view' = [at EXCEPT !.synced = @ \/ m.req.dir = "tail" \/ ~m.newer,
                                   !.newer = m.newer]
  BY Zenon DEF Shown
<1>2. DOMAIN view' = {"synced", "newer", "range", "shown"}
  BY ShownFacts DEF IInv, ViewOK
<1>3. view'.newer = m.newer /\ (~m.newer => view'.synced)
  BY <1>1, <1>2
<1>4. m.newer => ~Empty(m)
  BY PageNumbers, SyncAssumption DEF Empty
<1> QED BY <1>3, <1>4

\* After such a page the cursor is at the daemon's last row when it sent the page,
\* whatever the page did to the rows on screen.
LEMMA PageCatchesUp ==
  ASSUME IInv, NEW m \in Pages, m = Head(down), view' = Shown(m),
         down # <<>>, down' = Tail(down), log' = log, ~m.newer
  PROVE  \/ view'.range = NoRange /\ m.max = 0
         \/ view'.range.epoch = m.epoch /\ view'.range.end = m.max
<1>1. /\ m.epoch \in Nat /\ m.from \in Nat \ {0} /\ m.to \in Nat /\ m.max \in Nat
      /\ m.to = m.max /\ m.kind = "page" /\ Upto(m) = m.max
      /\ PageSize \in Nat \ {0}
  BY PageNumbers, SyncAssumption
<1>2. /\ m.req \in Allowed
      /\ \A e, n \in Nat : Seen(e, n) => AtMost(e, n, m.epoch, m.max)
      /\ \A e \in Nat : Past(e) => e < m.epoch
  BY <1>1, HandleFacts
<1>3. /\ view.range # NoRange => /\ view.range \in Ranges
                                 /\ view.range.epoch \in Nat /\ view.range.end \in Nat
      /\ view.synced \in BOOLEAN
  BY DEF IInv, ViewOK, Ranges
<1>4. /\ PageRange(m).epoch = m.epoch /\ PageRange(m).end = m.max
  BY <1>1 DEF PageRange
<1>5. ASSUME m.from = 1 \/ m.from + PageSize = m.max + 1, Empty(m)
      PROVE  m.max = 0
  BY <1>1, <1>5 DEF Empty
<1>6. CASE Replaces(m) /\ Empty(m) /\ view'.range = NoRange
  <2>1. m.from = 1 \/ m.from + PageSize = m.max + 1
    BY <1>6, PageNumbers DEF Replaces, Bootstraps, Resumes
  <2> QED BY <1>5, <1>6, <2>1
<1>7. CASE view'.range = PageRange(m)
  BY <1>4, <1>7
<1>8. CASE /\ ~Replaces(m) /\ Extends(m) /\ view.range # NoRange
           /\ view'.range = [view.range EXCEPT !.end = m.to]
  <2>1. m.epoch = view.range.epoch
    BY <1>8 DEF Extends
  <2> QED BY <1>1, <1>3, <1>8, <2>1 DEF Ranges
<1>9. CASE ~Replaces(m) /\ ~Extends(m) /\ view'.range = view.range
  <2>1. CASE m.req.dir = "tail"
    <3>1. view.synced
      BY <1>3, <1>9, <2>1 DEF Replaces, Bootstraps
    <3>2. m.from = 1 \/ m.from + PageSize = m.max + 1
      BY <2>1, PageNumbers
    <3>3. CASE view.range = NoRange
      <4>1. Empty(m)
        BY <1>9, <3>3 DEF Extends, Discards, Resumes
      <4> QED BY <1>5, <1>9, <3>2, <3>3, <4>1
    <3>4. CASE view.range # NoRange
      <4>1. Resumes(m)
        BY <2>1, <3>1, <3>4 DEF Resumes
      <4>2. /\ m.epoch = view.range.epoch
            /\ ~(m.max < view.range.end)
            /\ ~(m.max > view.range.end /\ m.from > view.range.end + 1)
        BY <1>9, <4>1 DEF Replaces
      <4>3. ASSUME m.max # view.range.end PROVE FALSE
        <5>1. m.max > view.range.end /\ m.from <= view.range.end + 1
          BY <1>1, <1>3, <3>4, <4>2, <4>3
        <5>2. ~Empty(m)
          BY <1>1, <1>3, <1>5, <3>2, <3>4, <5>1
        <5>3. ~Discards(m)
          BY <4>3 DEF Discards
        <5>4. m.to > view.range.end
          BY <1>1, <5>1
        <5> QED BY <1>9, <4>2, <5>1, <5>2, <5>3, <5>4 DEF Extends
      <4> QED BY <1>9, <4>2, <4>3
    <3> QED BY <3>3, <3>4
  <2>2. CASE m.req.dir # "tail"
    <3>1. /\ m.req.dir = "after" /\ m.req.epoch = m.epoch /\ m.req.seq \in Nat \ {0}
          /\ m.from = m.req.seq + 1
      BY <1>9, <2>2, PageNumbers DEF Replaces
    <3>2. May(m.epoch, m.req.seq)
      BY <1>2, <3>1 DEF Allowed
    <3>3. view.range # NoRange
      BY <1>1, <1>2, <3>2 DEF May
    <3>4. /\ AtMost(m.epoch, m.req.seq, view.range.epoch, view.range.end)
          /\ AtMost(view.range.epoch, view.range.end, m.epoch, m.max)
      BY <1>2, <1>3, <3>2, <3>3 DEF May, IInv, RangeSeen
    <3>5. /\ m.epoch = view.range.epoch
          /\ m.req.seq <= view.range.end /\ view.range.end <= m.max
      BY <1>1, <1>3, <3>1, <3>3, <3>4 DEF AtMost
    <3>6. ASSUME view.range.end # m.max PROVE FALSE
      <4>1. m.to > view.range.end /\ m.from <= view.range.end + 1 /\ ~Empty(m)
        BY <1>1, <1>3, <3>1, <3>3, <3>5, <3>6 DEF Empty
      <4>2. ~Discards(m)
        BY <2>2 DEF Discards, Resumes
      <4> QED BY <1>9, <3>5, <4>1, <4>2 DEF Extends
    <3> QED BY <1>9, <3>5, <3>6
  <2> QED BY <2>1, <2>2
<1> QED BY <1>6, <1>7, <1>8, <1>9, ShownFacts

\* A fetch that goes on leaves the membership alone, and is done only with a page
\* that is not followed by newer ones.
LEMMA ContinueMoves ==
  ASSUME NEW s, Formed(s), NEW m, m.newer => ~Empty(m)
  PROVE  /\ Formed(Continue(s, m))
         /\ Continue(s, m).connected = s.connected /\ Continue(s, m).recent = s.recent
         /\ Continue(s, m).acked = s.acked /\ Continue(s, m).rpc = s.rpc
         /\ Complete(Continue(s, m)) => Complete(s) \/ (Fetchable(s) /\ ~m.newer)
<1> DEFINE next == After(m.epoch, m.to)
           catchUp == [s.catchUp EXCEPT !.at = next]
           complete == [Idle EXCEPT !.status = "complete"]
           more == [s EXCEPT !.catchUp.at = next, !.asked = Asking(@, next)]
           done == [s EXCEPT !.catchUp = complete]
           ready == [done EXCEPT !.mark = "ready"]
           t == Continue(s, m)
<1>1. \/ t = s
      \/ s.catchUp.status = "running" /\ t = more
      \/ /\ Fetchable(s) /\ ~m.newer
         /\ t = StartCatchUp(done, s.owed, TRUE) \/ t = ready
  BY Zenon DEF Continue
<1>2. /\ DOMAIN complete = {"status", "req", "at"}
      /\ DOMAIN catchUp = {"status", "req", "at"} /\ catchUp.status = s.catchUp.status
  BY DEF Formed, Idle
<1>3. more = [s EXCEPT !.catchUp = catchUp, !.asked = Asking(@, next)]
  BY Zenon
<1> HIDE DEF next, catchUp, complete, more
<1>4. ASSUME NEW c, DOMAIN c = {"status", "req", "at"}, NEW u,
             u = [s EXCEPT !.catchUp = c]
      PROVE  /\ Formed(u) /\ u.connected = s.connected /\ u.recent = s.recent
             /\ u.acked = s.acked /\ u.rpc = s.rpc /\ u.catchUp = c
  BY <1>4 DEF Formed, Fields
<1>5. /\ Formed(done) /\ done.connected = s.connected /\ done.recent = s.recent
      /\ done.acked = s.acked /\ done.rpc = s.rpc
  BY <1>2, <1>4
<1> HIDE DEF done
<1>6. CASE t = s
  BY <1>6
<1>7. CASE s.catchUp.status = "running" /\ t = more
  <2>1. /\ Formed(t) /\ t.connected = s.connected /\ t.recent = s.recent
        /\ t.acked = s.acked /\ t.rpc = s.rpc /\ t.catchUp = catchUp
    BY <1>2, <1>3, <1>7 DEF Formed, Fields
  <2> HIDE DEF t
  <2>2. ~Complete(t)
    BY <1>2, <1>7, <2>1 DEF Complete, Done
  <2> QED BY <2>1, <2>2 DEF t
<1>8. CASE /\ Fetchable(s) /\ ~m.newer
           /\ t = StartCatchUp(done, s.owed, TRUE) \/ t = ready
  <2>1. Starts(done, StartCatchUp(done, s.owed, TRUE))
    BY <1>5, StartCatchUpMoves
  <2>2. /\ Formed(ready) /\ ready.connected = done.connected /\ ready.recent = done.recent
        /\ ready.acked = done.acked /\ ready.rpc = done.rpc
    BY <1>5 DEF Formed, Fields
  <2> HIDE DEF t, ready
  <2>3. /\ Formed(t) /\ t.connected = s.connected /\ t.recent = s.recent
        /\ t.acked = s.acked /\ t.rpc = s.rpc
    BY <1>5, <1>8, <2>1, <2>2 DEF Starts
  <2> QED BY <1>8, <2>3 DEF t
<1> QED BY <1>1, <1>6, <1>7, <1>8

LEMMA TimelinePageCounts ==
  ASSUME IInv, IInv', RInv, TimelinePage
  PROVE  RInv'
<1> PICK m : m = Head(down)
  OBVIOUS
<1> DEFINE got == [sync EXCEPT !.asked = RemoveFirst(@, m.req)]
           told == IF GapAfter(m) = None THEN got ELSE RecoverGap(got, GapAfter(m))
<1>1. /\ down # <<>> /\ down' = Tail(down) /\ UNCHANGED <<log, subs, returned>> /\ m.kind = "page"
      /\ sync' = Continue(told, m) /\ view' = Shown(m)
  BY DEF TimelinePage
<1>2. m \in Pages
  <2>1. m \in Messages
    BY <1>1, HandleFacts
  <2> QED BY <1>1, <2>1, MessageFacts
<1>3. Same(sync, got) /\ got.rpc = sync.rpc
  BY DEF RInv, Linked, Formed, Fields, Same
<1> HIDE DEF got
<1>4. Starts(got, told)
  <2>1. Formed(got)
    BY <1>3 DEF Same
  <2> QED BY <2>1, CatchUpMoves DEF Starts
<1> HIDE DEF told
<1>5. Starts(sync, told)
  BY <1>3, <1>4 DEF Same, Starts, Complete, Done
<1>6. /\ view'.newer = m.newer
      /\ ~m.newer => view'.synced
      /\ m.newer => ~Empty(m)
  BY <1>1, <1>2, PageFlags
<1>7. /\ Formed(sync') /\ sync'.connected = sync.connected /\ sync'.recent = sync.recent
      /\ sync'.acked = sync.acked /\ sync'.rpc = sync.rpc
      /\ Complete(sync') => Complete(told) \/ (Fetchable(told) /\ ~m.newer)
  BY <1>1, <1>5, <1>6, ContinueMoves DEF Starts
<1>8. Sure(sync', returned') <=> Sure(sync, returned)
  BY <1>1, <1>7 DEF Covered, Sure, Desired
<1>9. /\ Done(sync', returned') => Sure(sync, returned)
      /\ Complete(sync') => Watched \in Desired(sync')
  <2>1. Complete(told) => /\ Watched \in Desired(sync)
                          /\ ~returned => Sure(sync, returned)
    BY <1>5 DEF Starts, RInv, Linked, Done
  <2>2. Fetchable(told) => /\ Watched \in Desired(sync)
                           /\ ~returned => Sure(sync, returned)
    BY <1>5 DEF Starts, Fetchable, Covered, Sure, Desired
  <2>3. Desired(sync') = Desired(sync)
    BY <1>7 DEF Desired
  <2> QED BY <1>1, <1>7, <2>1, <2>2, <2>3 DEF Done
<1>10. Linked(sync', returned')
  BY <1>7, <1>8, <1>9 DEF RInv, Linked
<1>11. ASSUME Done(sync', returned'), ~view'.newer
       PROVE  /\ view'.synced
              /\ Comes(0, view.range.epoch, view.range.end)'
              /\ view'.range # NoRange /\ view'.range.epoch # log'.epoch => log'.max > 0
  <2>1. down \in Seq(Messages) /\ log.max \in Nat
    BY DEF IInv, LogOK
  <2>2. 1 \in DOMAIN down /\ down[1] = m
    BY <1>1, <2>1, HeadTailProperties, LenProperties, EmptySeq
  <2>3. 1 \in Answers /\ 1 \in Stamped
    BY <1>1, <2>2 DEF Answers, Stamped
  <2>4. PICK e, n : e = m.epoch /\ n = m.max
    OBVIOUS
  <2>5. Comes(1, e, n)
    BY <1>9, <1>11, <2>2, <2>3, <2>4 DEF RInv, RowsFollow, Followed
  <2>6. m.epoch # log.epoch => log.max > 0
    BY <2>2, <2>3 DEF RInv, Lively
  <2>7. \/ view'.range = NoRange /\ m.max = 0
        \/ view'.range.epoch = m.epoch /\ view'.range.end = m.max
    BY <1>1, <1>2, <1>6, <1>11, PageCatchesUp
  <2>8. PICK g, q : g = view'.range.epoch /\ q = view'.range.end
    OBVIOUS
  <2>9. \A p \in 1..log.max : g # log.epoch \/ p > q => e # log.epoch \/ p > n
    BY <2>1, <2>4, <2>7, <2>8
  <2>10. Comes(0, g, q)'
    BY <1>1, <2>5, <2>9, HeadComes
  <2>11. view'.range # NoRange => view'.range.epoch = m.epoch
    BY <2>7
  <2> QED BY <1>1, <1>6, <1>11, <2>6, <2>8, <2>10, <2>11
<1>12. Caught'
  BY <1>11 DEF Caught
<1>13. Head(down).kind # "ack"
  BY <1>1
<1> QED BY <1>1, <1>7, <1>8, <1>10, <1>12, <1>13, HeadCounts


-----------------------------------------------------------------------------

LEMMA InitCounts ==
  ASSUME Init
  PROVE  RInv
<1>1. /\ DOMAIN sync = Fields /\ sync.acked = {} /\ sync.rpc = NoRpc /\ sync.catchUp = Idle
  BY DEF Init, Fields
<1>2. /\ Formed(sync) /\ ~Complete(sync) /\ ~Done(sync, returned)
      /\ sync.rpc.at = "none"
  BY <1>1 DEF Formed, NoRpc, Idle, Complete, Done
<1>3. ~Sure(sync, returned)
  BY <1>1 DEF Covered, Sure
<1>4. Linked(sync, returned)
  BY <1>1, <1>2, <1>3 DEF Linked, Init
<1>5. DOMAIN down = {}
  BY EmptySeq DEF Init
<1>6. Acks = {} /\ Stamped = {} /\ Answers = {}
  BY <1>5 DEF Acks, Stamped, Answers
<1>7. Subscribed /\ OneAck /\ Lively /\ RowsFollow
  BY <1>2, <1>3, <1>6 DEF Subscribed, OneAck, Lively, RowsFollow
<1>8. Caught
  BY <1>2 DEF Caught
<1> QED BY <1>4, <1>7, <1>8 DEF RInv

LEMMA NextCounts ==
  ASSUME IInv, IInv', RInv, [Next]_vars
  PROVE  RInv'
<1>1. CASE Next
  <2>1. ASSUME NEW v \in SUBSET Agents, View(v) PROVE RInv'
    BY <2>1, ViewCounts
  <2>2. CASE SetActive
    BY <2>2, SetActiveCounts
  <2>3. CASE Connect
    BY <2>3, ConnectCounts
  <2>4. CASE Disconnect
    BY <2>4, DisconnectCounts
  <2>5. CASE Append_ \/ Rewind
    BY <2>5, DaemonCounts
  <2>6. CASE Subscribe
    BY <2>6, SubscribeCounts
  <2>7. CASE Answer
    BY <2>7, AnswerCounts
  <2>8. CASE Acknowledge
    BY <2>8, AcknowledgeCounts
  <2>9. CASE LiveRow
    BY <2>9, LiveRowCounts
  <2>10. CASE TimelinePage
    BY <2>10, TimelinePageCounts
  <2>11. CASE SubscriptionFails
    BY <2>11, SubscriptionFailsCounts
  <2>12. CASE RetryMembership \/ RetryCatchUp
    BY <2>12, RetryCounts
  <2>13. CASE FetchFails
    BY <2>13, FetchFailsCounts
  <2> QED BY <1>1, <2>1, <2>2, <2>3, <2>4, <2>5, <2>6, <2>7, <2>8, <2>9, <2>10,
             <2>11, <2>12, <2>13 DEF Next
<1>2. CASE UNCHANGED vars
  <2>1. UNCHANGED <<sync, view, log, subs, down, returned>>
    BY <1>2 DEF vars
  <2>2. Linked(sync', returned')
    BY <2>1 DEF RInv
  <2>3. Asks(sync, sync')
    BY <2>1 DEF Asks
  <2> QED BY <2>1, <2>2, <2>3, RSyncMoves
<1> QED BY <1>1, <1>2

\* With nothing under way, everything that was to come has come.
LEMMA CaughtIsCurrent ==
  ASSUME IInv, RInv
  PROVE  ReadyIsCurrent
<1> SUFFICES ASSUME Done(sync, returned), ~view.newer, down = <<>>
             PROVE  IsCurrent
  BY DEF ReadyIsCurrent, Settled, Complete, Done
<1>1. /\ view.synced
      /\ Comes(0, view.range.epoch, view.range.end)
      /\ view.range # NoRange /\ view.range.epoch # log.epoch => log.max > 0
  BY DEF RInv, Caught
<1>2. DOMAIN down = {}
  BY EmptySeq
<1>3. ASSUME NEW k \in 1..log.max
      PROVE  view.range.epoch = log.epoch /\ ~(k > view.range.end)
  BY <1>1, <1>2, <1>3 DEF Comes
<1>4. log.max \in Nat /\ log.epoch \in Nat
  BY DEF IInv, LogOK
<1>5. CASE view.range = NoRange
  <2>1. view.range.end = 0
    BY <1>5 DEF NoRange
  <2>2. log.max = 0
    <3>1. log.max > 0 => 1 \in 1..log.max
      BY <1>4
    <3> QED BY <1>3, <1>4, <2>1, <3>1
  <2> QED BY <1>1, <1>4, <2>1, <2>2 DEF IsCurrent
<1>6. CASE view.range # NoRange
  <2>1. view.range.epoch \in Nat /\ view.range.end \in Nat \ {0}
    BY <1>6 DEF IInv, ViewOK, Ranges
  <2>2. AtMost(view.range.epoch, view.range.end, log.epoch, log.max)
    BY <1>6 DEF IInv, RangeSeen, Seen
  <2>3. log.max > 0 => log.max \in 1..log.max
    BY <1>4
  <2>4. view.range.epoch = log.epoch
    BY <1>1, <1>3, <1>6, <2>3
  <2>5. view.range.end <= log.max /\ log.max > 0
    BY <1>4, <2>1, <2>2, <2>4 DEF AtMost
  <2>6. ~(log.max > view.range.end)
    BY <1>3, <2>3, <2>5
  <2> QED BY <1>1, <1>4, <2>1, <2>4, <2>5, <2>6 DEF IsCurrent
<1> QED BY <1>5, <1>6

\* A timeline that is told to be ready, whose membership did not come back before the
\* daemon had been told that it changed, and that is not shown as detached, is the
\* daemon's once nothing is under way: between the answer of a catch-up and the live
\* stream no row is lost (viewed-timeline-sync.ts, session-stream-reducers.ts).
THEOREM ReadyMeansCurrent == Spec => []ReadyIsCurrent
<1> DEFINE Inv == IInv /\ RInv
<1>1. Init => Inv
  BY InitInvariant, InitCounts
<1>2. Inv /\ [Next]_vars => Inv'
  <2> SUFFICES ASSUME Inv, [Next]_vars PROVE Inv'
    OBVIOUS
  <2>1. IInv'
    BY NextInvariant
  <2>2. RInv'
    BY <2>1, NextCounts
  <2> QED BY <2>1, <2>2
<1>3. Inv => ReadyIsCurrent
  BY CaughtIsCurrent
<1> QED BY <1>1, <1>2, <1>3, PTL DEF Spec
=============================================================================
