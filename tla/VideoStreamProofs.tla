-------------------------- MODULE VideoStreamProofs --------------------------
(* TLAPS proofs about VideoStream, for any requests, topics, chunks and     *)
(* bounds, and any length of the queue.                                     *)
EXTENDS VideoStream, FiniteSetTheorems, SequenceTheorems, WellFoundedInduction, TLAPS

(* What is on its way to the client: the last thing it has got, and what it *)
(* will get.                                                                *)
Length(w, p) == 1 + Len(w) + Len(p)
Nth(r, w, p, i) ==
  IF i = 1 THEN r ELSE IF i <= 1 + Len(w) THEN w[i - 1] ELSE p[i - 1 - Len(w)]
Sent(i) == Nth(received, writing, pending, i)
Latest == Sent(Length(writing, pending))

Subscribing == {"subscribe", "subscribe_unknown"}
HandlerSteps == {"status", "headers", "content", "boundary", "keep", "list"} \cup Subscribing

(* What may follow what in a handler or a callback.                         *)
Then(first, second) ==
  \/ Follows(first, second)
  \/ first.what = "boundary" /\ second.what \in Subscribing
  \/ first.what \in Subscribing /\ second.what = "keep"
  \/ first.what = "keep" /\ second.what = "list"
  \/ first.what = "error" /\ second.what = "throw"
  \/ first.what = "payload" /\ second.what = "finish"

(* After an error nothing is in progress, and before one nothing is pending *)
(* without a write.                                                         *)
Idle ==
  /\ last_error => ~write_in_progress
  /\ ~write_in_progress /\ ~last_error => pending = <<>>

(* Before the handler has done anything, nothing has happened.              *)
Fresh ==
  text # <<>> =>
    /\ streamer = "none" /\ ~write_in_progress /\ pending = <<>>
    /\ received = Plain("nothing")

(* Before the subscription there is no callback.                            *)
Unsubscribed == streamer = "none" => ~subscribed /\ ros = <<>> /\ ~has_frame

(* The parts on the connection are in order.                                *)
InOrder ==
  ~last_error => \A i \in 1..Length(writing, pending) - 1 : Follows(Sent(i), Sent(i + 1))

(* What the handler has still to do goes on from what it has done.          *)
HandlerMay(latest, step) ==
  /\ step.what \in Writes => Follows(latest, step)
  /\ step.what \in Subscribing =>
       latest.what = IF kind \in Multipart THEN "boundary" ELSE "nothing"

HandlerScript ==
  /\ \A i \in 1..Len(io) :
       /\ io[i].what \in HandlerSteps
       /\ io[i].what = "boundary" => kind \in Multipart
       /\ io[i].what \in Subscribing => kind # "none"
  /\ \A i \in 1..Len(io) - 1 : Then(io[i], io[i + 1])

HandlerGoesOn ==
  /\ HandlerScript
  /\ io # <<>> => (io[1].what \in Writes \cup Subscribing <=> streamer = "none")
  /\ io # <<>> /\ ~last_error => HandlerMay(Latest, io[1])

CallbackSteps(k) ==
  IF k \in Multipart THEN {"part", "payload", "footer"}
  ELSE IF k = "video" THEN {"status", "headers", "preamble", "error", "chunk", "throw"}
  ELSE {"status", "headers", "payload", "finish"}

LastSteps(k) ==
  IF k \in Multipart THEN {"footer"}
  ELSE IF k = "video" THEN {"chunk", "throw"} ELSE {"finish"}

(* So does what the callback has still to do.                               *)
CallbackMay(latest, step) ==
  /\ step.what \in Writes => Follows(latest, step)
  /\ step.what = "finish" => latest.what = "payload"

CallbackScript ==
  /\ \A i \in 1..Len(ros) :
       /\ ros[i].what \in CallbackSteps(kind)
       /\ kind = "video" /\ restreaming => ros[i].what = "chunk"
  /\ \A i \in 1..Len(ros) - 1 : Then(ros[i], ros[i + 1]) /\ ~IsFooter(ros[i])
  /\ ros # <<>> => ros[Len(ros)].what \in LastSteps(kind)

CallbackGoesOn ==
  /\ CallbackScript
  /\ ros # <<>> /\ kind = "video" => has_frame
  /\ ros # <<>> /\ ~last_error => CallbackMay(Latest, ros[1])

(* Between two callbacks, the connection is where the next image goes on.   *)
Ready ==
  streamer # "none" /\ ros = <<>> /\ ~last_error =>
    /\ kind \in Multipart => Latest.what \in {"boundary", "footer"}
    /\ kind = "video" => Latest.what = IF has_frame THEN "chunk" ELSE "nothing"
    /\ kind \in {"jpeg", "png_snapshot"} => inactive \/ Latest.what = "nothing"
    /\ kind = "ros_snapshot" => Latest.what \in {"nothing", "payload"}

(* The queue counts every footer on the connection that has not expired,    *)
(* and has room for the one a callback has still to write.                  *)
Counted ==
  /\ ~last_error => expired + old <= MaxExpired
  /\ max_queue_size > 0 =>
       /\ footers + (IF kind \in Multipart /\ ros # <<>> THEN 1 ELSE 0) <= max_queue_size
       /\ ~last_error => Alive <= footers + expired

LineTypes ==
  /\ write_in_progress \in BOOLEAN /\ last_error \in BOOLEAN
  /\ writing \in Seq(Items(Writes)) /\ pending \in Seq(Items(Writes))
  /\ write_in_progress <=> writing # <<>>
  /\ received \in Items(Writes \cup {"nothing"})

RequestTypes ==
  text \in Requests \cup {<<>>} /\ arrived \in 0..Len(text) /\ client \in {"reading", "stalled", "gone"}

StreamTypes ==
  /\ kind \in Kinds /\ streamer \in {"none", "made", "listed", "erased"}
  /\ inactive \in BOOLEAN /\ subscribed \in BOOLEAN /\ image_sub \in BOOLEAN
  /\ frame \in {0, 1} /\ has_frame \in BOOLEAN

QueueTypes == footers \in Nat /\ old \in 0..footers /\ expired \in 0..MaxExpired

IoTypes == io \in Seq(Items(Writes \cup {"subscribe", "subscribe_unknown", "keep", "list"}))

RosTypes ==
  /\ ros \in Seq(Items(Writes \cup {"finish", "throw"}))
  /\ restreaming \in BOOLEAN /\ (restreaming => ros # <<>>)

Connection == LineTypes /\ Idle /\ InOrder
Handler == IoTypes /\ HandlerGoesOn
Callback == RosTypes /\ CallbackGoesOn
Queue == QueueTypes /\ Counted /\ QueueBounded

Invariant ==
  /\ RequestTypes /\ StreamTypes /\ Fresh /\ Unsubscribed
  /\ Connection /\ Handler /\ Callback /\ Ready /\ Queue

-----------------------------------------------------------------------------
(*                          Sequences and footers                           *)

(* A write adds to the end.                                                 *)
LEMMA Added ==
  ASSUME NEW S, NEW r \in S, NEW w \in Seq(S), NEW p \in Seq(S), NEW x \in S
  PROVE  /\ Length(w, p) \in Nat \ {0}
         /\ Length(w, Append(p, x)) = Length(w, p) + 1
         /\ Nth(r, w, Append(p, x), Length(w, p) + 1) = x
         /\ \A i \in 1..Length(w, p) : Nth(r, w, Append(p, x), i) = Nth(r, w, p, i)
<1>1. /\ Len(Append(p, x)) = Len(p) + 1 /\ Len(p) \in Nat /\ Len(w) \in Nat
      /\ \A i \in 1..Len(p) : Append(p, x)[i] = p[i]
      /\ Append(p, x)[Len(p) + 1] = x
  OBVIOUS
<1> QED
  BY <1>1 DEF Length, Nth

(* When nothing is in progress, a write begins one.                         *)
LEMMA Begun ==
  ASSUME NEW S, NEW r \in S, NEW x \in S
  PROVE  /\ Length(<<>>, <<>>) = 1 /\ Nth(r, <<>>, <<>>, 1) = r
         /\ Length(<<x>>, <<>>) = 2
         /\ Nth(r, <<x>>, <<>>, 1) = r /\ Nth(r, <<x>>, <<>>, 2) = x
BY DEF Length, Nth

(* When a write has completed, its last part is what the client has got     *)
(* last, and what was pending is written.                                   *)
LEMMA Shifted ==
  ASSUME NEW S, NEW r \in S, NEW w \in Seq(S), NEW p \in Seq(S), w # <<>>
  PROVE  /\ w[Len(w)] \in S /\ Len(w) \in Nat \ {0} /\ Len(p) \in Nat
         /\ Length(p, <<>>) = Length(w, p) - Len(w)
         /\ \A i \in 1..Length(p, <<>>) :
              Nth(w[Len(w)], p, <<>>, i) = Nth(r, w, p, i + Len(w))
<1>1. /\ Len(w) \in Nat \ {0} /\ Len(p) \in Nat /\ w[Len(w)] \in S /\ Len(<<>>) = 0
  OBVIOUS
<1> QED
  BY <1>1 DEF Length, Nth

(* The footers in a sequence.                                               *)
LEMMA FootersFacts ==
  ASSUME NEW S, NEW s \in Seq(S), NEW x \in S
  PROVE  /\ Footers(s) \in Nat /\ Footers(<<>>) = 0
         /\ Footers(Append(s, x)) = Footers(s) + (IF IsFooter(x) THEN 1 ELSE 0)
<1> DEFINE F(t) == {i \in DOMAIN t : IsFooter(t[i])}
           n == Len(s)
           t == Append(s, x)
<1>1. n \in Nat /\ DOMAIN s = 1..n /\ 1 \in Int /\ n \in Int
  OBVIOUS
<1>2. IsFiniteSet(1..n)
  BY <1>1, FS_Interval, Zenon
<1>3. IsFiniteSet(F(s))
  <2>1. F(s) \in SUBSET (1..n)
    BY <1>1
  <2> QED
    BY <1>2, <2>1, FS_Subset, Zenon
<1>4. Footers(s) = Cardinality(F(s)) /\ Footers(s) \in Nat
  BY <1>3, FS_CardinalityType, Zenon DEF Footers
<1>5. Footers(<<>>) = 0
  <2>1. {i \in DOMAIN <<>> : IsFooter(<<>>[i])} = {}
    OBVIOUS
  <2> QED
    BY <2>1, FS_EmptySet, Zenon DEF Footers
<1>6. /\ DOMAIN t = 1..n + 1 /\ t[n + 1] = x /\ \A i \in 1..n : t[i] = s[i]
  OBVIOUS
<1>7. F(t) = IF IsFooter(x) THEN F(s) \cup {n + 1} ELSE F(s)
  BY <1>1, <1>6
<1>8. n + 1 \notin F(s)
  BY <1>1
<1>9. Cardinality(F(s) \cup {n + 1}) = Cardinality(F(s)) + 1
  BY <1>3, <1>8, FS_AddElement, Zenon
<1>10. Footers(t) = Cardinality(F(t))
  BY DEF Footers
<1> HIDE DEF F, n, t
<1>11. Footers(t) = Footers(s) + (IF IsFooter(x) THEN 1 ELSE 0)
  BY <1>4, <1>7, <1>9, <1>10
<1> QED
  BY <1>4, <1>5, <1>11, Zenon DEF t

-----------------------------------------------------------------------------
(*                              The connection                              *)

LEMMA ItemFacts ==
  /\ Items(Writes) \subseteq Items(Writes \cup {"nothing"})
  /\ \A W : \A x \in Items(W) : x.what \in W /\ x.frame \in {0, 1}
  /\ \A w, n : Item(w, n).what = w /\ Item(w, n).frame = n
  /\ \A w : Plain(w).what = w /\ Plain(w).frame = 0
  /\ \A W : \A w \in W, n \in {0, 1} : Item(w, n) \in Items(W) /\ Plain(w) \in Items(W)
BY DEF Items, Item, Plain

(* What may follow what depends on the streamer's kind only.                *)
LEMMA FollowsKept ==
  ASSUME kind' = kind
  PROVE  /\ \A a, b : Follows(a, b)' <=> Follows(a, b)
         /\ \A a, b : Then(a, b)' <=> Then(a, b)
BY DEF Follows, Then

LEMMA LineKept ==
  ASSUME Connection, UNCHANGED <<received, write_in_progress, last_error, writing, pending, kind>>
  PROVE  Connection' /\ Latest' = Latest /\ Alive' = Alive
<1>1. LineTypes'
  BY DEF Connection, LineTypes
<1>2. Idle'
  BY DEF Connection, Idle
<1>3. Length(writing, pending)' = Length(writing, pending) /\ \A i : Sent(i)' = Sent(i)
  BY DEF Length, Sent, Nth
<1>4. InOrder'
  BY <1>3, FollowsKept DEF Connection, InOrder
<1>5. Latest' = Latest
  BY DEF Latest, Sent, Nth, Length
<1>6. Alive' = Alive
  BY DEF Alive, Footers
<1> QED
  BY <1>1, <1>2, <1>4, <1>5, <1>6 DEF Connection

(* One thing more on the connection, which may follow the latest.           *)
LEMMA Grown ==
  ASSUME InOrder, ~last_error, NEW x, Follows(Latest, x), kind' = kind,
         NEW n \in Nat \ {0}, Length(writing, pending) = n,
         Length(writing, pending)' = n + 1,
         Sent(n + 1)' = x, \A i \in 1..n : Sent(i)' = Sent(i)
  PROVE  InOrder' /\ Latest' = x
<1>1. Latest = Sent(n) /\ Latest' = x
  BY DEF Latest
<1>2. \A i \in 1..n - 1 : Follows(Sent(i), Sent(i + 1))
  BY DEF InOrder
<1>3. ASSUME NEW i \in 1..n PROVE Follows(Sent(i), Sent(i + 1))'
  <2>1. PICK a, b : a = Sent(i) /\ b = Sent(i + 1)'
    OBVIOUS
  <2>2. Follows(a, b)
    <3>1. CASE i = n
      BY <1>1, <2>1, <3>1
    <3>2. CASE i # n
      <4>1. i \in 1..n - 1 /\ i + 1 \in 1..n
        BY <3>2
      <4> QED
        BY <1>2, <2>1, <4>1
    <3> QED
      BY <3>1, <3>2
  <2>3. Follows(a, b)'
    BY <2>2, FollowsKept
  <2>4. a = Sent(i)' /\ b = Sent(i + 1)'
    BY <2>1
  <2> QED
    BY <2>3, <2>4 DEF Follows
<1>4. InOrder'
  BY <1>3 DEF InOrder
<1> QED
  BY <1>1, <1>4

(* A write of what may come next keeps the order.                           *)
LEMMA WriteStep ==
  ASSUME Connection, ~last_error, NEW x \in Items(Writes), Follows(Latest, x), write(x),
         received' = received, kind' = kind
  PROVE  /\ Connection' /\ last_error' = FALSE /\ write_in_progress' = TRUE
         /\ Latest' = x
         /\ Alive' = Alive + (IF IsFooter(x) THEN 1 ELSE 0)
<1> DEFINE I == Items(Writes \cup {"nothing"})
           W == Items(Writes)
<1>t. LineTypes /\ Idle /\ InOrder
  BY DEF Connection
<1>i. /\ received \in I /\ writing \in Seq(I) /\ pending \in Seq(I) /\ x \in I
      /\ writing \in Seq(W) /\ pending \in Seq(W) /\ x \in W
  BY <1>t, ItemFacts, SeqMonotonic DEF LineTypes
<1>e. last_error' = FALSE
  BY <1>t DEF write, LineTypes
<1>a. /\ Append(pending, x) \in Seq(W) /\ <<x>> \in Seq(W) /\ <<>> \in Seq(W)
      /\ <<x>> # <<>> /\ Append(<<>>, x) = <<x>>
  <2>1. Append(<<>>, x) = <<x>> /\ <<x>> # <<>> /\ <<x>> \in Seq(W) /\ <<>> \in Seq(W)
    OBVIOUS
  <2> QED
    BY <1>i, <2>1
<1>f. /\ \A p \in Seq(W) : Footers(p) \in Nat
      /\ Footers(Append(pending, x)) = Footers(pending) + (IF IsFooter(x) THEN 1 ELSE 0)
      /\ Footers(<<>>) = 0
      /\ Footers(<<x>>) = Footers(<<>>) + (IF IsFooter(x) THEN 1 ELSE 0)
  <2>1. \A p \in Seq(W) : Footers(p) \in Nat /\ Footers(<<>>) = 0
                          /\ Footers(Append(p, x)) = Footers(p) + (IF IsFooter(x) THEN 1 ELSE 0)
    BY <1>i, FootersFacts
  <2> QED
    BY <1>a, <1>i, <2>1
<1>n. PICK n \in Nat \ {0} : Length(writing, pending) = n
  <2>1. Length(writing, pending) \in Nat \ {0}
    BY <1>i DEF Length
  <2> QED
    BY <2>1
<1> HIDE DEF I, W
<1>1. CASE write_in_progress
  <2>1. /\ pending' = Append(pending, x) /\ writing' = writing /\ write_in_progress' = TRUE
        /\ received' = received
    BY <1>1, <1>t DEF write, LineTypes
  <2>2. LineTypes'
    <3>1. pending' \in Seq(W) /\ writing' \in Seq(W) /\ received' \in I
      BY <1>a, <1>i, <2>1
    <3>2. write_in_progress' <=> writing' # <<>>
      BY <1>1, <1>t, <2>1, Zenon DEF LineTypes
    <3> QED
      BY <1>e, <2>1, <3>1, <3>2, Zenon DEF LineTypes, W, I
  <2>3. Idle'
    BY <1>e, <2>1 DEF Idle
  <2>4. /\ Length(writing, Append(pending, x)) = n + 1
        /\ Nth(received, writing, Append(pending, x), n + 1) = x
        /\ \A i \in 1..n : Nth(received, writing, Append(pending, x), i) = Nth(received, writing, pending, i)
    BY <1>i, <1>n, Added
  <2>5. Length(writing, pending)' = Length(writing, Append(pending, x))
    BY <2>1 DEF Length
  <2>6. \A i : Sent(i)' = Nth(received, writing, Append(pending, x), i)
    BY <2>1 DEF Sent, Nth
  <2>7. /\ Length(writing, pending)' = n + 1 /\ Sent(n + 1)' = x
        /\ \A i \in 1..n : Sent(i)' = Sent(i)
    BY <2>4, <2>5, <2>6 DEF Sent
  <2>8. InOrder' /\ Latest' = x
    BY <1>n, <1>t, <2>7, Grown
  <2>9. Alive' = Footers(writing) + Footers(Append(pending, x))
    BY <2>1 DEF Alive, Footers
  <2>10. Alive' = Alive + (IF IsFooter(x) THEN 1 ELSE 0)
    BY <1>f, <1>i, <2>9 DEF Alive
  <2> QED
    BY <1>e, <2>1, <2>2, <2>3, <2>8, <2>10 DEF Connection
<1>2. CASE ~write_in_progress
  <2>1. /\ writing = <<>> /\ pending = <<>>
    BY <1>2, <1>t DEF Idle, LineTypes
  <2>2. /\ pending' = <<>> /\ writing' = <<x>> /\ write_in_progress' = TRUE
        /\ received' = received
    BY <1>2, <1>a, <2>1 DEF write, write_pending
  <2>3. LineTypes'
    <3>1. pending' \in Seq(W) /\ writing' \in Seq(W) /\ received' \in I
      BY <1>a, <1>i, <2>2
    <3>2. write_in_progress' <=> writing' # <<>>
      BY <1>a, <2>2, Zenon
    <3> QED
      BY <1>e, <2>2, <3>1, <3>2, Zenon DEF LineTypes, W, I
  <2>4. Idle'
    BY <1>e, <2>2 DEF Idle
  <2>5. n = 1 /\ Length(writing, pending)' = 2
    BY <1>i, <1>n, <2>1, <2>2, Begun DEF Length
  <2>6. \A i : Sent(i)' = Nth(received, <<x>>, <<>>, i) /\ Sent(i) = Nth(received, <<>>, <<>>, i)
    BY <2>1, <2>2 DEF Sent, Nth
  <2>7. Sent(n + 1)' = x /\ \A i \in 1..n : Sent(i)' = Sent(i)
    BY <1>i, <2>5, <2>6, Begun
  <2>8. InOrder' /\ Latest' = x
    BY <1>n, <1>t, <2>5, <2>7, Grown
  <2>9. Alive' = Footers(<<x>>) + Footers(<<>>) /\ Alive = Footers(<<>>) + Footers(<<>>)
    BY <2>1, <2>2 DEF Alive, Footers
  <2>10. Alive' = Alive + (IF IsFooter(x) THEN 1 ELSE 0)
    BY <1>f, <2>9
  <2> QED
    BY <1>e, <2>2, <2>3, <2>4, <2>8, <2>10 DEF Connection
<1> QED
  BY <1>1, <1>2

(* After an error, nothing is written any more.                             *)
LEMMA WriteAfterError ==
  ASSUME Connection, last_error, NEW x, write(x)
  PROVE  /\ Throws
         /\ UNCHANGED <<write_in_progress, last_error, writing, pending>>
BY DEF Connection, Idle, write, write_pending, Throws

(* The end of a write takes nothing from the order.                         *)
LEMMA WrittenStep ==
  ASSUME Connection, Written
  PROVE  /\ Connection' /\ last_error' = last_error /\ Latest' = Latest
         /\ Alive' <= Alive
<1> DEFINE I == Items(Writes \cup {"nothing"})
           W == Items(Writes)
<1>t. LineTypes /\ Idle /\ InOrder
  BY DEF Connection
<1>i. /\ received \in I /\ writing \in Seq(I) /\ pending \in Seq(I)
      /\ writing \in Seq(W) /\ pending \in Seq(W) /\ W \subseteq I /\ <<>> \in Seq(W)
  <2>1. received \in I /\ writing \in Seq(W) /\ pending \in Seq(W) /\ W \subseteq I
    BY <1>t, ItemFacts DEF LineTypes
  <2>2. writing \in Seq(I) /\ pending \in Seq(I)
    BY <2>1, SeqMonotonic
  <2>3. <<>> \in Seq(W)
    OBVIOUS
  <2> QED
    BY <2>1, <2>2, <2>3, Zenon
<1>1. /\ write_in_progress /\ writing # <<>> /\ last_error = FALSE
      /\ received' = writing[Len(writing)] /\ writing' = pending /\ pending' = <<>>
      /\ last_error' = last_error /\ kind' = kind
      /\ write_in_progress' = (pending # <<>>)
  <2>1. write_in_progress /\ last_error = FALSE /\ writing # <<>>
    BY <1>t DEF Written, Idle, LineTypes
  <2>2. CASE pending # <<>>
    BY <2>1, <2>2 DEF Written, write_pending, stream
  <2>3. CASE pending = <<>>
    BY <2>1, <2>3 DEF Written, stream
  <2> QED
    BY <2>2, <2>3
<1>f. /\ \A p \in Seq(W) : Footers(p) \in Nat
      /\ Footers(<<>>) = 0
  <2>1. \A p \in Seq(W) : \A x \in W : Footers(p) \in Nat /\ Footers(<<>>) = 0
    BY FootersFacts
  <2>2. writing[1] \in W
    BY <1>1, <1>i
  <2> QED
    BY <1>i, <2>1, <2>2
<1>l. writing[Len(writing)] \in W
  BY <1>1, <1>i
<1> HIDE DEF I, W
<1>2. LineTypes'
  <2>1. received' \in I /\ writing' \in Seq(W) /\ pending' \in Seq(W)
    BY <1>1, <1>i, <1>l
  <2>2. write_in_progress' <=> writing' # <<>>
    BY <1>1, Zenon
  <2>3. write_in_progress' \in BOOLEAN /\ last_error' \in BOOLEAN
    BY <1>1
  <2> QED
    BY <2>1, <2>2, <2>3, Zenon DEF LineTypes, W, I
<1>3. Idle'
  BY <1>1 DEF Idle
<1>n. PICK n \in Nat \ {0}, k \in Nat \ {0} : n = Length(writing, pending) /\ k = Len(writing)
  BY <1>1, <1>i DEF Length
<1>p. PICK m \in Nat \ {0} : m = Length(pending, <<>>)
  BY <1>i DEF Length
<1>4. /\ m = n - k
      /\ \A i \in 1..m : Nth(writing[Len(writing)], pending, <<>>, i) = Nth(received, writing, pending, i + k)
  BY <1>1, <1>i, <1>n, <1>p, Shifted
<1>5. Length(writing, pending)' = m
  BY <1>1, <1>p DEF Length
<1>6. \A i : Sent(i)' = Nth(writing[Len(writing)], pending, <<>>, i)
  BY <1>1 DEF Sent, Nth
<1>7. \A i \in 1..m : Sent(i)' = Sent(i + k)
  BY <1>4, <1>6 DEF Sent
<1>8. Latest' = Latest
  <2>1. Latest' = Nth(writing[Len(writing)], pending, <<>>, Length(pending, <<>>))
    BY <1>1 DEF Latest, Sent, Nth, Length
  <2>2. Latest' = Sent(m)'
    BY <1>6, <1>p, <2>1
  <2>3. Latest = Sent(n) /\ m + k = n /\ m \in 1..m
    BY <1>4, <1>n DEF Latest
  <2> QED
    BY <1>7, <2>2, <2>3
<1>9. InOrder'
  <2>1. \A i \in 1..n - 1 : Follows(Sent(i), Sent(i + 1))
    BY <1>1, <1>n, <1>t DEF InOrder
  <2>2. ASSUME NEW i \in 1..m - 1 PROVE Follows(Sent(i), Sent(i + 1))'
    <3>1. PICK a, b : a = Sent(i)' /\ b = Sent(i + 1)'
      OBVIOUS
    <3>2. /\ i + k \in 1..n - 1 /\ i \in 1..m /\ i + 1 \in 1..m /\ (i + 1) + k = (i + k) + 1
      BY <1>4
    <3>3. a = Sent(i + k) /\ b = Sent((i + k) + 1)
      BY <1>7, <3>1, <3>2
    <3>4. Follows(a, b)'
      BY <1>1, <2>1, <3>2, <3>3, FollowsKept
    <3> QED
      BY <3>1, <3>4 DEF Follows
  <2> QED
    BY <1>5, <2>2 DEF InOrder
<1>10. Alive' <= Alive
  <2>1. Alive' = Footers(pending) + Footers(<<>>)
    BY <1>1 DEF Alive, Footers
  <2> QED
    BY <1>f, <1>i, <2>1 DEF Alive
<1> QED
  BY <1>1, <1>2, <1>3, <1>8, <1>9, <1>10 DEF Connection

(* A write that fails, and the end of the connection or the process: after  *)
(* that, there is no order to keep.                                         *)
LEMMA ErrorStep ==
  ASSUME Connection, last_error' = TRUE, write_in_progress' = FALSE, writing' = <<>>,
         pending' = pending, received' = received
  PROVE  Connection' /\ Alive' <= Alive
<1> DEFINE W == Items(Writes)
<1>1. writing \in Seq(W) /\ pending \in Seq(W) /\ LineTypes /\ <<>> \in Seq(W)
  BY DEF Connection, LineTypes
<1>2. LineTypes'
  BY <1>1 DEF LineTypes
<1>3. Idle' /\ InOrder'
  BY DEF Idle, InOrder
<1>4. Footers(writing) \in Nat /\ Footers(pending) \in Nat /\ Footers(<<>>) = 0
  <2>1. Item("status", 0) \in W
    BY ItemFacts DEF Writes
  <2> QED
    BY <1>1, <2>1, FootersFacts
<1>5. Alive' = Footers(<<>>) + Footers(pending)
  BY DEF Alive, Footers
<1> QED
  BY <1>2, <1>3, <1>4, <1>5 DEF Connection, Alive

-----------------------------------------------------------------------------
(*                               The handler                                *)

(* The type invariant is the types of the parts.                            *)
LEMMA TypesOfParts ==
  Invariant => TypeOK
BY DEF Invariant, TypeOK, RequestTypes, StreamTypes, Connection, Handler, Callback, Queue,
       LineTypes, IoTypes, RosTypes, QueueTypes

(* What may come next depends on the kind only.                             *)
LEMMA MayKept ==
  ASSUME kind' = kind
  PROVE  \A l, x : (HandlerMay(l, x)' <=> HandlerMay(l, x)) /\ (CallbackMay(l, x)' <=> CallbackMay(l, x))
BY FollowsKept DEF HandlerMay, CallbackMay

LEMMA HandlerKept ==
  ASSUME Handler, UNCHANGED <<io, kind>>, streamer = "none" <=> streamer' = "none",
         ~last_error' => ~last_error /\ Latest' = Latest
  PROVE  Handler'
<1>1. IoTypes'
  BY DEF Handler, IoTypes
<1>2. HandlerScript'
  BY FollowsKept DEF Handler, HandlerGoesOn, HandlerScript
<1>3. ASSUME io' # <<>>, ~last_error'
      PROVE  HandlerMay(Latest, io[1])'
  <2>1. PICK l, x : l = Latest /\ x = io[1]
    OBVIOUS
  <2>2. HandlerMay(l, x)
    BY <1>3, <2>1 DEF Handler, HandlerGoesOn
  <2>3. l = Latest' /\ x = io'[1]
    BY <1>3, <2>1
  <2>4. HandlerMay(l, x)'
    BY <2>2, MayKept
  <2> QED
    BY <2>3, <2>4 DEF HandlerMay, Follows
<1>4. (io # <<>> => (io[1].what \in Writes \cup Subscribing <=> streamer = "none"))'
  BY DEF Handler, HandlerGoesOn
<1> QED
  BY <1>1, <1>2, <1>3, <1>4 DEF Handler, HandlerGoesOn

(* One step less: the next one follows the one that was made.               *)
LEMMA HandlerAdvances ==
  ASSUME Handler, io # <<>>, io' = Tail(io), kind' = kind
  PROVE  /\ IoTypes' /\ HandlerScript'
         /\ io[1].what \in HandlerSteps
         /\ io' # <<>> => Then(io[1], io'[1]) /\ io'[1].what \in HandlerSteps
         /\ \A i \in 1..Len(io') : io'[i] = io[i + 1]
<1> DEFINE S == Items(Writes \cup {"subscribe", "subscribe_unknown", "keep", "list"})
<1>1. /\ io \in Seq(S) /\ HandlerScript
  BY DEF Handler, HandlerGoesOn, IoTypes
<1> HIDE DEF S
<1>2. /\ io' \in Seq(S) /\ Len(io') = Len(io) - 1 /\ Len(io) \in Nat \ {0}
      /\ \A i \in 1..Len(io') : io'[i] = io[i + 1]
  BY <1>1, HeadTailProperties
<1>3. IoTypes'
  BY <1>2 DEF IoTypes, S
<1>4. \A i \in 1..Len(io') : i + 1 \in 1..Len(io) /\ io'[i] = io[i + 1]
  BY <1>2
<1>5. \A i \in 1..Len(io') - 1 : i + 1 \in 1..Len(io) - 1 /\ io'[i] = io[i + 1] /\ io'[i + 1] = io[(i + 1) + 1]
  BY <1>2
<1>6. ASSUME NEW i \in 1..Len(io') - 1 PROVE Then(io[i], io[i + 1])'
  <2>1. PICK a, b : a = io'[i] /\ b = io'[i + 1]
    OBVIOUS
  <2>2. Then(a, b)
    BY <1>1, <1>5, <2>1 DEF HandlerScript
  <2>3. Then(a, b)'
    BY <2>2, FollowsKept
  <2> QED
    BY <2>1, <2>3 DEF Then, Follows
<1>7. HandlerScript'
  <2>1. \A i \in 1..Len(io') : /\ io'[i].what \in HandlerSteps
                               /\ io'[i].what = "boundary" => kind \in Multipart
                               /\ io'[i].what \in Subscribing => kind # "none"
    BY <1>1, <1>4 DEF HandlerScript
  <2> QED
    BY <1>6, <2>1 DEF HandlerScript
<1>8. io[1].what \in HandlerSteps
  BY <1>1, <1>2 DEF HandlerScript
<1>9. io' # <<>> => Then(io[1], io'[1]) /\ io'[1].what \in HandlerSteps
  <2>1. SUFFICES ASSUME io' # <<>> PROVE Then(io[1], io'[1]) /\ io'[1].what \in HandlerSteps
    OBVIOUS
  <2>2. Len(io') # 0
    BY <1>2, <2>1, EmptySeq
  <2>3. 1 \in 1..Len(io) - 1 /\ io'[1] = io[1 + 1] /\ 1 + 1 \in 1..Len(io)
    BY <1>2, <2>2
  <2> QED
    BY <1>1, <2>3 DEF HandlerScript
<1> QED
  BY <1>2, <1>3, <1>7, <1>8, <1>9

(* Without a callback there is nothing to go on with.                       *)
LEMMA CallbackEnds ==
  ASSUME ros' = <<>>, restreaming' = FALSE
  PROVE  Callback'
<1> DEFINE S == Items(Writes \cup {"finish", "throw"})
<1>0. <<>> \in Seq(S)
  OBVIOUS
<1> HIDE DEF S
<1>1. RosTypes'
  BY <1>0 DEF RosTypes, S
<1>2. CallbackScript'
  BY DEF CallbackScript
<1> QED
  BY <1>1, <1>2 DEF Callback, CallbackGoesOn

LEMMA CallbackKept ==
  ASSUME Callback, UNCHANGED <<ros, restreaming, kind>>,
         kind = "video" /\ has_frame => has_frame',
         ~last_error' => ~last_error /\ Latest' = Latest
  PROVE  Callback'
<1>1. RosTypes'
  BY DEF Callback, RosTypes
<1>2. CallbackScript'
  BY FollowsKept DEF Callback, CallbackGoesOn, CallbackScript, IsFooter
<1>3. ASSUME ros' # <<>>, ~last_error'
      PROVE  CallbackMay(Latest, ros[1])'
  <2>1. PICK l, x : l = Latest /\ x = ros[1]
    OBVIOUS
  <2>2. CallbackMay(l, x)
    BY <1>3, <2>1 DEF Callback, CallbackGoesOn
  <2>3. l = Latest' /\ x = ros'[1]
    BY <1>3, <2>1
  <2>4. CallbackMay(l, x)'
    BY <2>2, MayKept
  <2> QED
    BY <2>3, <2>4 DEF CallbackMay, Follows
<1>4. ros' # <<>> /\ kind' = "video" => has_frame'
  BY DEF Callback, CallbackGoesOn
<1> QED
  BY <1>1, <1>2, <1>3, <1>4 DEF Callback, CallbackGoesOn

LEMMA ReadyKept ==
  ASSUME Ready, UNCHANGED <<ros, kind>>, kind = "video" => has_frame' = has_frame,
         inactive => inactive',
         streamer = "none" => streamer' = "none",
         ~last_error' => ~last_error /\ Latest' = Latest
  PROVE  Ready'
BY DEF Ready

LEMMA AliveNat ==
  ASSUME Connection
  PROVE  Alive \in Nat
<1> DEFINE W == Items(Writes)
<1>1. writing \in Seq(W) /\ pending \in Seq(W)
  BY DEF Connection, LineTypes
<1>2. Item("status", 0) \in W
  BY ItemFacts DEF Writes
<1> QED
  BY <1>1, <1>2, FootersFacts DEF Alive

(* What is alive may become less, as long as nothing else changes.          *)
LEMMA QueueKept ==
  ASSUME Queue, Connection, Connection', UNCHANGED <<footers, expired>>, old' \in 0..old,
         kind' \in Multipart /\ ros' # <<>> => kind \in Multipart /\ ros # <<>>,
         Alive' <= Alive, last_error => last_error'
  PROVE  Queue'
<1>1. Alive \in Nat /\ Alive' \in Nat
  <2>1. Connection => Alive \in Nat
    BY AliveNat
  <2>2. (Connection => Alive \in Nat)'
    BY <2>1, AliveNat, PTL
  <2> QED
    BY <2>1, <2>2
<1>2. QueueTypes'
  BY DEF Queue, QueueTypes
<1>3. max_queue_size \in Nat /\ MaxExpired \in Nat
  BY StreamAssumption
<1>4. QueueBounded'
  BY <1>1, <1>3 DEF Queue, QueueBounded, QueueTypes
<1>5. Counted'
  <2>1. ~last_error' => expired' + old' <= MaxExpired
    <3>1. SUFFICES ASSUME ~last_error' PROVE expired' + old' <= MaxExpired
      OBVIOUS
    <3>2. expired + old <= MaxExpired
      BY <3>1 DEF Queue, Counted
    <3>3. old \in 0..footers /\ footers \in Nat /\ expired \in 0..MaxExpired
      BY Zenon DEF Queue, QueueTypes
    <3>4. expired' = expired /\ old' \in 0..old
      OBVIOUS
    <3>5. PICK o \in Nat, p \in Nat : o = old /\ p = old' /\ p <= o
      BY <3>3, <3>4
    <3>6. expired + o <= MaxExpired /\ expired \in Nat /\ p <= o
      BY <3>2, <3>3, <3>5
    <3>7. expired + p <= MaxExpired
      BY <1>3, <3>6
    <3> QED
      BY <3>4, <3>5, <3>7
  <2>2. max_queue_size > 0 /\ ~last_error' => Alive' <= footers' + expired'
    <3>1. SUFFICES ASSUME max_queue_size > 0, ~last_error' PROVE Alive' <= footers' + expired'
      OBVIOUS
    <3>2. Alive <= footers + expired
      BY <3>1 DEF Queue, Counted
    <3> QED
      BY <1>1, <1>3, <3>2 DEF Queue, QueueTypes
  <2>3. max_queue_size > 0 =>
          footers' + (IF kind' \in Multipart /\ ros' # <<>> THEN 1 ELSE 0) <= max_queue_size
    <3>1. SUFFICES ASSUME max_queue_size > 0
          PROVE footers' + (IF kind' \in Multipart /\ ros' # <<>> THEN 1 ELSE 0) <= max_queue_size
      OBVIOUS
    <3>2. footers + (IF kind \in Multipart /\ ros # <<>> THEN 1 ELSE 0) <= max_queue_size
      BY <3>1 DEF Queue, Counted
    <3> QED
      BY <1>3, <3>2 DEF Queue, QueueTypes
  <2> QED
    BY <2>1, <2>2, <2>3, Zenon DEF Counted
<1> QED
  BY <1>2, <1>4, <1>5 DEF Queue

(* After an error a line that is left alone stays as it is, whatever else   *)
(* changes.                                                                 *)
LEMMA ErrorKept ==
  ASSUME Connection, last_error, UNCHANGED <<write_in_progress, last_error, writing, pending, received>>
  PROVE  Connection' /\ Alive' = Alive
<1>1. LineTypes'
  BY DEF Connection, LineTypes
<1>2. Idle' /\ InOrder'
  BY DEF Connection, Idle, InOrder
<1> QED
  BY <1>1, <1>2 DEF Connection, Alive, Footers

(* A write of the handler's.                                                *)
LEMMA HandlerWritesStep ==
  ASSUME Invariant, HandlerWrites
  PROVE  Invariant'
<1>1. /\ io # <<>> /\ Head(io).what \in Writes /\ write(Head(io))
      /\ text' = <<>> /\ arrived' = 0
      /\ UNCHANGED <<client, ros, restreaming, footers, old, frame, has_frame, received, expired>>
      /\ io' = IF Throws THEN <<>> ELSE Tail(io)
      /\ kind' = IF Throws THEN "none" ELSE kind
      /\ UNCHANGED <<streamer, inactive, subscribed, image_sub>>
  BY DEF HandlerWrites, HandlerDoes, callback
<1>2. /\ Connection /\ Handler /\ Callback /\ Queue /\ Unsubscribed /\ StreamTypes /\ RequestTypes
  BY DEF Invariant
<1>3. PICK x : x = Head(io)
  OBVIOUS
<1>4. /\ x = io[1] /\ x \in Items(Writes \cup {"subscribe", "subscribe_unknown", "keep", "list"})
      /\ x \in Items(Writes) /\ ~IsFooter(x)
  <2>1. io \in Seq(Items(Writes \cup {"subscribe", "subscribe_unknown", "keep", "list"}))
    BY <1>2 DEF Handler, IoTypes
  <2>2. Head(io) = io[1] /\ 1 \in 1..Len(io)
    BY <1>1, <2>1
  <2>3. x \in Items(Writes \cup {"subscribe", "subscribe_unknown", "keep", "list"})
    BY <1>1, <1>3, <2>1, <2>2
  <2>4. x.what \in Writes /\ x.what \in HandlerSteps
    BY <1>1, <1>2, <1>3, <2>2 DEF Handler, HandlerGoesOn, HandlerScript
  <2> QED
    BY <1>3, <2>2, <2>3, <2>4 DEF Items, IsFooter, HandlerSteps, Subscribing
<1>5. streamer = "none" /\ ros = <<>> /\ ~subscribed /\ ~has_frame
  BY <1>1, <1>2, <1>3, <1>4 DEF Handler, HandlerGoesOn, Unsubscribed
<1>6. RequestTypes' /\ StreamTypes' /\ Fresh' /\ Unsubscribed' /\ Callback' /\ Ready'
  <2>1. RequestTypes'
    BY <1>1, <1>2 DEF RequestTypes
  <2>2. StreamTypes'
    BY <1>1, <1>2 DEF StreamTypes, Kinds
  <2>3. Fresh' /\ Ready'
    BY <1>1, <1>5 DEF Fresh, Ready
  <2>4. Unsubscribed'
    BY <1>1, <1>5 DEF Unsubscribed
  <2>5. restreaming' = FALSE
    BY <1>1, <1>2, <1>5 DEF Callback, RosTypes
  <2> QED
    BY <1>1, <1>5, <2>1, <2>2, <2>3, <2>4, <2>5, CallbackEnds
<1>7. CASE ~last_error
  <2>1. io' = Tail(io) /\ kind' = kind
    BY <1>1, <1>7 DEF Throws
  <2>2. /\ Connection' /\ last_error' = FALSE /\ write_in_progress' = TRUE
        /\ Latest' = x /\ Alive' = Alive + 0
    <3>1. Follows(Latest, x)
      BY <1>1, <1>2, <1>3, <1>4, <1>7 DEF Handler, HandlerGoesOn, HandlerMay
    <3> QED
      BY <1>1, <1>2, <1>3, <1>4, <1>7, <2>1, <3>1, WriteStep
  <2>3. Handler'
    <3>1. /\ IoTypes' /\ HandlerScript'
          /\ io' # <<>> => Then(x, io'[1]) /\ io'[1].what \in HandlerSteps
      BY <1>1, <1>2, <1>4, <2>1, HandlerAdvances
    <3>2. x.what = "boundary" => kind \in Multipart
      <4>1. 1 \in 1..Len(io)
        BY <1>1, <1>2 DEF Handler, IoTypes
      <4> QED
        BY <1>2, <1>4, <4>1 DEF Handler, HandlerGoesOn, HandlerScript
    <3>3. ASSUME io' # <<>>
          PROVE  HandlerMay(Latest, io[1])'
      <4>1. PICK y : y = io'[1]
        OBVIOUS
      <4>2. Then(x, y) /\ x.what \in Writes
        BY <1>1, <1>3, <3>1, <3>3, <4>1
      <4>3. y.what \in Writes => Follows(x, y)
        BY <4>2 DEF Then, Writes, Subscribing
      <4>4. y.what \in Subscribing => x.what = "boundary"
        BY <4>2 DEF Then, Writes, Subscribing, Follows
      <4>5. HandlerMay(x, y)
        BY <3>2, <4>3, <4>4 DEF HandlerMay
      <4>6. HandlerMay(x, y)'
        BY <2>1, <4>5, MayKept
      <4> QED
        BY <2>2, <4>1, <4>6 DEF HandlerMay, Follows
    <3>4. (io # <<>> => (io[1].what \in Writes \cup Subscribing <=> streamer = "none"))'
      <4>1. streamer' = "none"
        BY <1>1, <1>5
      <4>2. io' # <<>> => io'[1].what \in Writes \cup Subscribing
        BY <1>1, <1>3, <3>1 DEF Then, Follows, HandlerSteps, Writes, Subscribing
      <4> QED
        BY <4>1, <4>2
    <3> QED
      BY <3>1, <3>3, <3>4 DEF Handler, HandlerGoesOn
  <2>4. Queue'
    <3>1. Alive' <= Alive
      BY <1>2, <2>2, AliveNat
    <3>2. old' \in 0..old
      BY <1>1, <1>2 DEF Queue, QueueTypes
    <3> QED
      BY <1>1, <1>2, <1>5, <1>7, <2>2, <3>1, <3>2, QueueKept
  <2> QED
    BY <1>6, <2>2, <2>3, <2>4 DEF Invariant
<1>8. CASE last_error
  <2>1. Throws /\ UNCHANGED <<write_in_progress, last_error, writing, pending>>
    BY <1>1, <1>2, <1>8, WriteAfterError
  <2>2. Connection' /\ Alive' = Alive
    BY <1>1, <1>2, <1>8, <2>1, ErrorKept
  <2>3. Handler'
    <3>1. io' = <<>>
      BY <1>1, <2>1
    <3> QED
      BY <3>1 DEF Handler, IoTypes, HandlerGoesOn, HandlerScript
  <2>4. Queue'
    <3>1. Alive' <= Alive
      BY <1>2, <2>2, AliveNat
    <3>2. old' \in 0..old
      BY <1>1, <1>2 DEF Queue, QueueTypes
    <3> QED
      BY <1>1, <1>2, <1>5, <1>8, <2>1, <2>2, <3>1, <3>2, QueueKept
  <2> QED
    BY <1>6, <2>2, <2>3, <2>4 DEF Invariant
<1> QED
  BY <1>7, <1>8

(* Steps that leave the connection, the handler and the callback alone.     *)
LEMMA QuietStep ==
  ASSUME Invariant,
         UNCHANGED <<text, arrived, io, ros, restreaming, kind, footers, old,
                     write_in_progress, last_error, writing, pending, received, expired>>,
         has_frame' => has_frame, kind = "video" => has_frame' = has_frame,
         client' \in {"reading", "stalled", "gone"}, StreamTypes', inactive => inactive',
         streamer = "none" <=> streamer' = "none", subscribed' => subscribed
  PROVE  Invariant'
<1>1. /\ Connection /\ Handler /\ Callback /\ Queue /\ Unsubscribed /\ Fresh /\ Ready
      /\ RequestTypes
  BY DEF Invariant
<1>2. Connection' /\ Latest' = Latest /\ Alive' = Alive
  BY <1>1, LineKept
<1>3. Handler'
  BY <1>1, <1>2, HandlerKept
<1>4. Callback'
  BY <1>1, <1>2, CallbackKept
<1>5. Ready'
  BY <1>1, <1>2, ReadyKept
<1>6. Queue'
  <2>1. Alive' <= Alive
    BY <1>1, <1>2, AliveNat
  <2>2. old' \in 0..old
    BY <1>1 DEF Queue, QueueTypes
  <2> QED
    BY <1>1, <1>2, <2>1, <2>2, QueueKept
<1>7. RequestTypes' /\ Fresh' /\ Unsubscribed'
  BY <1>1 DEF RequestTypes, Fresh, Unsubscribed
<1> QED
  BY <1>2, <1>3, <1>4, <1>5, <1>6, <1>7 DEF Invariant

(* A bad image, the client's stalling and leaving, and the removal of an    *)
(* inactive streamer.                                                       *)
LEMMA QuietSteps ==
  ASSUME Invariant, BadImage \/ cleanup_inactive_streams \/ ClientStalls \/ ClientLeaves
  PROVE  Invariant'
<1>1. StreamTypes /\ RequestTypes
  BY DEF Invariant
<1>2. CASE BadImage
  <2>1. StreamTypes'
    <3>1. inactive' \in BOOLEAN
      BY <1>2 DEF BadImage
    <3>2. UNCHANGED <<kind, streamer, subscribed, image_sub, frame>> /\ has_frame' \in BOOLEAN
      BY <1>2 DEF BadImage
    <3> QED
      BY <1>1, <3>1, <3>2 DEF StreamTypes
  <2>2. /\ inactive => inactive'
        /\ has_frame' => has_frame
        /\ kind = "video" => has_frame' = has_frame
    BY <1>1, <1>2 DEF BadImage, StreamTypes
  <2> QED
    BY <1>1, <1>2, <2>1, <2>2, QuietStep DEF BadImage, request, callback, line, RequestTypes
<1>3. CASE cleanup_inactive_streams
  <2>1. StreamTypes' /\ streamer # "none" /\ streamer' # "none" /\ subscribed' = FALSE
    BY <1>1, <1>3 DEF cleanup_inactive_streams, StreamTypes
  <2> QED
    BY <1>1, <1>3, <2>1, QuietStep DEF cleanup_inactive_streams, request, callback, line, RequestTypes
<1>4. CASE ClientStalls
  <2>1. client' \in {"reading", "stalled", "gone"}
    BY <1>4 DEF ClientStalls
  <2>2. StreamTypes'
    BY <1>1, <1>4 DEF ClientStalls, StreamTypes, stream
  <2> QED
    BY <1>4, <2>1, <2>2, QuietStep DEF ClientStalls, request, callback, stream, line
<1>5. CASE ClientLeaves
  <2>1. client' \in {"reading", "stalled", "gone"}
    BY <1>5 DEF ClientLeaves
  <2>2. StreamTypes'
    BY <1>1, <1>5 DEF ClientLeaves, StreamTypes, stream
  <2> QED
    BY <1>5, <2>1, <2>2, QuietStep DEF ClientLeaves, request, callback, stream, line
<1> QED
  BY <1>2, <1>3, <1>4, <1>5

(* The handler's steps that write nothing.                                  *)
LEMMA HandlerOtherStep ==
  ASSUME Invariant, start \/ StartReturns \/ ListStreamer
  PROVE  Invariant'
<1>1. /\ Connection /\ Handler /\ Callback /\ Queue /\ Unsubscribed /\ StreamTypes /\ RequestTypes
      /\ Ready
  BY DEF Invariant
<1>2. /\ io # <<>> /\ io' = Tail(io) /\ text' = <<>> /\ arrived' = 0
      /\ UNCHANGED <<client, ros, restreaming, footers, old, frame, has_frame, received, expired,
                     kind, write_in_progress, last_error, writing, pending>>
      /\ Head(io).what \in Subscribing \cup {"keep", "list"}
  BY DEF start, StartReturns, ListStreamer, HandlerDoes, callback, line, Subscribing
<1>3. io \in Seq(Items(Writes \cup {"subscribe", "subscribe_unknown", "keep", "list"}))
  BY <1>1 DEF Handler, IoTypes
<1>4. Head(io) = io[1] /\ 1 \in 1..Len(io)
  BY <1>2, <1>3
<1>5. io[1].what \in {"subscribe", "subscribe_unknown", "keep", "list"}
  BY <1>2, <1>4 DEF Subscribing
<1>6. streamer' # "none" /\ StreamTypes'
  <2>1. CASE start
    BY <1>1, <1>2, <2>1 DEF start, StreamTypes
  <2>2. CASE StartReturns
    <3>1. io[1].what = "keep"
      BY <1>4, <2>2 DEF StartReturns, HandlerDoes
    <3>2. streamer # "none"
      BY <1>1, <1>2, <3>1 DEF Handler, HandlerGoesOn, Writes, Subscribing
    <3> QED
      BY <1>1, <1>2, <2>2, <3>2 DEF StartReturns, StreamTypes
  <2>3. CASE ListStreamer
    BY <1>1, <1>2, <2>3 DEF ListStreamer, StreamTypes
  <2> QED
    BY <2>1, <2>2, <2>3
<1>7. Connection' /\ Latest' = Latest /\ Alive' = Alive
  BY <1>1, <1>2, LineKept
<1>8. Callback'
  BY <1>1, <1>2, <1>7, CallbackKept
<1>9. Queue'
  <2>1. Alive' <= Alive
    BY <1>1, <1>7, AliveNat
  <2>2. old' \in 0..old
    BY <1>1, <1>2 DEF Queue, QueueTypes
  <2> QED
    BY <1>1, <1>2, <1>7, <2>1, <2>2, QueueKept
<1>10. RequestTypes' /\ Fresh' /\ Unsubscribed'
  BY <1>1, <1>2, <1>6 DEF RequestTypes, Fresh, Unsubscribed
<1>11. Handler'
  <2>1. /\ IoTypes' /\ HandlerScript'
        /\ io' # <<>> => Then(io[1], io'[1]) /\ io'[1].what \in HandlerSteps
    BY <1>1, <1>2, HandlerAdvances
  <2>2. io' # <<>> => io'[1].what \notin Writes \cup Subscribing
    BY <1>5, <2>1 DEF Then, Follows, HandlerSteps, Writes, Subscribing
  <2>3. (io # <<>> => (io[1].what \in Writes \cup Subscribing <=> streamer = "none"))'
    BY <1>6, <2>2
  <2>4. (io # <<>> /\ ~last_error => HandlerMay(Latest, io[1]))'
    BY <2>2 DEF HandlerMay
  <2> QED
    BY <2>1, <2>3, <2>4 DEF Handler, HandlerGoesOn
<1>12. Ready'
  <2>1. CASE start
    <3>1. io[1].what \in Subscribing
      BY <1>4, <2>1 DEF start, HandlerDoes, Subscribing
    <3>2. streamer = "none" /\ ros = <<>> /\ ~has_frame
      BY <1>1, <1>2, <3>1 DEF Handler, HandlerGoesOn, Unsubscribed
    <3>3. kind # "none"
      BY <1>1, <1>4, <3>1 DEF Handler, HandlerGoesOn, HandlerScript
    <3>4. ~last_error => Latest.what = IF kind \in Multipart THEN "boundary" ELSE "nothing"
      BY <1>1, <1>2, <3>1 DEF Handler, HandlerGoesOn, HandlerMay
    <3> QED
      BY <1>2, <1>7, <3>2, <3>3, <3>4 DEF Ready, Multipart
  <2>2. CASE StartReturns
    <3>1. io[1].what = "keep" /\ inactive' = inactive
      BY <1>4, <2>2 DEF StartReturns, HandlerDoes
    <3>2. streamer # "none"
      BY <1>1, <1>2, <3>1 DEF Handler, HandlerGoesOn, Writes, Subscribing
    <3> QED
      BY <1>1, <1>2, <1>7, <3>1, <3>2, ReadyKept
  <2>3. CASE ListStreamer
    <3>1. io[1].what = "list" /\ inactive' = inactive
      BY <1>4, <2>3 DEF ListStreamer, HandlerDoes
    <3>2. streamer # "none"
      BY <1>1, <1>2, <3>1 DEF Handler, HandlerGoesOn, Writes, Subscribing
    <3> QED
      BY <1>1, <1>2, <1>7, <3>1, <3>2, ReadyKept
  <2> QED
    BY <2>1, <2>2, <2>3
<1> QED
  BY <1>2, <1>6, <1>7, <1>8, <1>9, <1>10, <1>11, <1>12 DEF Invariant

(* A subscription that cannot be made.                                      *)
LEMMA StartFailsStep ==
  ASSUME Invariant, StartFails
  PROVE  Invariant'
<1>1. /\ Connection /\ Handler /\ Callback /\ Queue /\ Unsubscribed /\ Ready
      /\ StreamTypes /\ RequestTypes
  BY DEF Invariant
<1>2. /\ io' = <<>> /\ text' = <<>> /\ arrived' = 0
      /\ UNCHANGED <<client, ros, restreaming, footers, old, frame, has_frame, received, expired,
                     kind, streamer, inactive, subscribed, image_sub, write_in_progress,
                     last_error, writing, pending>>
  BY DEF StartFails, HandlerDoes, callback, line
<1>3. Connection' /\ Latest' = Latest /\ Alive' = Alive
  BY <1>1, <1>2, LineKept
<1>4. Handler'
  BY <1>2, EmptySeq DEF Handler, IoTypes, HandlerGoesOn, HandlerScript
<1>5. Callback' /\ Ready'
  BY <1>1, <1>2, <1>3, CallbackKept, ReadyKept
<1>6. Queue'
  <2>1. Alive' <= Alive
    BY <1>1, <1>3, AliveNat
  <2>2. old' \in 0..old
    BY <1>1, <1>2 DEF Queue, QueueTypes
  <2> QED
    BY <1>1, <1>2, <1>3, <2>1, <2>2, QueueKept
<1>7. RequestTypes' /\ StreamTypes' /\ Fresh' /\ Unsubscribed'
  BY <1>1, <1>2 DEF RequestTypes, StreamTypes, Fresh, Unsubscribed
<1> QED
  BY <1>3, <1>4, <1>5, <1>6, <1>7 DEF Invariant

(* The ends of writes, and a client that goes before it has asked.          *)
LEMMA LineSteps ==
  ASSUME Invariant, Written \/ WriteFailed \/ handle_read_raw
  PROVE  Invariant'
<1>1. /\ Connection /\ Handler /\ Callback /\ Queue /\ Unsubscribed /\ Fresh /\ Ready
      /\ RequestTypes /\ StreamTypes
  BY DEF Invariant
<1>2. UNCHANGED <<client, text, arrived, io, ros, restreaming, kind, streamer, inactive, subscribed,
                  image_sub, footers, old, frame, has_frame, expired>>
  BY DEF Written, WriteFailed, handle_read_raw, request, callback, stream
<1>3. /\ Connection' /\ Alive' <= Alive
      /\ ~last_error' => ~last_error /\ Latest' = Latest
      /\ text # <<>> => UNCHANGED <<write_in_progress, pending, received>>
  <2>1. CASE Written
    <3>1. Connection' /\ last_error' = last_error /\ Latest' = Latest /\ Alive' <= Alive
      BY <1>1, <2>1, WrittenStep
    <3>2. text = <<>>
      BY <1>1, <2>1 DEF Written, Fresh
    <3> QED
      BY <3>1, <3>2
  <2>2. CASE WriteFailed
    <3>1. /\ last_error' = TRUE /\ write_in_progress' = FALSE /\ writing' = <<>>
          /\ pending' = pending /\ received' = received
      BY <2>2 DEF WriteFailed
    <3>2. text = <<>>
      BY <1>1, <2>2 DEF WriteFailed, Fresh
    <3> QED
      BY <1>1, <3>1, <3>2, ErrorStep
  <2>3. CASE handle_read_raw
    <3>1. text # <<>> /\ ~write_in_progress
      BY <1>1, <2>3 DEF handle_read_raw, Fresh
    <3>2. write_in_progress = FALSE /\ writing = <<>>
      BY <1>1, <3>1 DEF Connection, LineTypes
    <3>3. /\ last_error' = TRUE /\ write_in_progress' = FALSE /\ writing' = <<>>
          /\ pending' = pending /\ received' = received
      BY <2>3, <3>2 DEF handle_read_raw
    <3> QED
      BY <1>1, <3>2, <3>3, ErrorStep
  <2> QED
    BY <2>1, <2>2, <2>3
<1>4. Handler'
  BY <1>1, <1>2, <1>3, HandlerKept
<1>5. Callback'
  BY <1>1, <1>2, <1>3, CallbackKept
<1>6. Ready'
  BY <1>1, <1>2, <1>3, ReadyKept
<1>7. Queue'
  <2>2. old' \in 0..old
    BY <1>1, <1>2 DEF Queue, QueueTypes
  <2> QED
    BY <1>1, <1>2, <1>3, <2>2, QueueKept
<1>8. RequestTypes' /\ Fresh' /\ Unsubscribed' /\ StreamTypes'
  BY <1>1, <1>2, <1>3 DEF RequestTypes, Fresh, Unsubscribed, StreamTypes
<1> QED
  BY <1>3, <1>4, <1>5, <1>6, <1>7, <1>8 DEF Invariant

-----------------------------------------------------------------------------
(*                           The beginning of a reply                       *)

HandlerItems == Items(Writes \cup {"subscribe", "subscribe_unknown", "keep", "list"})

(* Which step of a handler comes after which.                               *)
Pairing ==
  {<<"status", "headers">>, <<"headers", "content">>, <<"headers", "boundary">>,
   <<"content", "content">>, <<"boundary", "subscribe">>, <<"boundary", "subscribe_unknown">>,
   <<"subscribe", "keep">>, <<"subscribe_unknown", "keep">>, <<"keep", "list">>}

(* How a handler may begin.                                                 *)
Begins(k, s) ==
  /\ k \in Kinds /\ s \in Seq(HandlerItems) /\ s # <<>> /\ 1 \in 1..Len(s)
  /\ \A i \in 1..Len(s) :
       /\ s[i].what \in HandlerSteps
       /\ s[i].what = "boundary" => k \in Multipart
       /\ s[i].what \in Subscribing => k # "none"
  /\ \A i \in 1..Len(s) - 1 : <<s[i].what, s[i + 1].what>> \in Pairing
  /\ \/ s[1].what = "status"
     \/ s[1].what \in Subscribing /\ k \notin Multipart

LEMMA PlainItems ==
  \A w \in HandlerSteps : Plain(w) \in HandlerItems /\ Plain(w).what = w
BY ItemFacts DEF HandlerItems, HandlerSteps, Writes, Subscribing

LEMMA EmptyLen == \A s : Len(s) # 0 => s # <<>>
<1>1. Len(<<>>) = 0
  OBVIOUS
<1> QED
  BY <1>1, Zenon

LEMMA ReplyBegins ==
  /\ Begins("none", Reply("content")) /\ Begins("refused", Reply("content"))
  /\ Begins("none", Reply("content") \o <<Plain("content")>>)
<1> DEFINE s == Reply("content")
           t == <<Plain("content")>>
<1>1. /\ s \in Seq(HandlerItems) /\ Len(s) = 3
      /\ s[1] = Plain("status") /\ s[2] = Plain("headers") /\ s[3] = Plain("content")
  BY PlainItems DEF Reply, HandlerSteps
<1>2. t \in Seq(HandlerItems) /\ Len(t) = 1 /\ t[1] = Plain("content")
  BY PlainItems DEF HandlerSteps
<1> HIDE DEF s, t
<1>3. /\ s \o t \in Seq(HandlerItems) /\ Len(s \o t) = 4
      /\ (s \o t)[1] = s[1] /\ (s \o t)[2] = s[2] /\ (s \o t)[3] = s[3] /\ (s \o t)[4] = t[1]
  <2>1. /\ s \o t \in Seq(HandlerItems) /\ Len(s \o t) = Len(s) + Len(t)
        /\ \A i \in 1..Len(s) + Len(t) : (s \o t)[i] = IF i <= Len(s) THEN s[i] ELSE t[i - Len(s)]
    BY <1>1, <1>2, ConcatProperties, Zenon
  <2> QED
    BY <1>1, <1>2, <2>1
<1>4. s # <<>> /\ s \o t # <<>>
  <2>1. Len(s) # 0 /\ Len(s \o t) # 0
    BY <1>1, <1>3
  <2> QED
    BY <2>1, EmptyLen, Zenon
<1>5. Begins("none", s) /\ Begins("refused", s)
  BY <1>1, <1>4, PlainItems DEF Begins, Kinds, HandlerSteps, Subscribing, Pairing
<1>6. Begins("none", s \o t)
  BY <1>1, <1>2, <1>3, <1>4, PlainItems DEF Begins, Kinds, HandlerSteps, Subscribing, Pairing
<1> QED
  BY <1>5, <1>6 DEF s, t

LEMMA StartingBegins ==
  ASSUME NEW known, NEW k \in Streams \cup Snapshots
  PROVE  /\ k \notin Multipart => Begins(k, Starting(known))
         /\ k \in Multipart => Begins(k, Reply("boundary") \o Starting(known))
         /\ <<>> \o Starting(known) = Starting(known)
<1> DEFINE s == Reply("boundary")
           t == Starting(known)
<1>k. k \in Kinds /\ k # "none"
  BY DEF Kinds, Streams, Snapshots, Multipart
<1>1. /\ s \in Seq(HandlerItems) /\ Len(s) = 3
      /\ s[1] = Plain("status") /\ s[2] = Plain("headers") /\ s[3] = Plain("boundary")
  BY PlainItems DEF Reply, HandlerSteps
<1>2. PICK w \in Subscribing : t = <<Plain(w), Plain("keep"), Plain("list")>>
  BY DEF Starting, Subscribing
<1>3. /\ t \in Seq(HandlerItems) /\ Len(t) = 3
      /\ t[1] = Plain(w) /\ t[2] = Plain("keep") /\ t[3] = Plain("list")
  <2>1. Plain(w) \in HandlerItems /\ Plain("keep") \in HandlerItems /\ Plain("list") \in HandlerItems
    BY PlainItems DEF HandlerSteps
  <2> QED
    BY <1>2, <2>1
<1> HIDE DEF s, t
<1>4. /\ s \o t \in Seq(HandlerItems) /\ Len(s \o t) = 6
      /\ (s \o t)[1] = s[1] /\ (s \o t)[2] = s[2] /\ (s \o t)[3] = s[3]
      /\ (s \o t)[4] = t[1] /\ (s \o t)[5] = t[2] /\ (s \o t)[6] = t[3]
  <2>1. /\ s \o t \in Seq(HandlerItems) /\ Len(s \o t) = Len(s) + Len(t)
        /\ \A i \in 1..Len(s) + Len(t) : (s \o t)[i] = IF i <= Len(s) THEN s[i] ELSE t[i - Len(s)]
    BY <1>1, <1>3, ConcatProperties, Zenon
  <2> QED
    BY <1>1, <1>3, <2>1
<1>5. s # <<>> /\ t # <<>> /\ s \o t # <<>> /\ <<>> \o t = t
  BY <1>1, <1>3, <1>4, EmptyLen, ConcatEmptySeq
<1>6. ASSUME k \notin Multipart PROVE Begins(k, t)
  BY <1>k, <1>2, <1>3, <1>5, <1>6, PlainItems DEF Begins, HandlerSteps, Subscribing, Pairing
<1>7. ASSUME k \in Multipart PROVE Begins(k, s \o t)
  <2>1. k \in Kinds /\ k # "none"
    BY <1>k DEF Subscribing
  <2>2. /\ \A i \in 1..6 : (s \o t)[i].what \in HandlerSteps
        /\ \A i \in 1..5 : <<(s \o t)[i].what, (s \o t)[i + 1].what>> \in Pairing
    BY <1>1, <1>2, <1>3, <1>4, PlainItems DEF HandlerSteps, Subscribing, Pairing
  <2>3. (s \o t)[1].what = "status"
    BY <1>1, <1>4, PlainItems DEF HandlerSteps
  <2>4. ASSUME NEW q \in Seq(HandlerItems), q # <<>>, Len(q) = 6, q[1].what = "status",
               \A i \in 1..6 : q[i].what \in HandlerSteps,
               \A i \in 1..5 : <<q[i].what, q[i + 1].what>> \in Pairing
        PROVE  Begins(k, q)
    BY <1>7, <2>1, <2>4 DEF Begins
  <2>5. s \o t \in Seq(HandlerItems) /\ s \o t # <<>> /\ Len(s \o t) = 6
    BY <1>4, <1>5, Zenon
  <2> QED
    BY <2>2, <2>3, <2>4, <2>5, Zenon
<1> QED
  BY <1>5, <1>6, <1>7 DEF s, t

(* Every handler begins in one of these ways.                               *)
LEMMA GroupBegins ==
  ASSUME NEW uri, handler_group(uri)
  PROVE  Begins(kind', io')
<1>1. ASSUME stock_reply \/ handle_stream_viewer \/ handle_list_streams
      PROVE  Begins(kind', io')
  BY <1>1, ReplyBegins DEF stock_reply, handle_stream_viewer, handle_list_streams, Begin
<1>2. ASSUME handle_stream(uri) PROVE Begins(kind', io')
  <2>1. CASE stock_reply
    BY <1>1, <2>1
  <2>2. CASE \E k \in Streams : \E known :
               Begin(k, (IF k \in Multipart THEN Reply("boundary") ELSE <<>>) \o Starting(known))
    <3>1. PICK k \in Streams : \E known :
               Begin(k, (IF k \in Multipart THEN Reply("boundary") ELSE <<>>) \o Starting(known))
      BY <2>2
    <3>2. PICK known :
               Begin(k, (IF k \in Multipart THEN Reply("boundary") ELSE <<>>) \o Starting(known))
      BY <3>1
    <3>3. CASE k \in Multipart
      BY <3>2, <3>3, StartingBegins DEF Begin
    <3>4. CASE k \notin Multipart
      BY <3>2, <3>4, StartingBegins DEF Begin
    <3> QED
      BY <3>3, <3>4
  <2> QED
    BY <1>2, <2>1, <2>2 DEF handle_stream, streamer_factories
<1>3. ASSUME handle_snapshot(uri) PROVE Begins(kind', io')
  <2>1. CASE stock_reply
    BY <1>1, <2>1
  <2>2. CASE \E k \in Snapshots : \E known : Begin(k, Starting(known))
    <3>1. PICK k \in Snapshots : \E known : Begin(k, Starting(known))
      BY <2>2
    <3>2. PICK known : Begin(k, Starting(known))
      BY <3>1
    <3>3. k \notin Multipart
      BY DEF Snapshots, Multipart
    <3> QED
      BY <3>2, <3>3, StartingBegins DEF Begin
  <2> QED
    BY <1>3, <2>1, <2>2 DEF handle_snapshot, snapshot_streamer_factories
<1> QED
  BY <1>1, <1>2, <1>3 DEF handler_group

(* What begins so goes on from an empty connection.                         *)
LEMMA BeginsGoesOn ==
  ASSUME Begins(kind', io'), streamer' = "none", Latest' = Plain("nothing")
  PROVE  Handler'
<1>1. IoTypes'
  BY DEF Begins, IoTypes, HandlerItems
<1>2. \A a, b : <<a.what, b.what>> \in Pairing => Then(a, b)'
  BY DEF Pairing, Then, Follows, Subscribing
<1>3. HandlerScript'
  <2>1. ASSUME NEW i \in 1..Len(io') - 1 PROVE Then(io[i], io[i + 1])'
    <3>1. PICK a, b : a = io'[i] /\ b = io'[i + 1]
      OBVIOUS
    <3>2. Then(a, b)'
      BY <1>2, <3>1 DEF Begins
    <3> QED
      BY <3>1, <3>2 DEF Then, Follows
  <2>2. \A i \in 1..Len(io') : /\ io'[i].what \in HandlerSteps
                               /\ io'[i].what = "boundary" => kind' \in Multipart
                               /\ io'[i].what \in Subscribing => kind' # "none"
    BY DEF Begins
  <2> QED
    BY <2>1, <2>2 DEF HandlerScript
<1>4. PICK x : x = io'[1]
  OBVIOUS
<1>5. x.what = "status" \/ (x.what \in Subscribing /\ kind' \notin Multipart)
  BY <1>4 DEF Begins
<1>6. Latest'.what = "nothing"
  BY ItemFacts
<1>7. HandlerMay(Latest, io[1])'
  <2>1. CASE x.what = "status"
    BY <1>4, <1>6, <2>1 DEF HandlerMay, Follows, Subscribing
  <2>2. CASE x.what \in Subscribing /\ kind' \notin Multipart
    BY <1>4, <1>6, <2>2 DEF HandlerMay, Subscribing, Writes
  <2> QED
    BY <1>5, <2>1, <2>2
<1>8. (io # <<>> => (io[1].what \in Writes \cup Subscribing <=> streamer = "none"))'
  <2>1. io'[1].what \in Writes \cup Subscribing
    BY <1>4, <1>5 DEF Writes
  <2> QED
    BY <2>1
<1> QED
  BY <1>1, <1>3, <1>7, <1>8 DEF Handler, HandlerGoesOn

(* A chunk of the request.                                                  *)
LEMMA ReadStep ==
  ASSUME Invariant, NEW size \in Chunks, handle_read(size)
  PROVE  Invariant'
<1>1. /\ Connection /\ Handler /\ Callback /\ Queue /\ Unsubscribed /\ Fresh /\ Ready
      /\ RequestTypes /\ StreamTypes
  BY DEF Invariant
<1>2. /\ arrived < Len(text) /\ ~last_error
      /\ UNCHANGED <<client, text, ros, restreaming, streamer, inactive, subscribed, image_sub,
                     footers, old, frame, has_frame, write_in_progress, last_error, writing,
                     pending, received, expired>>
      /\ arrived' = arrived + Len(SubSeq(text, arrived + 1,
                                         IF arrived + size < Len(text) THEN arrived + size ELSE Len(text)))
      /\ \/ handler_group(parser'.request.uri)
         \/ refuse
         \/ UNCHANGED <<kind, io>>
  BY DEF handle_read, callback, line
<1>t. text \in Seq(Alphabet) /\ arrived \in 0..Len(text) /\ size \in Nat \ {0}
  <2>1. <<>> \in Seq(Alphabet)
    OBVIOUS
  <2> QED
    BY <1>1, <2>1, StreamAssumption DEF RequestTypes
<1>3. RequestTypes'
  <2>1. arrived' \in 0..Len(text)
    <3> DEFINE n == IF arrived + size < Len(text) THEN arrived + size ELSE Len(text)
    <3>1. n \in Int /\ arrived + 1 <= n /\ n <= Len(text) /\ arrived + 1 \in Int /\ arrived \in Nat
      BY <1>2, <1>t
    <3>2. \A i \in arrived + 1..n : text[i] \in Alphabet
      BY <1>t, <3>1, ElementOfSeq
    <3> HIDE DEF n
    <3>3. Len(SubSeq(text, arrived + 1, n)) = n - (arrived + 1) + 1
      BY <3>1, <3>2, SubSeqProperties
    <3> QED
      BY <1>2, <1>t, <3>1, <3>3 DEF n
  <2> QED
    BY <1>1, <1>2, <2>1 DEF RequestTypes
<1>4. text # <<>>
  BY <1>2, <1>t, EmptySeq
<1>5. /\ streamer = "none" /\ ~write_in_progress /\ pending = <<>> /\ writing = <<>>
      /\ received = Plain("nothing") /\ ros = <<>> /\ ~subscribed /\ ~has_frame
  BY <1>1, <1>4 DEF Fresh, Unsubscribed, Connection, LineTypes
<1>6. Latest' = Plain("nothing") /\ Latest' = Latest
  BY <1>2, <1>5 DEF Latest, Sent, Nth, Length
<1>7. Connection' /\ Alive' = Alive
  <2>1. LineTypes'
    BY <1>1, <1>2 DEF Connection, LineTypes
  <2>2. Idle'
    BY <1>1, <1>2 DEF Connection, Idle
  <2>3. Length(writing', pending') = 1
    BY <1>2, <1>5 DEF Length
  <2>4. InOrder'
    BY <2>3 DEF InOrder
  <2> QED
    BY <1>2, <2>1, <2>2, <2>4 DEF Connection, Alive, Footers
<1>8. Callback'
  BY <1>1, <1>2, <1>5, CallbackEnds DEF Callback, RosTypes
<1>9. Queue'
  <2>1. Alive' <= Alive
    BY <1>1, <1>7, AliveNat
  <2>2. old' \in 0..old
    BY <1>1, <1>2 DEF Queue, QueueTypes
  <2> QED
    BY <1>1, <1>2, <1>5, <1>7, <2>1, <2>2, QueueKept
<1>10. Handler' /\ kind' \in Kinds
  <2>1. CASE handler_group(parser'.request.uri)
    <3>1. PICK u : u = parser'.request.uri
      OBVIOUS
    <3>2. Begins(kind', io')
      BY <2>1, GroupBegins
    <3> QED
      BY <1>2, <1>5, <1>6, <3>2, BeginsGoesOn DEF Begins
  <2>2. CASE refuse
    <3>1. Begins(kind', io')
      BY <2>2, ReplyBegins DEF refuse, Begin
    <3> QED
      BY <1>2, <1>5, <1>6, <3>1, BeginsGoesOn DEF Begins
  <2>3. CASE UNCHANGED <<kind, io>>
    BY <1>1, <1>2, <1>6, <2>3, HandlerKept DEF StreamTypes
  <2> QED
    BY <1>2, <2>1, <2>2, <2>3
<1>11. StreamTypes' /\ Fresh' /\ Unsubscribed' /\ Ready'
  <2>1. StreamTypes'
    BY <1>1, <1>2, <1>10 DEF StreamTypes
  <2> QED
    BY <1>2, <1>5, <2>1 DEF Fresh, Unsubscribed, Ready
<1> QED
  BY <1>3, <1>7, <1>8, <1>9, <1>10, <1>11 DEF Invariant

-----------------------------------------------------------------------------
(*                          A callback and its image                        *)

CallbackItems == Items(Writes \cup {"finish", "throw"})

(* Which step of a callback comes after which.                              *)
CallbackPairing ==
  {<<"part", "payload">>, <<"payload", "footer">>, <<"status", "headers">>,
   <<"headers", "preamble">>, <<"preamble", "chunk">>, <<"headers", "error">>,
   <<"error", "throw">>, <<"headers", "payload">>, <<"payload", "finish">>}

(* How a callback goes on with an image.                                    *)
Sends(k, s) ==
  /\ s \in Seq(CallbackItems) /\ s # <<>> /\ Len(s) \in Nat
  /\ \A i \in 1..Len(s) : s[i].what \in CallbackSteps(k)
  /\ \A i \in 1..Len(s) - 1 :
       /\ \/ <<s[i].what, s[i + 1].what>> \in CallbackPairing
          \/ k = "video" /\ s[i].what = "headers" /\ s[i + 1].what = "status"
       /\ s[i].what \in {"part", "payload"} => s[i + 1].frame = s[i].frame \/ s[i + 1].what = "finish"
       /\ ~IsFooter(s[i])
  /\ s[Len(s)].what \in LastSteps(k)

LEMMA CallbackItemFacts ==
  \A w \in Writes \cup {"finish", "throw"}, n \in {0, 1} :
    /\ Item(w, n) \in CallbackItems /\ Item(w, n).what = w /\ Item(w, n).frame = n
    /\ Plain(w) \in CallbackItems /\ Plain(w).what = w
BY ItemFacts DEF CallbackItems

LEMMA PartSends ==
  ASSUME NEW n \in {0, 1}, NEW k \in Multipart
  PROVE  Sends(k, Part(n)) /\ Part(n)[1].what = "part"
<1>1. /\ Item("part", n) \in CallbackItems /\ Item("payload", n) \in CallbackItems
      /\ Item("footer", n) \in CallbackItems
  BY CallbackItemFacts DEF Writes
<1>2. PICK s : s = Part(n)
  OBVIOUS
<1>3. /\ s \in Seq(CallbackItems) /\ Len(s) = 3
      /\ s[1] = Item("part", n) /\ s[2] = Item("payload", n) /\ s[3] = Item("footer", n)
  BY <1>1, <1>2 DEF Part
<1>4. s # <<>>
  <2>1. Len(s) # 0
    BY <1>3
  <2> QED
    BY <2>1, EmptyLen, Zenon
<1>5. /\ s[1].what = "part" /\ s[2].what = "payload" /\ s[3].what = "footer"
      /\ s[1].frame = n /\ s[2].frame = n /\ s[3].frame = n
  BY <1>3, ItemFacts
<1>6. Sends(k, s)
  BY <1>3, <1>4, <1>5 DEF Sends, CallbackSteps, LastSteps, CallbackPairing, IsFooter
<1> QED
  BY <1>2, <1>5, <1>6

LEMMA ChunkSends ==
  ASSUME NEW n \in {0, 1}
  PROVE  /\ Sends("video", <<Item("chunk", n)>>)
         /\ \A i \in 1..Len(<<Item("chunk", n)>>) : <<Item("chunk", n)>>[i].what = "chunk"
<1>1. Item("chunk", n) \in CallbackItems /\ Item("chunk", n).what = "chunk"
  BY CallbackItemFacts DEF Writes
<1>2. PICK s : s = <<Item("chunk", n)>>
  OBVIOUS
<1>3. s \in Seq(CallbackItems) /\ Len(s) = 1 /\ s[1] = Item("chunk", n)
  BY <1>1, <1>2
<1>4. s # <<>>
  <2>1. Len(s) # 0
    BY <1>3
  <2> QED
    BY <2>1, EmptyLen, Zenon
<1>5. Sends("video", s)
  BY <1>1, <1>3, <1>4 DEF Sends, CallbackSteps, LastSteps, Multipart
<1> QED
  BY <1>1, <1>2, <1>3, <1>5

LEMMA FirstSends ==
  ASSUME NEW n \in {0, 1}
  PROVE  /\ Sends("video", Reply("preamble") \o <<Item("chunk", n)>>)
         /\ (Reply("preamble") \o <<Item("chunk", n)>>)[1].what = "status"
         /\ Sends("video", Reply("error") \o <<Plain("throw")>>)
         /\ (Reply("error") \o <<Plain("throw")>>)[1].what = "status"
<1>1. ASSUME NEW w \in {"preamble", "error"}, NEW x \in CallbackItems,
             <<w, x.what>> \in {<<"preamble", "chunk">>, <<"error", "throw">>}
      PROVE  Sends("video", Reply(w) \o <<x>>) /\ (Reply(w) \o <<x>>)[1].what = "status"
  <2> DEFINE r == Reply(w)
             t == <<x>>
  <2>1. /\ Plain("status") \in CallbackItems /\ Plain("headers") \in CallbackItems
        /\ Plain(w) \in CallbackItems
    BY CallbackItemFacts DEF Writes
  <2>2. /\ r \in Seq(CallbackItems) /\ Len(r) = 3
        /\ r[1] = Plain("status") /\ r[2] = Plain("headers") /\ r[3] = Plain(w)
    BY <2>1 DEF Reply
  <2>3. t \in Seq(CallbackItems) /\ Len(t) = 1 /\ t[1] = x
    OBVIOUS
  <2> HIDE DEF r, t
  <2>4. /\ r \o t \in Seq(CallbackItems) /\ Len(r \o t) = Len(r) + Len(t)
        /\ \A i \in 1..Len(r) + Len(t) : (r \o t)[i] = IF i <= Len(r) THEN r[i] ELSE t[i - Len(r)]
    BY <2>2, <2>3, ConcatProperties, Zenon
  <2>5. PICK s : s = r \o t
    OBVIOUS
  <2>6. /\ s \in Seq(CallbackItems) /\ Len(s) = 4
        /\ s[1] = Plain("status") /\ s[2] = Plain("headers") /\ s[3] = Plain(w) /\ s[4] = x
    BY <2>2, <2>3, <2>4, <2>5
  <2>7. s # <<>>
    <3>1. Len(s) # 0
      BY <2>6
    <3> QED
      BY <3>1, EmptyLen, Zenon
  <2>8. /\ s[1].what = "status" /\ s[2].what = "headers" /\ s[3].what = w /\ s[4].what = x.what
    BY <2>6, ItemFacts
  <2>9. (w = "preamble" /\ x.what = "chunk") \/ (w = "error" /\ x.what = "throw")
    BY <1>1
  <2>10. Sends("video", s)
    BY <2>6, <2>7, <2>8, <2>9
       DEF Sends, CallbackSteps, LastSteps, CallbackPairing, IsFooter, Multipart
  <2> QED
    BY <2>5, <2>8, <2>10 DEF r, t
<1>2. Item("chunk", n) \in CallbackItems /\ Item("chunk", n).what = "chunk"
  BY CallbackItemFacts DEF Writes
<1>3. Plain("throw") \in CallbackItems /\ Plain("throw").what = "throw"
  BY CallbackItemFacts
<1> QED
  BY <1>1, <1>2, <1>3

(* An answer that ends in an error reply after its head.                    *)
LEMMA LateErrorSends ==
  LET s == <<Plain("status"), Plain("headers")>> \o Reply("error") \o <<Plain("throw")>>
  IN  Sends("video", s) /\ s[1].what = "status"
<1> DEFINE h == <<Plain("status"), Plain("headers")>>
           r == Reply("error")
           t == <<Plain("throw")>>
<1>1. /\ Plain("status") \in CallbackItems /\ Plain("headers") \in CallbackItems
      /\ Plain("error") \in CallbackItems /\ Plain("throw") \in CallbackItems
  BY CallbackItemFacts DEF Writes
<1>2. /\ h \in Seq(CallbackItems) /\ Len(h) = 2
      /\ h[1] = Plain("status") /\ h[2] = Plain("headers")
  BY <1>1
<1>3. /\ r \in Seq(CallbackItems) /\ Len(r) = 3
      /\ r[1] = Plain("status") /\ r[2] = Plain("headers") /\ r[3] = Plain("error")
  BY <1>1 DEF Reply
<1>4. t \in Seq(CallbackItems) /\ Len(t) = 1 /\ t[1] = Plain("throw")
  BY <1>1
<1> HIDE DEF h, r, t
<1>5. /\ h \o r \in Seq(CallbackItems) /\ Len(h \o r) = Len(h) + Len(r)
      /\ \A i \in 1..Len(h) + Len(r) : (h \o r)[i] = IF i <= Len(h) THEN h[i] ELSE r[i - Len(h)]
  BY <1>2, <1>3, ConcatProperties, Zenon
<1>6. PICK u : u = h \o r
  OBVIOUS
<1>7. /\ u \in Seq(CallbackItems) /\ Len(u) = 5
      /\ u[1] = Plain("status") /\ u[2] = Plain("headers") /\ u[3] = Plain("status")
      /\ u[4] = Plain("headers") /\ u[5] = Plain("error")
  BY <1>2, <1>3, <1>5, <1>6
<1>8. /\ u \o t \in Seq(CallbackItems) /\ Len(u \o t) = Len(u) + Len(t)
      /\ \A i \in 1..Len(u) + Len(t) : (u \o t)[i] = IF i <= Len(u) THEN u[i] ELSE t[i - Len(u)]
  BY <1>4, <1>7, ConcatProperties, Zenon
<1>9. PICK s : s = u \o t
  OBVIOUS
<1>10. /\ s \in Seq(CallbackItems) /\ Len(s) = 6
       /\ s[1] = Plain("status") /\ s[2] = Plain("headers") /\ s[3] = Plain("status")
       /\ s[4] = Plain("headers") /\ s[5] = Plain("error") /\ s[6] = Plain("throw")
  BY <1>4, <1>7, <1>8, <1>9
<1>11. s # <<>>
  <2>1. Len(s) # 0
    BY <1>10
  <2> QED
    BY <2>1, EmptyLen, Zenon
<1>12. /\ s[1].what = "status" /\ s[2].what = "headers" /\ s[3].what = "status"
       /\ s[4].what = "headers" /\ s[5].what = "error" /\ s[6].what = "throw"
  BY <1>10, ItemFacts
<1>13. Sends("video", s)
  BY <1>10, <1>11, <1>12
     DEF Sends, CallbackSteps, LastSteps, CallbackPairing, IsFooter, Multipart
<1> QED
  BY <1>6, <1>9, <1>12, <1>13 DEF h, r, t

LEMMA SnapshotSends ==
  ASSUME NEW n \in {0, 1}, NEW k \in Snapshots
  PROVE  /\ Sends(k, <<Plain("status"), Plain("headers"), Item("payload", n), Plain("finish")>>)
         /\ <<Plain("status"), Plain("headers"), Item("payload", n), Plain("finish")>>[1].what = "status"
<1>1. /\ Plain("status") \in CallbackItems /\ Plain("headers") \in CallbackItems
      /\ Item("payload", n) \in CallbackItems /\ Plain("finish") \in CallbackItems
  BY CallbackItemFacts DEF Writes
<1>2. PICK s : s = <<Plain("status"), Plain("headers"), Item("payload", n), Plain("finish")>>
  OBVIOUS
<1>3. /\ s \in Seq(CallbackItems) /\ Len(s) = 4
      /\ s[1] = Plain("status") /\ s[2] = Plain("headers") /\ s[3] = Item("payload", n)
      /\ s[4] = Plain("finish")
  BY <1>1, <1>2
<1>4. s # <<>>
  <2>1. Len(s) # 0
    BY <1>3
  <2> QED
    BY <2>1, EmptyLen, Zenon
<1>5. /\ s[1].what = "status" /\ s[2].what = "headers" /\ s[3].what = "payload" /\ s[4].what = "finish"
  BY <1>3, ItemFacts
<1>6. k \notin Multipart /\ k # "video"
  BY DEF Snapshots, Multipart
<1>7. Sends(k, s)
  BY <1>3, <1>4, <1>5, <1>6 DEF Sends, CallbackSteps, LastSteps, CallbackPairing, IsFooter
<1> QED
  BY <1>2, <1>5, <1>7

(* What a callback begins goes on from the latest thing on the connection.  *)
LEMMA SendsGoesOn ==
  ASSUME Sends(kind', ros'), restreaming' \in BOOLEAN,
         kind' = "video" => has_frame',
         kind' = "video" /\ restreaming' => \A i \in 1..Len(ros') : ros'[i].what = "chunk",
         ~last_error' => CallbackMay(Latest, ros[1])'
  PROVE  Callback'
<1>1. RosTypes'
  BY DEF Sends, RosTypes, CallbackItems
<1>2. ASSUME NEW a, NEW b,
             \/ <<a.what, b.what>> \in CallbackPairing
             \/ kind' = "video" /\ a.what = "headers" /\ b.what = "status",
             a.what \in {"part", "payload"} => b.frame = a.frame \/ b.what = "finish"
      PROVE  Then(a, b)'
  BY <1>2 DEF CallbackPairing, Then, Follows
<1>3. CallbackScript'
  <2>1. ASSUME NEW i \in 1..Len(ros') - 1 PROVE Then(ros[i], ros[i + 1])' /\ ~IsFooter(ros'[i])
    <3>1. PICK a, b : a = ros'[i] /\ b = ros'[i + 1]
      OBVIOUS
    <3>2. Then(a, b)'
      BY <1>2, <3>1 DEF Sends
    <3>3. ~IsFooter(ros'[i])
      BY DEF Sends
    <3> QED
      BY <3>1, <3>2, <3>3 DEF Then, Follows
  <2>2. \A i \in 1..Len(ros') : /\ ros'[i].what \in CallbackSteps(kind')
                                /\ kind' = "video" /\ restreaming' => ros'[i].what = "chunk"
    BY DEF Sends
  <2>3. ros'[Len(ros')].what \in LastSteps(kind')
    BY DEF Sends
  <2> QED
    BY <2>1, <2>2, <2>3 DEF CallbackScript
<1> QED
  BY <1>1, <1>3 DEF Callback, CallbackGoesOn

(* The handler that waits for nothing on the connection is not disturbed by *)
(* what the callbacks write.                                                *)
LEMMA HandlerIdle ==
  ASSUME Handler, UNCHANGED <<io, kind, streamer>>, streamer # "none"
  PROVE  Handler'
<1>1. IoTypes'
  BY DEF Handler, IoTypes
<1>2. HandlerScript'
  BY FollowsKept DEF Handler, HandlerGoesOn, HandlerScript
<1>3. (io # <<>> => (io[1].what \in Writes \cup Subscribing <=> streamer = "none"))'
  BY DEF Handler, HandlerGoesOn
<1>4. io' # <<>> => io'[1].what \notin Writes /\ io'[1].what \notin Subscribing
  BY DEF Handler, HandlerGoesOn
<1>5. (io # <<>> /\ ~last_error => HandlerMay(Latest, io[1]))'
  BY <1>4 DEF HandlerMay
<1> QED
  BY <1>1, <1>2, <1>3, <1>5 DEF Handler, HandlerGoesOn

(* What has been waited for too long is counted as expired, and a new frame *)
(* is taken only when there is room.                                        *)
LEMMA PartQueue ==
  ASSUME Queue, Connection, Connection', Alive' = Alive, last_error' = last_error,
         NEW n, send_part(n)
  PROVE  Queue'
<1>1. Alive \in Nat /\ footers \in Nat /\ old \in 0..footers /\ expired \in 0..MaxExpired
  BY AliveNat DEF Queue, QueueTypes
<1>2. max_queue_size \in Nat /\ MaxExpired \in Nat
  BY StreamAssumption
<1>3. /\ Unwritten \in Nat /\ Unwritten <= footers /\ Unwritten <= Alive
      /\ Unwritten = footers \/ Unwritten = Alive
  BY <1>1 DEF Unwritten, Smaller
<1>4. Overdue \in Nat /\ Overdue <= old /\ Overdue <= Unwritten
  <2>1. \/ old > footers - Unwritten /\ Overdue = old - (footers - Unwritten)
        \/ ~(old > footers - Unwritten) /\ Overdue = 0
    BY <1>1, <1>3 DEF Overdue
  <2> QED
    BY <1>1, <1>3, <2>1
<1>5. Waiting = Unwritten - Overdue /\ Waiting \in Nat /\ Waiting <= footers
  BY <1>1, <1>3, <1>4 DEF Waiting
<1>6. footers' = Waiting /\ old' = 0
  BY DEF send_part
<1>7. last_error => expired' = expired
  BY DEF send_part
<1>8. ~last_error => expired' = expired + Overdue /\ expired + old <= MaxExpired
  BY DEF send_part, Queue, Counted
<1>9. QueueTypes'
  <2>1. expired' \in 0..MaxExpired
    BY <1>1, <1>2, <1>4, <1>7, <1>8
  <2> QED
    BY <1>5, <1>6, <2>1 DEF QueueTypes
<1>10. ASSUME max_queue_size > 0
       PROVE  footers' + (IF kind' \in Multipart /\ ros' # <<>> THEN 1 ELSE 0) <= max_queue_size
  <2>1. footers <= max_queue_size
    <3>1. footers + (IF kind \in Multipart /\ ros # <<>> THEN 1 ELSE 0) <= max_queue_size
      BY <1>10 DEF Queue, Counted
    <3> QED
      BY <1>1, <1>2, <3>1
  <2>2. CASE is_busy
    <3>1. ros' = <<>>
      BY <2>2 DEF send_part
    <3> QED
      BY <1>1, <1>2, <1>5, <1>6, <2>1, <3>1
  <2>3. CASE ~is_busy
    <3>1. Waiting + 1 <= max_queue_size
      BY <1>2, <1>5, <1>10, <2>3 DEF is_busy
    <3> QED
      BY <1>2, <1>5, <1>6, <3>1
  <2> QED
    BY <2>2, <2>3
<1>11. ASSUME max_queue_size > 0, ~last_error
       PROVE  Alive' <= footers' + expired'
  <2>1. Alive <= footers + expired
    BY <1>11 DEF Queue, Counted
  <2>2. Alive <= Unwritten + expired
    BY <1>1, <1>3, <2>1
  <2> QED
    BY <1>1, <1>4, <1>5, <1>6, <1>8, <1>11, <2>2, <1>3
<1>12. Counted'
  <2>1. ~last_error' => expired' + old' <= MaxExpired
    <3>1. PICK e \in Nat : e = expired' /\ e <= MaxExpired
      BY <1>2, <1>9 DEF QueueTypes
    <3>2. e + 0 <= MaxExpired
      BY <3>1
    <3> QED
      BY <1>6, <3>1, <3>2
  <2> QED
    BY <1>10, <1>11, <2>1, Zenon DEF Counted
<1>13. QueueBounded'
  <2>1. SUFFICES ASSUME max_queue_size > 0 PROVE Alive' <= max_queue_size + expired'
    BY DEF QueueBounded
  <2>2. Alive <= max_queue_size + expired
    BY <2>1 DEF Queue, QueueBounded
  <2>3. expired <= expired' /\ expired' \in Nat
    BY <1>1, <1>2, <1>4, <1>7, <1>8
  <2>4. PICK a \in Nat, e \in Nat, f \in Nat : a = Alive /\ e = expired /\ f = expired'
    BY <1>1, <2>3
  <2>5. a <= max_queue_size + e
    BY <2>2, <2>4, Zenon
  <2>6. e <= f
    BY <2>3, <2>4, Zenon
  <2>7. a <= max_queue_size + f
    BY <1>2, <2>5, <2>6
  <2> QED
    BY <2>4, <2>7, Zenon
<1> QED
  BY <1>9, <1>12, <1>13 DEF Queue

(* A callback begins, with the writes for an image or, when the stream is   *)
(* busy, without.                                                           *)
LEMMA ImageStep ==
  ASSUME Invariant, NEW n \in {0, 1}, send_image(n), ros = <<>>, streamer # "none",
         UNCHANGED <<client, text, arrived, io, kind, streamer, inactive, write_in_progress,
                     last_error, writing, pending, received>>,
         StreamTypes', has_frame', ~(inactive /\ kind \in Raw),
         restreaming' \in BOOLEAN, restreaming' => ros' # <<>> /\ has_frame
  PROVE  Invariant'
<1>1. /\ Connection /\ Handler /\ Callback /\ Queue /\ Unsubscribed /\ Fresh /\ Ready
      /\ RequestTypes /\ StreamTypes
  BY DEF Invariant
<1>2. Connection' /\ Latest' = Latest /\ Alive' = Alive
  BY <1>1, LineKept
<1>3. Handler'
  BY <1>1, HandlerIdle
<1>4. RequestTypes' /\ Fresh' /\ Unsubscribed'
  BY <1>1 DEF RequestTypes, Fresh, Unsubscribed
<1>5. PICK l : l = Latest
  OBVIOUS
<1>6. ~last_error =>
        /\ kind \in Multipart => l.what \in {"boundary", "footer"}
        /\ kind = "video" => l.what = IF has_frame THEN "chunk" ELSE "nothing"
        /\ kind \in {"jpeg", "png_snapshot"} => inactive \/ l.what = "nothing"
        /\ kind = "ros_snapshot" => l.what \in {"nothing", "payload"}
  BY <1>1, <1>5 DEF Ready
<1>7. ASSUME NEW x, ros' # <<>>, x = ros'[1], ~last_error => CallbackMay(l, x)
      PROVE  ~last_error' => CallbackMay(Latest, ros[1])'
  <2>1. ~last_error' => CallbackMay(l, x)'
    BY <1>7, MayKept
  <2> QED
    BY <1>2, <1>5, <1>7, <2>1 DEF CallbackMay, Follows
<1>8. CASE kind \in Multipart /\ send_part(n)
  <2>1. Queue'
    BY <1>1, <1>2, <1>8, PartQueue
  <2>2. CASE is_busy
    <3>1. ros' = <<>> /\ restreaming' = FALSE
      BY <1>8, <2>2 DEF send_part
    <3>2. Callback'
      BY <3>1, CallbackEnds
    <3>3. Ready'
      BY <1>2, <1>5, <1>6, <1>8 DEF Ready, Multipart
    <3> QED
      BY <1>2, <1>3, <1>4, <2>1, <3>2, <3>3 DEF Invariant
  <2>3. CASE ~is_busy
    <3>1. ros' = Part(n)
      BY <1>8, <2>3 DEF send_part
    <3>2. PICK x : x = ros'[1]
      OBVIOUS
    <3>3. Sends(kind', ros') /\ x.what = "part"
      BY <1>8, <3>1, <3>2, PartSends
    <3>4. ~last_error => CallbackMay(l, x)
      BY <1>6, <1>8, <3>3 DEF CallbackMay, Follows
    <3>5. ros' # <<>> /\ kind' # "video"
      BY <1>8, <3>3 DEF Sends, Multipart
    <3>6. Callback'
      BY <1>7, <3>2, <3>3, <3>4, <3>5, SendsGoesOn
    <3>7. Ready'
      BY <3>5 DEF Ready
    <3> QED
      BY <1>2, <1>3, <1>4, <2>1, <3>6, <3>7 DEF Invariant
  <2> QED
    BY <2>2, <2>3
<1>q. ASSUME kind \notin Multipart, UNCHANGED <<footers, old, expired>>
      PROVE  Queue'
  <2>1. Alive' <= Alive
    BY <1>1, <1>2, AliveNat
  <2>2. old' \in 0..old
    BY <1>q, <1>1 DEF Queue, QueueTypes
  <2> QED
    BY <1>1, <1>2, <1>q, <2>1, <2>2, QueueKept
<1>9. ASSUME NEW x, x = ros'[1], Sends(kind', ros'), ~last_error => CallbackMay(l, x),
             kind \notin Multipart, UNCHANGED <<footers, old, expired>>,
             kind = "video" /\ restreaming' => \A i \in 1..Len(ros') : ros'[i].what = "chunk"
      PROVE  Invariant'
  <2>1. ros' # <<>>
    BY <1>9 DEF Sends
  <2>2. Callback'
    BY <1>7, <1>9, <2>1, SendsGoesOn
  <2>3. Ready'
    BY <2>1 DEF Ready
  <2> QED
    BY <1>2, <1>3, <1>4, <1>9, <1>q, <2>2, <2>3 DEF Invariant
<1>10. CASE kind = "video" /\ has_frame /\ send_chunk(n)
  <2>1. ros' = <<Item("chunk", n)>> /\ UNCHANGED <<footers, old, expired>>
    BY <1>10 DEF send_chunk
  <2>2. PICK x : x = ros'[1]
    OBVIOUS
  <2>3. /\ Sends(kind', ros') /\ \A i \in 1..Len(ros') : ros'[i].what = "chunk"
    BY <1>10, <2>1, ChunkSends
  <2>4. x.what = "chunk"
    BY <2>1, <2>2, ItemFacts
  <2>5. ~last_error => CallbackMay(l, x)
    BY <1>6, <1>10, <2>4 DEF CallbackMay, Follows
  <2> QED
    BY <1>9, <1>10, <2>1, <2>2, <2>3, <2>5 DEF Multipart
<1>11. CASE kind = "video" /\ ~has_frame /\ initialize(n)
  <2>1. UNCHANGED <<footers, old, expired>>
    BY <1>11 DEF initialize
  <2>2. PICK x : x = ros'[1]
    OBVIOUS
  <2>3. Sends(kind', ros') /\ x.what = "status"
    BY <1>11, <2>2, FirstSends, LateErrorSends DEF initialize
  <2>4. ~last_error => CallbackMay(l, x)
    BY <1>6, <1>11, <2>3 DEF CallbackMay, Follows
  <2> QED
    BY <1>9, <1>11, <2>1, <2>2, <2>3, <2>4 DEF Multipart
<1>12. CASE kind \in Snapshots /\ send_snapshot(n)
  <2>1. UNCHANGED <<footers, old, expired>>
    BY <1>12 DEF send_snapshot
  <2>2. PICK x : x = ros'[1]
    OBVIOUS
  <2>3. Sends(kind', ros') /\ x.what = "status"
    BY <1>12, <2>2, SnapshotSends DEF send_snapshot
  <2>4. ~last_error => l.what = "nothing" \/ (l.what = "payload" /\ kind = "ros_snapshot")
    BY <1>6, <1>12 DEF Snapshots, Streams, Multipart, Raw
  <2>5. ~last_error => CallbackMay(l, x)
    BY <2>3, <2>4 DEF CallbackMay, Follows
  <2>6. kind # "video" /\ kind \notin Multipart
    BY <1>12 DEF Snapshots, Multipart
  <2> QED
    BY <1>9, <2>1, <2>2, <2>3, <2>5, <2>6
<1> QED
  BY <1>8, <1>10, <1>11, <1>12 DEF send_image

(* The next image, and the last one sent again.                             *)
LEMMA ImageSteps ==
  ASSUME Invariant, image_callback \/ restream_frame
  PROVE  Invariant'
<1>1. /\ Callback /\ Unsubscribed /\ RequestTypes /\ StreamTypes
  BY DEF Invariant
<1>2. CASE image_callback
  <2>1. /\ ros = <<>> /\ subscribed /\ frame' = 1 - frame
        /\ \/ inactive /\ kind \in Raw /\ UNCHANGED <<has_frame, ros, footers, old, expired>>
           \/ ~(inactive /\ kind \in Raw) /\ has_frame' = TRUE /\ send_image(frame')
        /\ UNCHANGED <<client, text, arrived, io, restreaming, kind, streamer, inactive, subscribed,
                       image_sub, write_in_progress, last_error, writing, pending, received>>
    BY <1>2 DEF image_callback, request, line
  <2>2. /\ streamer # "none" /\ restreaming = FALSE
        /\ frame' \in {0, 1} /\ has_frame' \in BOOLEAN
    <3>1. streamer # "none" /\ restreaming = FALSE
      BY <1>1, <2>1 DEF Unsubscribed, Callback, RosTypes
    <3>2. frame' \in {0, 1}
      BY <1>1, <2>1 DEF StreamTypes
    <3>3. has_frame' \in BOOLEAN
      BY <1>1, <2>1 DEF StreamTypes
    <3> QED
      BY <3>1, <3>2, <3>3
  <2>3. StreamTypes'
    BY <1>1, <2>1, <2>2 DEF StreamTypes
  <2>4. CASE UNCHANGED <<has_frame, ros, footers, old, expired>>
    BY <1>1, <2>1, <2>3, <2>4, QuietStep DEF RequestTypes
  <2>5. CASE ~(inactive /\ kind \in Raw) /\ has_frame' = TRUE /\ send_image(frame')
    <3>1. PICK n \in {0, 1} : n = frame'
      BY <2>2
    <3>2. send_image(n)
      BY <2>5, <3>1
    <3> QED
      BY <2>1, <2>2, <2>3, <2>5, <3>2, ImageStep
  <2> QED
    BY <2>1, <2>4, <2>5
<1>3. CASE restream_frame
  <2>1. /\ ros = <<>> /\ streamer = "listed" /\ ~inactive /\ has_frame /\ send_image(frame)
        /\ restreaming' = (ros' # <<>>)
        /\ UNCHANGED <<client, text, arrived, io, kind, streamer, inactive, subscribed, image_sub,
                       frame, has_frame, write_in_progress, last_error, writing, pending, received>>
    BY <1>3 DEF restream_frame, request, line
  <2>2. StreamTypes'
    BY <1>1, <2>1 DEF StreamTypes
  <2>3. PICK n \in {0, 1} : n = frame
    BY <1>1 DEF StreamTypes
  <2>4. send_image(n)
    BY <2>1, <2>3
  <2>5. restreaming' \in BOOLEAN /\ (restreaming' => ros' # <<>> /\ has_frame)
    BY <2>1
  <2> QED
    BY <2>1, <2>2, <2>4, <2>5, ImageStep
<1> QED
  BY <1>2, <1>3

(* One step less: the next one follows the one that was made.               *)
LEMMA CallbackAdvances ==
  ASSUME Callback, ros # <<>>, ros' = Tail(ros), kind' = kind,
         restreaming' \in BOOLEAN, restreaming' => restreaming /\ ros' # <<>>
  PROVE  /\ RosTypes' /\ CallbackScript'
         /\ ros[1] \in CallbackItems /\ ros[1].what \in CallbackSteps(kind)
         /\ ros' # <<>> => Then(ros[1], ros'[1]) /\ ~IsFooter(ros[1])
         /\ ros' = <<>> => ros[1].what \in LastSteps(kind)
<1>1. ros \in Seq(CallbackItems) /\ CallbackScript
  BY DEF Callback, CallbackGoesOn, RosTypes, CallbackItems
<1>2. /\ ros' \in Seq(CallbackItems) /\ Len(ros') = Len(ros) - 1 /\ Len(ros) \in Nat \ {0}
      /\ \A i \in 1..Len(ros') : ros'[i] = ros[i + 1]
  BY <1>1, HeadTailProperties
<1>3. RosTypes'
  BY <1>2 DEF RosTypes, CallbackItems
<1>4. \A i \in 1..Len(ros') : i + 1 \in 1..Len(ros) /\ ros'[i] = ros[i + 1]
  BY <1>2
<1>5. \A i \in 1..Len(ros') - 1 : i + 1 \in 1..Len(ros) - 1 /\ ros'[i] = ros[i + 1] /\ ros'[i + 1] = ros[(i + 1) + 1]
  BY <1>2
<1>6. ASSUME NEW i \in 1..Len(ros') - 1 PROVE Then(ros[i], ros[i + 1])' /\ ~IsFooter(ros'[i])
  <2>1. PICK a, b : a = ros'[i] /\ b = ros'[i + 1]
    OBVIOUS
  <2>2. Then(a, b) /\ ~IsFooter(a)
    BY <1>1, <1>5, <2>1 DEF CallbackScript
  <2>3. Then(a, b)'
    BY <2>2, FollowsKept
  <2> QED
    BY <2>1, <2>2, <2>3 DEF Then, Follows
<1>7. ros' # <<>> => Len(ros') # 0
  BY <1>2, EmptySeq
<1>8. CallbackScript'
  <2>1. \A i \in 1..Len(ros') : /\ ros'[i].what \in CallbackSteps(kind')
                                /\ kind' = "video" /\ restreaming' => ros'[i].what = "chunk"
    BY <1>1, <1>4 DEF CallbackScript
  <2>2. ros' # <<>> => ros'[Len(ros')].what \in LastSteps(kind')
    <3>1. SUFFICES ASSUME ros' # <<>> PROVE ros'[Len(ros')].what \in LastSteps(kind')
      OBVIOUS
    <3>2. Len(ros') \in 1..Len(ros') /\ Len(ros') + 1 = Len(ros)
      BY <1>2, <1>7, <3>1
    <3>3. ros'[Len(ros')] = ros[Len(ros)]
      BY <1>2, <3>2
    <3> QED
      BY <1>1, <3>3 DEF CallbackScript
  <2> QED
    BY <1>6, <2>1, <2>2 DEF CallbackScript
<1>9. 1 \in 1..Len(ros) /\ ros[1] \in CallbackItems /\ ros[1].what \in CallbackSteps(kind)
  BY <1>1, <1>2 DEF CallbackScript
<1>10. ros' # <<>> => Then(ros[1], ros'[1]) /\ ~IsFooter(ros[1])
  <2>1. SUFFICES ASSUME ros' # <<>> PROVE Then(ros[1], ros'[1]) /\ ~IsFooter(ros[1])
    OBVIOUS
  <2>2. 1 \in 1..Len(ros) - 1 /\ ros'[1] = ros[1 + 1]
    BY <1>2, <1>7, <2>1
  <2> QED
    BY <1>1, <2>2 DEF CallbackScript
<1>11. ros' = <<>> => ros[1].what \in LastSteps(kind)
  <2>1. SUFFICES ASSUME ros' = <<>> PROVE ros[1].what \in LastSteps(kind)
    OBVIOUS
  <2>2. Len(ros) = 1
    <3>1. Len(<<>>) = 0
      OBVIOUS
    <3>2. Len(ros') = 0
      BY <2>1, <3>1, Zenon
    <3> QED
      BY <1>2, <3>2
  <2> QED
    BY <1>1, <2>2 DEF CallbackScript
<1> QED
  BY <1>3, <1>8, <1>9, <1>10, <1>11

(* What the steps of a callback have in common.                             *)
LEMMA CallbackFrame ==
  ASSUME Invariant, ros # <<>>,
         UNCHANGED <<client, text, arrived, io, kind, streamer, frame, has_frame>>,
         inactive' \in BOOLEAN, subscribed' \in BOOLEAN, image_sub' \in BOOLEAN
  PROVE  /\ streamer # "none" /\ text = <<>>
         /\ Handler' /\ RequestTypes' /\ StreamTypes' /\ Fresh' /\ Unsubscribed'
<1>1. /\ Handler /\ Unsubscribed /\ Fresh /\ RequestTypes /\ StreamTypes
  BY DEF Invariant
<1>2. streamer # "none" /\ text = <<>>
  BY <1>1 DEF Unsubscribed, Fresh
<1>3. Handler'
  BY <1>1, <1>2, HandlerIdle
<1>4. RequestTypes' /\ StreamTypes' /\ Fresh' /\ Unsubscribed'
  BY <1>1, <1>2 DEF RequestTypes, StreamTypes, Fresh, Unsubscribed
<1> QED
  BY <1>2, <1>3, <1>4

(* The end of a snapshot.                                                   *)
LEMMA FinishStep ==
  ASSUME Invariant, CallbackStep, Head(ros).what = "finish"
  PROVE  Invariant'
<1>1. /\ ros # <<>> /\ inactive' = TRUE /\ ros' = Tail(ros)
      /\ restreaming' = (restreaming /\ ros' # <<>>)
      /\ UNCHANGED <<client, text, arrived, io, kind, streamer, old, frame, has_frame, received,
                     expired, footers, write_in_progress, last_error, writing, pending>>
      /\ \/ image_sub' = FALSE /\ subscribed' = (subscribed /\ ~image_sub)
         \/ UNCHANGED <<image_sub, subscribed>>
  BY DEF CallbackStep, Finish, request, line
<1>2. /\ Connection /\ Callback /\ Queue /\ Ready /\ StreamTypes
  BY DEF Invariant
<1>3. inactive' \in BOOLEAN /\ subscribed' \in BOOLEAN /\ image_sub' \in BOOLEAN
  BY <1>1, <1>2, Zenon DEF StreamTypes
<1>4. /\ streamer # "none"
      /\ Handler' /\ RequestTypes' /\ StreamTypes' /\ Fresh' /\ Unsubscribed'
  BY <1>1, <1>3, CallbackFrame
<1>5. restreaming' \in BOOLEAN /\ (restreaming' => restreaming /\ ros' # <<>>)
  BY <1>1, <1>2, Zenon DEF Callback, RosTypes
<1>6. /\ ros[1].what \in CallbackSteps(kind)
      /\ ros' # <<>> => Then(ros[1], ros'[1])
  BY <1>1, <1>2, <1>5, CallbackAdvances
<1>7. ros[1].what = "finish"
  <2>1. Head(ros) = ros[1]
    BY <1>1, <1>2 DEF Callback, RosTypes
  <2> QED
    BY <2>1
<1>8. ros' = <<>> /\ restreaming' = FALSE
  <2>1. ros' = <<>>
    BY <1>6, <1>7 DEF Then, Follows, Subscribing
  <2> QED
    BY <1>1, <2>1
<1>9. kind \notin Multipart /\ kind # "video"
  BY <1>6, <1>7 DEF CallbackSteps
<1>10. Callback'
  BY <1>8, CallbackEnds
<1>11. Connection' /\ Latest' = Latest /\ Alive' = Alive
  BY <1>1, <1>2, LineKept
<1>12. Queue'
  <2>1. Alive' <= Alive
    BY <1>2, <1>11, AliveNat
  <2>2. old' \in 0..old
    BY <1>1, <1>2 DEF Queue, QueueTypes
  <2> QED
    BY <1>1, <1>2, <1>8, <1>11, <2>1, <2>2, QueueKept
<1>13. Ready'
  <2>1. ~last_error => Latest.what = "payload"
    BY <1>1, <1>2, <1>7 DEF Callback, CallbackGoesOn, CallbackMay
  <2> QED
    BY <1>1, <1>9, <1>11, <2>1 DEF Ready
<1> QED
  BY <1>4, <1>10, <1>11, <1>12, <1>13 DEF Invariant

(* A write of a callback's.                                                 *)
LEMMA CallbackWritesStep ==
  ASSUME Invariant, CallbackStep, Head(ros).what # "finish"
  PROVE  Invariant'
<1>1. /\ ros # <<>> /\ ~Uncaught
      /\ write(Head(ros))
      /\ ros' = IF Throws THEN <<>> ELSE Tail(ros)
      /\ inactive' = (inactive \/ Throws)
      /\ footers' = IF IsFooter(Head(ros)) /\ ~Throws /\ max_queue_size > 0
                    THEN footers + 1 ELSE footers
      /\ restreaming' = (restreaming /\ ros' # <<>>)
      /\ UNCHANGED <<client, text, arrived, io, kind, streamer, old, frame, has_frame, received,
                     expired, image_sub, subscribed>>
  BY DEF CallbackStep, CallbackWrites, request
<1>2. /\ Connection /\ Callback /\ Queue /\ Ready /\ StreamTypes
  BY DEF Invariant
<1>3. /\ inactive' \in BOOLEAN /\ subscribed' \in BOOLEAN /\ image_sub' \in BOOLEAN
      /\ restreaming' \in BOOLEAN /\ (restreaming' => restreaming /\ ros' # <<>>)
  <2>1. inactive' \in BOOLEAN
    BY <1>1
  <2> QED
    BY <1>1, <1>2, <2>1, Zenon DEF StreamTypes, Callback, RosTypes
<1>4. /\ streamer # "none" /\ text = <<>>
      /\ Handler' /\ RequestTypes' /\ StreamTypes' /\ Fresh' /\ Unsubscribed'
  BY <1>1, <1>3, CallbackFrame
<1>5. PICK x : x = Head(ros)
  OBVIOUS
<1>6. /\ x = ros[1] /\ x \in CallbackItems /\ x.what \in CallbackSteps(kind)
  <2>1. ros \in Seq(CallbackItems)
    BY <1>2 DEF Callback, RosTypes, CallbackItems
  <2>2. Head(ros) = ros[1] /\ 1 \in 1..Len(ros)
    BY <1>1, <2>1
  <2> QED
    BY <1>2, <1>5, <2>1, <2>2 DEF Callback, CallbackGoesOn, CallbackScript
<1>7. x.what \in Writes /\ x \in Items(Writes)
  <2>1. x.what # "finish"
    BY <1>5
  <2>2. x.what # "throw"
    <3>1. ASSUME x.what = "throw" PROVE FALSE
      <4>1. kind = "video"
        BY <1>6, <3>1 DEF CallbackSteps
      <4> QED
        BY <1>1, <1>5, <3>1, <4>1 DEF Uncaught
    <3> QED
      BY <3>1
  <2>3. x.what \in Writes
    BY <1>6, <2>1, <2>2 DEF CallbackSteps, Writes
  <2> QED
    BY <1>6, <2>3 DEF CallbackItems, Items
<1>8. CASE ~last_error
  <2>1. ros' = Tail(ros) /\ ~Throws /\ inactive' = inactive
    BY <1>1, <1>2, <1>8, Zenon DEF Throws, StreamTypes
  <2>2. /\ Connection' /\ last_error' = FALSE /\ write_in_progress' = TRUE
        /\ Latest' = x
        /\ Alive' = Alive + (IF IsFooter(x) THEN 1 ELSE 0)
    <3>1. Follows(Latest, x)
      BY <1>1, <1>2, <1>6, <1>7, <1>8 DEF Callback, CallbackGoesOn, CallbackMay
    <3> QED
      BY <1>1, <1>2, <1>5, <1>7, <1>8, <3>1, WriteStep
  <2>3. /\ RosTypes' /\ CallbackScript'
        /\ ros' # <<>> => Then(x, ros'[1]) /\ ~IsFooter(x)
        /\ ros' = <<>> => x.what \in LastSteps(kind)
    BY <1>1, <1>2, <1>3, <1>6, <2>1, CallbackAdvances
  <2>4. Callback'
    <3>1. ASSUME ros' # <<>>
          PROVE  CallbackMay(Latest, ros[1])'
      <4>1. PICK y : y = ros'[1]
        OBVIOUS
      <4>2. Then(x, y)
        BY <2>3, <3>1, <4>1
      <4>3. CallbackMay(x, y)
        BY <1>7, <4>2 DEF CallbackMay, Then, Writes, Subscribing, Follows
      <4>4. CallbackMay(x, y)'
        BY <1>1, <4>3, MayKept
      <4> QED
        BY <2>2, <4>1, <4>4 DEF CallbackMay, Follows
    <3>2. ros' # <<>> /\ kind' = "video" => has_frame'
      BY <1>1, <1>2 DEF Callback, CallbackGoesOn
    <3> QED
      BY <2>3, <3>1, <3>2 DEF Callback, CallbackGoesOn
  <2>5. Ready'
    <3>1. SUFFICES ASSUME ros' = <<>> PROVE Ready'
      BY DEF Ready
    <3>2. x.what \in LastSteps(kind)
      BY <2>3, <3>1
    <3>3. kind \in Multipart => x.what = "footer"
      BY <3>2 DEF LastSteps
    <3>4. kind = "video" => x.what = "chunk" /\ has_frame
      BY <1>1, <1>2, <1>7, <3>2 DEF LastSteps, Multipart, Writes, Callback, CallbackGoesOn
    <3>5. kind \in Multipart \/ kind = "video"
      BY <1>7, <3>2 DEF LastSteps, Writes
    <3> QED
      BY <1>1, <2>2, <3>3, <3>4, <3>5 DEF Ready, Multipart
  <2>6. Queue'
    <3>1. CASE ~IsFooter(x)
      <4>1. footers' = footers
        BY <1>1, <1>5, <3>1
      <4>2. Alive' <= Alive
        <5>1. Alive \in Nat /\ Alive' = Alive + 0
          BY <1>2, <2>2, <3>1, AliveNat
        <5> QED
          BY <5>1
      <4>3. old' \in 0..old
        BY <1>1, <1>2 DEF Queue, QueueTypes
      <4> QED
        BY <1>1, <1>2, <1>8, <2>2, <4>1, <4>2, <4>3, QueueKept
    <3>2. CASE IsFooter(x)
      <4>1. ros' = <<>> /\ kind \in Multipart
        BY <1>6, <2>3, <3>2 DEF IsFooter, CallbackSteps
      <4>2. PICK a \in Nat, f \in Nat, e \in Nat : a = Alive /\ f = footers /\ e = expired
        BY <1>2, AliveNat DEF Queue, QueueTypes
      <4>3. Alive' = a + 1 /\ expired' = e
        BY <1>1, <2>2, <3>2, <4>2
      <4>4. footers' = IF max_queue_size > 0 THEN f + 1 ELSE f
        BY <1>1, <1>5, <2>1, <3>2, <4>2
      <4>5. QueueTypes'
        <5>1. f \in Nat /\ old \in 0..f /\ e \in 0..MaxExpired
          BY <1>2, <4>2 DEF Queue, QueueTypes
        <5>2. footers' \in Nat /\ old' \in 0..footers'
          BY <1>1, <4>4, <5>1
        <5> QED
          BY <1>1, <4>2, <4>3, <5>1, <5>2 DEF QueueTypes
      <4>6. ASSUME max_queue_size > 0
            PROVE  f + 1 <= max_queue_size /\ a <= f + e
        <5>1. footers + 1 <= max_queue_size /\ Alive <= footers + expired
          BY <1>1, <1>2, <1>8, <4>1, <4>6 DEF Queue, Counted
        <5> QED
          BY <4>2, <5>1, Zenon
      <4>7. Counted'
        <5>1. ~last_error' => expired' + old' <= MaxExpired
          BY <1>1, <1>2, <1>8 DEF Queue, Counted
        <5>2. ASSUME max_queue_size > 0
              PROVE  /\ footers' + (IF kind' \in Multipart /\ ros' # <<>> THEN 1 ELSE 0) <= max_queue_size
                     /\ Alive' <= footers' + expired'
          <6>1. footers' = f + 1
            BY <4>4, <5>2
          <6>2. f + 1 + 0 <= max_queue_size /\ a + 1 <= f + 1 + e
            BY <4>2, <4>6, <5>2, StreamAssumption
          <6>3. (IF kind' \in Multipart /\ ros' # <<>> THEN 1 ELSE 0) = 0
            BY <4>1
          <6> QED
            BY <4>3, <6>1, <6>2, <6>3, Zenon
        <5> QED
          BY <5>1, <5>2, Zenon DEF Counted
      <4>8. QueueBounded'
        <5>1. ASSUME max_queue_size > 0 PROVE a + 1 <= max_queue_size + e
          BY <4>2, <4>6, <5>1, StreamAssumption
        <5> QED
          BY <4>3, <5>1, Zenon DEF QueueBounded
      <4> QED
        BY <4>5, <4>7, <4>8 DEF Queue
    <3> QED
      BY <3>1, <3>2
  <2> QED
    BY <1>4, <2>2, <2>4, <2>5, <2>6 DEF Invariant
<1>9. CASE last_error
  <2>1. Throws /\ UNCHANGED <<write_in_progress, last_error, writing, pending>>
    BY <1>1, <1>2, <1>9, WriteAfterError
  <2>2. Connection' /\ Alive' = Alive
    BY <1>1, <1>2, <1>9, <2>1, ErrorKept
  <2>3. ros' = <<>> /\ restreaming' = FALSE /\ footers' = footers
    BY <1>1, <2>1
  <2>4. Callback'
    BY <2>3, CallbackEnds
  <2>5. Ready'
    BY <1>9, <2>1 DEF Ready
  <2>6. Queue'
    <3>1. Alive' <= Alive
      BY <1>2, <2>2, AliveNat
    <3>2. old' \in 0..old
      BY <1>1, <1>2 DEF Queue, QueueTypes
    <3> QED
      BY <1>1, <1>2, <1>9, <2>1, <2>2, <2>3, <3>1, <3>2, QueueKept
  <2> QED
    BY <1>4, <2>2, <2>4, <2>5, <2>6 DEF Invariant
<1> QED
  BY <1>8, <1>9

(* The end of the process.                                                  *)
LEMMA TerminateStep ==
  ASSUME Invariant, Terminate
  PROVE  Invariant'
<1>1. /\ Uncaught \/ Unhandled
      /\ client' = "gone" /\ streamer' = "erased" /\ subscribed' = FALSE
      /\ io' = <<>> /\ ros' = <<>>
      /\ write_in_progress' = FALSE /\ last_error' = TRUE /\ writing' = <<>>
      /\ text' = <<>> /\ arrived' = 0
      /\ UNCHANGED <<restreaming, kind, inactive, image_sub, footers, old, frame,
                     has_frame, pending, received, expired>>
  BY DEF Terminate
<1>2. /\ Connection /\ Handler /\ Callback /\ Queue /\ Unsubscribed /\ Fresh /\ RequestTypes /\ StreamTypes
  BY DEF Invariant
<1>3. restreaming' = FALSE
  <2>1. CASE Uncaught
    <3>1. ros # <<>> /\ kind = "video" /\ Head(ros).what # "chunk"
      BY <2>1 DEF Uncaught
    <3>2. ros[1] = Head(ros) /\ 1 \in 1..Len(ros)
      BY <1>2, <3>1 DEF Callback, RosTypes
    <3>3. ~restreaming
      BY <1>2, <3>1, <3>2 DEF Callback, CallbackGoesOn, CallbackScript
    <3> QED
      BY <1>1, <1>2, <3>3, Zenon DEF Callback, RosTypes
  <2>2. CASE Unhandled
    <3>1. io # <<>> /\ Head(io).what \in Writes
      BY <2>2 DEF Unhandled
    <3>2. Head(io) = io[1]
      BY <1>2, <3>1 DEF Handler, IoTypes
    <3>3. streamer = "none"
      BY <1>2, <3>1, <3>2 DEF Handler, HandlerGoesOn
    <3> QED
      BY <1>1, <1>2, <3>3, Zenon DEF Unsubscribed, Callback, RosTypes
  <2> QED
    BY <1>1, <2>1, <2>2
<1>4. Callback'
  BY <1>1, <1>3, CallbackEnds
<1>5. Handler'
  <2> DEFINE S == Items(Writes \cup {"subscribe", "subscribe_unknown", "keep", "list"})
  <2>1. <<>> \in Seq(S)
    OBVIOUS
  <2> HIDE DEF S
  <2>2. IoTypes'
    BY <1>1, <2>1 DEF IoTypes, S
  <2> QED
    BY <1>1, <2>2 DEF Handler, HandlerGoesOn, HandlerScript
<1>6. Connection' /\ Alive' <= Alive
  BY <1>1, <1>2, ErrorStep
<1>7. Queue'
  <2>1. old' \in 0..old
    BY <1>1, <1>2 DEF Queue, QueueTypes
  <2> QED
    BY <1>1, <1>2, <1>6, <2>1, QueueKept
<1>8. RequestTypes'
  BY <1>1, EmptySeq DEF RequestTypes
<1>9. StreamTypes' /\ Fresh' /\ Unsubscribed' /\ Ready'
  BY <1>1, <1>2 DEF StreamTypes, Fresh, Unsubscribed, Ready
<1> QED
  BY <1>4, <1>5, <1>6, <1>7, <1>8, <1>9 DEF Invariant

(* Half a second passes.                                                    *)
LEMMA HalfSecondStep ==
  ASSUME Invariant, HalfSecond
  PROVE  Invariant'
<1>1. /\ last_error \/ expired + footers <= MaxExpired
      /\ old' = footers
      /\ UNCHANGED <<client, text, arrived, io, ros, restreaming, kind, streamer, inactive, subscribed,
                     image_sub, footers, frame, has_frame, write_in_progress, last_error,
                     writing, pending, received, expired>>
  BY DEF HalfSecond, request, callback, line
<1>2. /\ Connection /\ Handler /\ Callback /\ Queue /\ Unsubscribed /\ Fresh /\ Ready
      /\ RequestTypes /\ StreamTypes
  BY DEF Invariant
<1>3. Connection' /\ Latest' = Latest /\ Alive' = Alive
  BY <1>1, <1>2, LineKept
<1>4. Handler' /\ Callback' /\ Ready'
  BY <1>1, <1>2, <1>3, HandlerKept, CallbackKept, ReadyKept
<1>5. RequestTypes' /\ StreamTypes' /\ Fresh' /\ Unsubscribed'
  BY <1>1, <1>2 DEF RequestTypes, StreamTypes, Fresh, Unsubscribed
<1>6. Queue'
  <2>1. QueueTypes'
    BY <1>1, <1>2 DEF Queue, QueueTypes
  <2>2. Counted'
    <3>1. ~last_error' => expired' + old' <= MaxExpired
      BY <1>1
    <3>2. ASSUME max_queue_size > 0
          PROVE  /\ footers' + (IF kind' \in Multipart /\ ros' # <<>> THEN 1 ELSE 0) <= max_queue_size
                 /\ ~last_error' => Alive' <= footers' + expired'
      <4>1. /\ footers + (IF kind \in Multipart /\ ros # <<>> THEN 1 ELSE 0) <= max_queue_size
            /\ ~last_error => Alive <= footers + expired
        BY <1>2, <3>2 DEF Queue, Counted
      <4> QED
        BY <1>1, <1>3, <4>1
    <3> QED
      BY <3>1, <3>2, Zenon DEF Counted
  <2>3. QueueBounded'
    BY <1>1, <1>2, <1>3 DEF Queue, QueueBounded
  <2> QED
    BY <2>1, <2>2, <2>3 DEF Queue
<1> QED
  BY <1>3, <1>4, <1>5, <1>6 DEF Invariant

-----------------------------------------------------------------------------
(*                                Theorems                                  *)

LEMMA InitInvariant == Init => Invariant
<1> SUFFICES ASSUME Init PROVE Invariant
  OBVIOUS
<1>1. /\ client = "reading" /\ text \in Requests /\ arrived = 0
      /\ io = <<>> /\ ros = <<>> /\ restreaming = FALSE /\ kind = "none" /\ streamer = "none"
      /\ inactive = FALSE /\ subscribed = FALSE /\ image_sub = FALSE
      /\ footers = 0 /\ old = 0 /\ frame = 0 /\ has_frame = FALSE
      /\ write_in_progress = FALSE /\ last_error = FALSE
      /\ writing = <<>> /\ pending = <<>> /\ received = Plain("nothing") /\ expired = 0
  BY DEF Init
<1>2. Plain("nothing") \in Items(Writes \cup {"nothing"})
  BY ItemFacts
<1>e. \A S : <<>> \in Seq(S)
  BY EmptySeq
<1>3. LineTypes
  BY <1>1, <1>2, <1>e, Zenon DEF LineTypes
<1>4. Idle /\ Fresh /\ Unsubscribed /\ Ready
  BY <1>1 DEF Idle, Fresh, Unsubscribed, Ready
<1>5. InOrder
  <2>1. Length(<<>>, <<>>) = 1
    BY DEF Length
  <2> QED
    BY <1>1, <2>1 DEF InOrder
<1>6. Handler /\ Callback
  <2>1. IoTypes /\ RosTypes
    BY <1>1, <1>e, Zenon DEF IoTypes, RosTypes
  <2> QED
    BY <1>1, <2>1 DEF Handler, HandlerGoesOn, HandlerScript, Callback, CallbackGoesOn, CallbackScript
<1>7. Queue
  <2>1. Footers(<<>>) = 0
    BY <1>2, <1>e, FootersFacts
  <2>2. Alive = 0
    BY <1>1, <2>1 DEF Alive
  <2> QED
    BY <1>1, <2>2, StreamAssumption DEF Queue, QueueTypes, Counted, QueueBounded
<1>8. RequestTypes
  BY <1>1, StreamAssumption DEF RequestTypes
<1>9. StreamTypes
  BY <1>1 DEF StreamTypes, Kinds
<1> QED
  BY <1>3, <1>4, <1>5, <1>6, <1>7, <1>8, <1>9 DEF Invariant, Connection

LEMMA StepInvariant == Invariant /\ [Next]_vars => Invariant'
<1> SUFFICES ASSUME Invariant, [Next]_vars PROVE Invariant'
  OBVIOUS
<1>1. CASE Read
  BY <1>1, ReadStep DEF Read
<1>2. CASE HandlerStep
  BY <1>2, HandlerWritesStep, StartFailsStep, HandlerOtherStep DEF HandlerStep
<1>3. CASE handle_write \/ handle_read_raw
  BY <1>3, LineSteps DEF handle_write
<1>4. CASE image_callback \/ restream_frame
  BY <1>4, ImageSteps
<1>5. CASE CallbackStep
  BY <1>5, FinishStep, CallbackWritesStep
<1>6. CASE Terminate
  BY <1>6, TerminateStep
<1>7. CASE HalfSecond
  BY <1>7, HalfSecondStep
<1>8. CASE BadImage \/ cleanup_inactive_streams \/ ClientStalls \/ ClientLeaves
  BY <1>8, QuietSteps
<1>9. CASE UNCHANGED vars
  <2>1. UNCHANGED <<client, text, arrived, io, ros, restreaming, kind, streamer, inactive, subscribed,
                    image_sub, footers, old, frame, has_frame, write_in_progress, last_error,
                    writing, pending, received, expired>>
    BY <1>9 DEF vars, request, callback, stream, line
  <2>2. StreamTypes' /\ client' \in {"reading", "stalled", "gone"}
    BY <2>1 DEF Invariant, StreamTypes, RequestTypes
  <2> QED
    BY <2>1, <2>2, QuietStep
<1> QED
  BY <1>1, <1>2, <1>3, <1>4, <1>5, <1>6, <1>7, <1>8, <1>9 DEF Next

LEMMA InvariantHolds == Spec => []Invariant
BY InitInvariant, StepInvariant, PTL DEF Spec

(* The types, for any requests and any length of the queue.                 *)
THEOREM TypeCorrect == Spec => []TypeOK
BY InvariantHolds, TypesOfParts, PTL

(* What is on its way, as one sequence.                                     *)
LEMMA SentSequence ==
  ASSUME NEW S, NEW r \in S, NEW w \in Seq(S), NEW p \in Seq(S)
  PROVE  /\ Len(<<r>> \o w \o p) = Length(w, p)
         /\ \A i \in 1..Length(w, p) : (<<r>> \o w \o p)[i] = Nth(r, w, p, i)
<1>1. /\ <<r>> \in Seq(S) /\ Len(<<r>>) = 1 /\ <<r>>[1] = r
      /\ Len(w) \in Nat /\ Len(p) \in Nat
  OBVIOUS
<1>2. PICK v : v = <<r>> \o w
  OBVIOUS
<1>3. /\ v \in Seq(S) /\ Len(v) = 1 + Len(w)
      /\ \A i \in 1..1 + Len(w) : v[i] = IF i <= 1 THEN <<r>>[i] ELSE w[i - 1]
  BY <1>1, <1>2, ConcatProperties
<1>4. PICK u : u = v \o p
  OBVIOUS
<1>5. /\ Len(u) = Len(v) + Len(p)
      /\ \A i \in 1..Len(v) + Len(p) : u[i] = IF i <= Len(v) THEN v[i] ELSE p[i - Len(v)]
  BY <1>3, <1>4, ConcatProperties
<1>6. Len(u) = Length(w, p)
  BY <1>1, <1>3, <1>5 DEF Length
<1>7. ASSUME NEW i \in 1..Length(w, p) PROVE u[i] = Nth(r, w, p, i)
  <2>1. i \in 1..Len(v) + Len(p) /\ i \in Nat
    BY <1>1, <1>3, <1>7 DEF Length
  <2>2. CASE i = 1
    BY <1>1, <1>3, <1>5, <2>1, <2>2 DEF Nth
  <2>3. CASE i # 1 /\ i <= 1 + Len(w)
    <3>1. v[i] = w[i - 1]
      BY <1>1, <1>3, <2>1, <2>3
    <3> QED
      BY <1>1, <1>3, <1>5, <2>1, <2>3, <3>1 DEF Nth
  <2>4. CASE ~(i <= 1 + Len(w))
    <3>1. i - Len(v) = i - 1 - Len(w)
      BY <1>1, <1>3, <2>1
    <3> QED
      BY <1>1, <1>3, <1>5, <2>1, <2>4, <3>1 DEF Nth
  <2> QED
    BY <2>2, <2>3, <2>4
<1> QED
  BY <1>2, <1>4, <1>6, <1>7

(* However the writes of the handlers and of the callbacks interleave with  *)
(* the ends of earlier writes, what the client gets is in order; a head     *)
(* comes twice only when a video's start has failed after its first one,    *)
(* and then the error reply is all that follows (HttpConnection::write,     *)
(* handle_write; MultipartStream; LibavStreamerBase::initialize).           *)
THEOREM PartsInOrder == Spec => []PartsWhole
<1>1. ASSUME Invariant PROVE PartsWhole
  <2> DEFINE I == Items(Writes \cup {"nothing"})
  <2>1. LineTypes /\ Idle /\ InOrder
    BY <1>1 DEF Invariant, Connection
  <2>2. received \in I /\ writing \in Seq(I) /\ pending \in Seq(I)
    <3>1. received \in I /\ writing \in Seq(Items(Writes)) /\ pending \in Seq(Items(Writes))
      BY <2>1 DEF LineTypes
    <3> QED
      BY <3>1, ItemFacts, SeqMonotonic
  <2> HIDE DEF I
  <2>3. CASE ~last_error
    <3>1. PICK s : s = <<received>> \o writing \o pending
      OBVIOUS
    <3>2. /\ Len(s) = Length(writing, pending) /\ Length(writing, pending) \in Nat
          /\ \A i \in 1..Len(s) : s[i] = Sent(i)
      <4>1. /\ Len(s) = Length(writing, pending)
            /\ \A i \in 1..Length(writing, pending) : s[i] = Nth(received, writing, pending, i)
        BY <2>2, <3>1, SentSequence
      <4>2. Length(writing, pending) \in Nat
        BY <2>2 DEF Length
      <4> QED
        BY <4>1, <4>2 DEF Sent
    <3>3. \A i \in 1..Len(s) - 1 : Follows(Sent(i), Sent(i + 1))
      BY <2>1, <2>3, <3>2 DEF InOrder
    <3>4. \A i \in 1..Len(s) - 1 : Follows(s[i], s[i + 1])
      <4>1. \A i \in 1..Len(s) - 1 : i \in 1..Len(s) /\ i + 1 \in 1..Len(s)
        BY <3>2
      <4> QED
        BY <3>2, <3>3, <4>1
    <3> QED
      BY <2>3, <3>1, <3>4 DEF PartsWhole
  <2>4. CASE last_error
    <3>1. writing = <<>>
      BY <2>1, <2>4 DEF Idle, LineTypes
    <3>2. <<received>> \o writing \o <<>> = <<received>> /\ Len(<<received>>) = 1
      BY <2>2, <3>1, ConcatEmptySeq
    <3> QED
      BY <2>4, <3>2 DEF PartsWhole
  <2> QED
    BY <2>3, <2>4
<1>2. Invariant => PartsWhole
  BY <1>1
<1> QED
  BY <1>2, InvariantHolds, PTL

(* A client that does not read costs at most the frames of the queue and    *)
(* those that have expired unsent (MultipartStream::is_busy).               *)
THEOREM MemoryBounded == Spec => []QueueBounded
<1>1. Invariant => QueueBounded
  BY DEF Invariant, Queue
<1> QED
  BY <1>1, InvariantHolds, PTL
-----------------------------------------------------------------------------
(*                   Induction over numbers and sequences                   *)

(* Of a set of numbers, one is the smallest.                                *)
LEMMA Least ==
  ASSUME NEW S \in SUBSET Nat, S # {}
  PROVE  \E n \in S : \A m \in S : ~(m < n)
<1> DEFINE R == {ss \in Nat \X Nat : ss[1] < ss[2]}
<1>1. IsWellFoundedOn(R, Nat)
  BY NatLessThanWellFounded DEF OpToRel
<1>2. PICK n \in S : \A m \in S : <<m, n>> \notin R
  <2> HIDE DEF R
  <2> QED
    BY <1>1, WFMin, Zenon
<1> QED
  BY <1>2

(* A sequence is empty, or one with one element appended.                   *)
LEMMA Appended ==
  ASSUME NEW A, NEW s \in Seq(A), s # <<>>
  PROVE  \E t \in Seq(A), c \in A : s = Append(t, c) /\ Len(s) = Len(t) + 1
<1>1. PICK n \in Nat : n = Len(s) /\ n > 0
  BY LenProperties, EmptySeq
<1>2. PICK t : t = SubSeq(s, 1, n - 1)
  OBVIOUS
<1>3. \A i \in 1..n : s[i] \in A
  BY <1>1, ElementOfSeq
<1>4. t \in Seq(A) /\ Len(t) = n - 1 /\ \A i \in 1..n - 1 : t[i] = s[i]
  BY <1>1, <1>2, <1>3, SubSeqProperties
<1>5. s[n] \in A
  BY <1>1, <1>3
<1>6. Append(t, s[n]) = s
  <2>1. /\ Append(t, s[n]) \in Seq(A) /\ Len(Append(t, s[n])) = n
        /\ \A i \in 1..n - 1 : Append(t, s[n])[i] = t[i]
        /\ Append(t, s[n])[n] = s[n]
    BY <1>1, <1>4, <1>5, AppendProperties
  <2>2. ASSUME NEW i \in 1..n PROVE Append(t, s[n])[i] = s[i]
    <3>1. i = n \/ i \in 1..n - 1
      BY <1>1
    <3> QED
      BY <1>4, <2>1, <3>1
  <2> QED
    BY <1>1, <2>1, <2>2, SeqEqual
<1> QED
  BY <1>1, <1>4, <1>5, <1>6

(* Induction over sequences, of a set.                                      *)
LEMMA Growing ==
  ASSUME NEW A, NEW S, <<>> \in S,
         \A t \in Seq(A), c \in A : t \in S => Append(t, c) \in S
  PROVE  Seq(A) \subseteq S
<1> SUFFICES ASSUME NEW s \in Seq(A), s \notin S PROVE FALSE
  OBVIOUS
<1> DEFINE Lengths == {n \in Nat : \E u \in Seq(A) : u \notin S /\ Len(u) = n}
<1>1. Lengths \in SUBSET Nat /\ Lengths # {}
  BY LenProperties
<1>2. PICK n \in Lengths : \A m \in Lengths : ~(m < n)
  <2> HIDE DEF Lengths
  <2> QED
    BY <1>1, Least
<1>3. PICK u \in Seq(A) : u \notin S /\ Len(u) = n
  BY <1>2
<1>4. PICK t \in Seq(A), c \in A : u = Append(t, c) /\ Len(u) = Len(t) + 1
  BY <1>3, Appended
<1>5. t \notin S
  BY <1>3, <1>4
<1>6. Len(t) \in Lengths /\ Len(t) < n
  BY <1>3, <1>4, <1>5, LenProperties
<1> QED
  BY <1>2, <1>6

(* f and g are the same up to n, if each step is.                           *)
SameSteps(f, g, n) == f[0] = g[0] /\ \A i \in 1..n : f[i - 1] = g[i - 1] => f[i] = g[i]

(* Functions with the same first value and the same steps agree.            *)
LEMMA Agreement ==
  ASSUME NEW n \in Nat, NEW f, NEW g, SameSteps(f, g, n)
  PROVE  f[n] = g[n]
<1> SUFFICES ASSUME f[n] # g[n] PROVE FALSE
  OBVIOUS
<1> DEFINE Different == {i \in 0..n : f[i] # g[i]}
<1>1. Different \in SUBSET Nat /\ n \in Different
  OBVIOUS
<1>2. PICK i \in Different : \A j \in Different : ~(j < i)
  <2> HIDE DEF Different
  <2> QED
    BY <1>1, Least
<1>3. i \in 1..n /\ i - 1 \in 0..n /\ i - 1 < i
  BY <1>2 DEF SameSteps
<1>4. f[i - 1] = g[i - 1]
  BY <1>2, <1>3
<1>5. f[i] = g[i]
  BY <1>3, <1>4 DEF SameSteps
<1> QED
  BY <1>2, <1>5

(* What appending does.                                                     *)
LEMMA AppendFacts ==
  ASSUME NEW A, NEW s \in Seq(A), NEW c \in A, NEW n \in Nat, n = Len(s)
  PROVE  /\ Append(s, c) \in Seq(A) /\ Len(Append(s, c)) = n + 1
         /\ Append(s, c)[n + 1] = c
         /\ \A i \in 1..n : Append(s, c)[i] = s[i]
  BY AppendProperties

-----------------------------------------------------------------------------
(*              The functions of the parser and of the grammar              *)

(* f is what parse goes through, from p. *)
Unrolled(f, p, chunk) ==
  f = [i \in 0..Len(chunk) |-> IF i = 0 THEN p ELSE consume(f[i - 1], chunk[i])]

(* There is such a function, by induction over the chunk.                   *)
LEMMA ParseExists ==
  ASSUME NEW A, NEW p, NEW seq \in Seq(A)
  PROVE  \E f : Unrolled(f, p, seq)
<1> DEFINE S == {chunk \in Seq(A) : \E f : Unrolled(f, p, chunk)}
<1>1. <<>> \in S
  <2>1. Unrolled([i \in 0..0 |-> p], p, <<>>)
    BY EmptySeq DEF Unrolled
  <2> QED
    BY <2>1, EmptySeq
<1>2. ASSUME NEW t \in Seq(A), NEW c \in A, t \in S
      PROVE  Append(t, c) \in S
  <2>1. PICK f : Unrolled(f, p, t)
    BY <1>2
  <2>2. PICK n \in Nat : n = Len(t)
    BY LenProperties
  <2>3. PICK u : u = Append(t, c)
    OBVIOUS
  <2>4. u \in Seq(A) /\ Len(u) = n + 1 /\ u[n + 1] = c /\ \A i \in 1..n : u[i] = t[i]
    BY <2>2, <2>3, AppendFacts
  <2>5. PICK g : g = [i \in 0..n + 1 |-> IF i <= n THEN f[i] ELSE consume(f[n], c)]
    OBVIOUS
  <2>6. ASSUME NEW i \in 0..n + 1
        PROVE  g[i] = IF i = 0 THEN p ELSE consume(g[i - 1], u[i])
    <3>1. CASE i = 0
      <4>1. i <= n /\ i \in 0..n
        BY <3>1
      <4>2. g[i] = f[i] /\ f[i] = p
        BY <2>1, <2>2, <2>5, <3>1, <4>1 DEF Unrolled
      <4> QED
        BY <3>1, <4>2
    <3>2. CASE i \in 1..n
      <4>1. i <= n /\ i \in 0..n /\ i - 1 \in 0..n + 1 /\ i - 1 <= n /\ i # 0 /\ i \in 0..n + 1
        BY <3>2
      <4>2. g[i] = f[i] /\ g[i - 1] = f[i - 1]
        BY <2>5, <4>1, Zenon
      <4>3. f[i] = consume(f[i - 1], t[i])
        BY <2>1, <2>2, <4>1, Zenon DEF Unrolled
      <4>4. u[i] = t[i]
        BY <2>4, <3>2
      <4> QED
        BY <4>1, <4>2, <4>3, <4>4, Zenon
    <3>3. CASE i = n + 1
      <4>1. i \in 0..n + 1 /\ ~(i <= n) /\ i # 0 /\ n \in 0..n + 1 /\ n <= n /\ i - 1 = n
        BY <3>3
      <4>2. g[i] = consume(f[n], c)
        BY <2>5, <3>3, <4>1, Zenon
      <4>3. g[n] = f[n]
        BY <2>5, <4>1, Zenon
      <4> QED
        BY <2>4, <3>3, <4>1, <4>2, <4>3, Zenon
    <3> QED
      BY <3>1, <3>2, <3>3
  <2>7. Unrolled(g, p, u)
    BY <2>4, <2>5, <2>6 DEF Unrolled
  <2> QED
    BY <2>3, <2>4, <2>7
<1>3. Seq(A) \subseteq S
  <2> HIDE DEF S
  <2> QED
    BY <1>1, <1>2, Growing
<1> QED
  BY <1>3

(* parse is where it ends.                                                  *)
LEMMA ParseOf ==
  ASSUME NEW A, NEW p, NEW seq \in Seq(A)
  PROVE  \E f : Unrolled(f, p, seq) /\ parse(p, seq) = f[Len(seq)]
<1> DEFINE f == CHOOSE g : Unrolled(g, p, seq)
<1>1. Unrolled(f, p, seq)
  BY ParseExists
<1>2. parse(p, seq) = f[Len(seq)]
  BY DEF parse, Unrolled
<1> QED
  BY <1>1, <1>2

(* parse goes over the characters one by one. *)
LEMMA ParseFacts ==
  ASSUME NEW A, NEW p, NEW seq \in Seq(A), NEW c \in A
  PROVE  /\ parse(p, <<>>) = p
         /\ parse(p, Append(seq, c)) = consume(parse(p, seq), c)
<1>1. parse(p, <<>>) = p
  <2>1. PICK f : Unrolled(f, p, <<>>) /\ parse(p, <<>>) = f[Len(<<>>)]
    BY ParseOf, EmptySeq
  <2> QED
    BY <2>1, EmptySeq DEF Unrolled
<1>2. PICK n \in Nat : n = Len(seq)
  BY LenProperties
<1>3. PICK u : u = Append(seq, c)
  OBVIOUS
<1>4. u \in Seq(A) /\ Len(u) = n + 1 /\ u[n + 1] = c /\ \A i \in 1..n : u[i] = seq[i]
  BY <1>2, <1>3, AppendFacts
<1>5. PICK f : Unrolled(f, p, seq) /\ parse(p, seq) = f[n]
  BY <1>2, ParseOf
<1>6. PICK g : Unrolled(g, p, u) /\ parse(p, u) = g[n + 1]
  BY <1>4, ParseOf
<1>7. g[n] = f[n]
  <2>1. f[0] = p /\ g[0] = p
    <3>1. 0 \in 0..n /\ 0 \in 0..n + 1
      OBVIOUS
    <3> QED
      BY <1>2, <1>4, <1>5, <1>6, <3>1 DEF Unrolled
  <2>2. ASSUME NEW i \in 1..n, g[i - 1] = f[i - 1] PROVE g[i] = f[i]
    <3>1. i \in 0..n /\ i \in 0..n + 1 /\ i # 0
      OBVIOUS
    <3>2. f[i] = consume(f[i - 1], seq[i])
      BY <1>2, <1>5, <3>1, Zenon DEF Unrolled
    <3>3. g[i] = consume(g[i - 1], u[i])
      BY <1>4, <1>6, <3>1, Zenon DEF Unrolled
    <3>4. u[i] = seq[i]
      BY <1>4
    <3> QED
      BY <2>2, <3>2, <3>3, <3>4, Zenon
  <2> QED
    BY <2>1, <2>2, Agreement DEF SameSteps
<1>8. g[n + 1] = consume(g[n], c)
  <2>1. n + 1 \in 0..n + 1 /\ n + 1 # 0 /\ (n + 1) - 1 = n
    OBVIOUS
  <2>2. g[n + 1] = consume(g[(n + 1) - 1], u[n + 1])
    BY <1>4, <1>6, <2>1, Zenon DEF Unrolled
  <2> QED
    BY <1>4, <2>1, <2>2, Zenon
<1> QED
  BY <1>1, <1>3, <1>5, <1>6, <1>7, <1>8

(* Nothing changes a parser that is given nothing.                          *)
LEMMA ParseEmpty == \A p : parse(p, <<>>) = p
<1>1. <<>> \in Seq({0}) /\ 0 \in {0}
  BY EmptySeq
<1> QED
  BY <1>1, ParseFacts

(* f is what Cut goes through. *)
CutUp(f, t) ==
  f = [i \in 0..Len(t) |-> IF i = 0 THEN [lines |-> <<>>, rest |-> <<>>] ELSE Longer(f[i - 1], t[i])]

(* There is such a function, by induction over the text.                    *)
LEMMA CutExists ==
  ASSUME NEW A, NEW seq \in Seq(A)
  PROVE  \E f : CutUp(f, seq)
<1> DEFINE S == {x \in Seq(A) : \E f : CutUp(f, x)}
<1>1. <<>> \in S
  <2>1. CutUp([i \in 0..0 |-> [lines |-> <<>>, rest |-> <<>>]], <<>>)
    BY EmptySeq DEF CutUp
  <2> QED
    BY <2>1, EmptySeq
<1>2. ASSUME NEW t \in Seq(A), NEW c \in A, t \in S
      PROVE  Append(t, c) \in S
  <2>1. PICK f : CutUp(f, t)
    BY <1>2
  <2>2. PICK n \in Nat : n = Len(t)
    BY LenProperties
  <2>3. PICK u : u = Append(t, c)
    OBVIOUS
  <2>4. u \in Seq(A) /\ Len(u) = n + 1 /\ u[n + 1] = c /\ \A i \in 1..n : u[i] = t[i]
    BY <2>2, <2>3, AppendFacts
  <2>5. PICK g : g = [i \in 0..n + 1 |-> IF i <= n THEN f[i] ELSE Longer(f[n], c)]
    OBVIOUS
  <2>6. ASSUME NEW i \in 0..n + 1
        PROVE  g[i] = IF i = 0 THEN [lines |-> <<>>, rest |-> <<>>] ELSE Longer(g[i - 1], u[i])
    <3>1. CASE i = 0
      <4>1. i <= n /\ i \in 0..n
        BY <3>1
      <4>2. g[i] = f[i] /\ f[i] = [lines |-> <<>>, rest |-> <<>>]
        BY <2>1, <2>2, <2>5, <3>1, <4>1 DEF CutUp
      <4> QED
        BY <3>1, <4>2
    <3>2. CASE i \in 1..n
      <4>1. i <= n /\ i \in 0..n /\ i - 1 \in 0..n + 1 /\ i - 1 <= n /\ i # 0 /\ i \in 0..n + 1
        BY <3>2
      <4>2. g[i] = f[i] /\ g[i - 1] = f[i - 1]
        BY <2>5, <4>1, Zenon
      <4>3. f[i] = Longer(f[i - 1], t[i])
        BY <2>1, <2>2, <4>1, Zenon DEF CutUp
      <4>4. u[i] = t[i]
        BY <2>4, <3>2
      <4> QED
        BY <4>1, <4>2, <4>3, <4>4, Zenon
    <3>3. CASE i = n + 1
      <4>1. i \in 0..n + 1 /\ ~(i <= n) /\ i # 0 /\ n \in 0..n + 1 /\ n <= n /\ i - 1 = n
        BY <3>3
      <4>2. g[i] = Longer(f[n], c)
        BY <2>5, <3>3, <4>1, Zenon
      <4>3. g[n] = f[n]
        BY <2>5, <4>1, Zenon
      <4> QED
        BY <2>4, <3>3, <4>1, <4>2, <4>3, Zenon
    <3> QED
      BY <3>1, <3>2, <3>3
  <2>7. CutUp(g, u)
    BY <2>4, <2>5, <2>6 DEF CutUp
  <2> QED
    BY <2>3, <2>4, <2>7
<1>3. Seq(A) \subseteq S
  <2> HIDE DEF S
  <2> QED
    BY <1>1, <1>2, Growing
<1> QED
  BY <1>3

(* Cut is where it ends.                                                    *)
LEMMA CutOf ==
  ASSUME NEW A, NEW seq \in Seq(A)
  PROVE  \E f : CutUp(f, seq) /\ Cut(seq) = f[Len(seq)]
<1> DEFINE f == CHOOSE g : CutUp(g, seq)
<1>1. CutUp(f, seq)
  BY CutExists
<1>2. Cut(seq) = f[Len(seq)]
  BY DEF Cut, CutUp
<1> QED
  BY <1>1, <1>2

(* Cut goes over the characters one by one. *)
LEMMA CutFacts ==
  ASSUME NEW A, NEW seq \in Seq(A), NEW c \in A
  PROVE  /\ Cut(<<>>) = [lines |-> <<>>, rest |-> <<>>]
         /\ Cut(Append(seq, c)) = Longer(Cut(seq), c)
<1>1. Cut(<<>>) = [lines |-> <<>>, rest |-> <<>>]
  <2>1. PICK f : CutUp(f, <<>>) /\ Cut(<<>>) = f[Len(<<>>)]
    BY CutOf, EmptySeq
  <2> QED
    BY <2>1, EmptySeq DEF CutUp
<1>2. PICK n \in Nat : n = Len(seq)
  BY LenProperties
<1>3. PICK u : u = Append(seq, c)
  OBVIOUS
<1>4. u \in Seq(A) /\ Len(u) = n + 1 /\ u[n + 1] = c /\ \A i \in 1..n : u[i] = seq[i]
  BY <1>2, <1>3, AppendFacts
<1>5. PICK f : CutUp(f, seq) /\ Cut(seq) = f[n]
  BY <1>2, CutOf
<1>6. PICK g : CutUp(g, u) /\ Cut(u) = g[n + 1]
  BY <1>4, CutOf
<1>7. g[n] = f[n]
  <2>1. f[0] = [lines |-> <<>>, rest |-> <<>>] /\ g[0] = [lines |-> <<>>, rest |-> <<>>]
    <3>1. 0 \in 0..n /\ 0 \in 0..n + 1
      OBVIOUS
    <3> QED
      BY <1>2, <1>4, <1>5, <1>6, <3>1 DEF CutUp
  <2>2. ASSUME NEW i \in 1..n, g[i - 1] = f[i - 1] PROVE g[i] = f[i]
    <3>1. i \in 0..n /\ i \in 0..n + 1 /\ i # 0
      OBVIOUS
    <3>2. f[i] = Longer(f[i - 1], seq[i])
      BY <1>2, <1>5, <3>1, Zenon DEF CutUp
    <3>3. g[i] = Longer(g[i - 1], u[i])
      BY <1>4, <1>6, <3>1, Zenon DEF CutUp
    <3>4. u[i] = seq[i]
      BY <1>4
    <3> QED
      BY <2>2, <3>2, <3>3, <3>4, Zenon
  <2> QED
    BY <2>1, <2>2, Agreement DEF SameSteps
<1>8. g[n + 1] = Longer(g[n], c)
  <2>1. n + 1 \in 0..n + 1 /\ n + 1 # 0 /\ (n + 1) - 1 = n
    OBVIOUS
  <2>2. g[n + 1] = Longer(g[(n + 1) - 1], u[n + 1])
    BY <1>4, <1>6, <2>1, Zenon DEF CutUp
  <2> QED
    BY <1>4, <2>1, <2>2, Zenon
<1> QED
  BY <1>1, <1>3, <1>5, <1>6, <1>7, <1>8

(* A text that is empty has no lines, and nothing after them.               *)
LEMMA CutEmpty == Cut(<<>>) = [lines |-> <<>>, rest |-> <<>>]
<1>1. <<>> \in Seq({0}) /\ 0 \in {0}
  BY EmptySeq
<1> QED
  BY <1>1, CutFacts

(* f is what Headers goes through. *)
Collected(f, lines) ==
  f = [i \in 0..Len(lines) |-> IF i = 0 THEN <<>> ELSE Extended(f[i - 1], lines[i])]

(* There is such a function, by induction over the lines.                   *)
LEMMA HeadersExists ==
  ASSUME NEW A, NEW seq \in Seq(A)
  PROVE  \E f : Collected(f, seq)
<1> DEFINE S == {lines \in Seq(A) : \E f : Collected(f, lines)}
<1>1. <<>> \in S
  <2>1. Collected([i \in 0..0 |-> <<>>], <<>>)
    BY EmptySeq DEF Collected
  <2> QED
    BY <2>1, EmptySeq
<1>2. ASSUME NEW t \in Seq(A), NEW c \in A, t \in S
      PROVE  Append(t, c) \in S
  <2>1. PICK f : Collected(f, t)
    BY <1>2
  <2>2. PICK n \in Nat : n = Len(t)
    BY LenProperties
  <2>3. PICK u : u = Append(t, c)
    OBVIOUS
  <2>4. u \in Seq(A) /\ Len(u) = n + 1 /\ u[n + 1] = c /\ \A i \in 1..n : u[i] = t[i]
    BY <2>2, <2>3, AppendFacts
  <2>5. PICK g : g = [i \in 0..n + 1 |-> IF i <= n THEN f[i] ELSE Extended(f[n], c)]
    OBVIOUS
  <2>6. ASSUME NEW i \in 0..n + 1
        PROVE  g[i] = IF i = 0 THEN <<>> ELSE Extended(g[i - 1], u[i])
    <3>1. CASE i = 0
      <4>1. i <= n /\ i \in 0..n
        BY <3>1
      <4>2. g[i] = f[i] /\ f[i] = <<>>
        BY <2>1, <2>2, <2>5, <3>1, <4>1 DEF Collected
      <4> QED
        BY <3>1, <4>2
    <3>2. CASE i \in 1..n
      <4>1. i <= n /\ i \in 0..n /\ i - 1 \in 0..n + 1 /\ i - 1 <= n /\ i # 0 /\ i \in 0..n + 1
        BY <3>2
      <4>2. g[i] = f[i] /\ g[i - 1] = f[i - 1]
        BY <2>5, <4>1, Zenon
      <4>3. f[i] = Extended(f[i - 1], t[i])
        BY <2>1, <2>2, <4>1, Zenon DEF Collected
      <4>4. u[i] = t[i]
        BY <2>4, <3>2
      <4> QED
        BY <4>1, <4>2, <4>3, <4>4, Zenon
    <3>3. CASE i = n + 1
      <4>1. i \in 0..n + 1 /\ ~(i <= n) /\ i # 0 /\ n \in 0..n + 1 /\ n <= n /\ i - 1 = n
        BY <3>3
      <4>2. g[i] = Extended(f[n], c)
        BY <2>5, <3>3, <4>1, Zenon
      <4>3. g[n] = f[n]
        BY <2>5, <4>1, Zenon
      <4> QED
        BY <2>4, <3>3, <4>1, <4>2, <4>3, Zenon
    <3> QED
      BY <3>1, <3>2, <3>3
  <2>7. Collected(g, u)
    BY <2>4, <2>5, <2>6 DEF Collected
  <2> QED
    BY <2>3, <2>4, <2>7
<1>3. Seq(A) \subseteq S
  <2> HIDE DEF S
  <2> QED
    BY <1>1, <1>2, Growing
<1> QED
  BY <1>3

(* Headers is where it ends.                                                *)
LEMMA HeadersOf ==
  ASSUME NEW A, NEW seq \in Seq(A)
  PROVE  \E f : Collected(f, seq) /\ Headers(seq) = f[Len(seq)]
<1> DEFINE f == CHOOSE g : Collected(g, seq)
<1>1. Collected(f, seq)
  BY HeadersExists
<1>2. Headers(seq) = f[Len(seq)]
  BY DEF Headers, Collected
<1> QED
  BY <1>1, <1>2

(* Headers goes over the lines one by one. *)
LEMMA HeadersFacts ==
  ASSUME NEW A, NEW seq \in Seq(A), NEW c \in A
  PROVE  /\ Headers(<<>>) = <<>>
         /\ Headers(Append(seq, c)) = Extended(Headers(seq), c)
<1>1. Headers(<<>>) = <<>>
  <2>1. PICK f : Collected(f, <<>>) /\ Headers(<<>>) = f[Len(<<>>)]
    BY HeadersOf, EmptySeq
  <2> QED
    BY <2>1, EmptySeq DEF Collected
<1>2. PICK n \in Nat : n = Len(seq)
  BY LenProperties
<1>3. PICK u : u = Append(seq, c)
  OBVIOUS
<1>4. u \in Seq(A) /\ Len(u) = n + 1 /\ u[n + 1] = c /\ \A i \in 1..n : u[i] = seq[i]
  BY <1>2, <1>3, AppendFacts
<1>5. PICK f : Collected(f, seq) /\ Headers(seq) = f[n]
  BY <1>2, HeadersOf
<1>6. PICK g : Collected(g, u) /\ Headers(u) = g[n + 1]
  BY <1>4, HeadersOf
<1>7. g[n] = f[n]
  <2>1. f[0] = <<>> /\ g[0] = <<>>
    <3>1. 0 \in 0..n /\ 0 \in 0..n + 1
      OBVIOUS
    <3> QED
      BY <1>2, <1>4, <1>5, <1>6, <3>1 DEF Collected
  <2>2. ASSUME NEW i \in 1..n, g[i - 1] = f[i - 1] PROVE g[i] = f[i]
    <3>1. i \in 0..n /\ i \in 0..n + 1 /\ i # 0
      OBVIOUS
    <3>2. f[i] = Extended(f[i - 1], seq[i])
      BY <1>2, <1>5, <3>1, Zenon DEF Collected
    <3>3. g[i] = Extended(g[i - 1], u[i])
      BY <1>4, <1>6, <3>1, Zenon DEF Collected
    <3>4. u[i] = seq[i]
      BY <1>4
    <3> QED
      BY <2>2, <3>2, <3>3, <3>4, Zenon
  <2> QED
    BY <2>1, <2>2, Agreement DEF SameSteps
<1>8. g[n + 1] = Extended(g[n], c)
  <2>1. n + 1 \in 0..n + 1 /\ n + 1 # 0 /\ (n + 1) - 1 = n
    OBVIOUS
  <2>2. g[n + 1] = Extended(g[(n + 1) - 1], u[n + 1])
    BY <1>4, <1>6, <2>1, Zenon DEF Collected
  <2> QED
    BY <1>4, <2>1, <2>2, Zenon
<1> QED
  BY <1>1, <1>3, <1>5, <1>6, <1>7, <1>8

(* No lines make no headers.                                                *)
LEMMA HeadersEmpty == Headers(<<>>) = <<>>
<1>1. <<>> \in Seq({0}) /\ 0 \in {0}
  BY EmptySeq
<1> QED
  BY <1>1, HeadersFacts

-----------------------------------------------------------------------------
(*                         The edges of the parser                          *)

(* A character leads along an edge, or to the verdict.                      *)
Leads(q, c, edge) ==
  /\ edge \in Edges(q.request.headers) /\ edge[1] = q.state /\ c \in edge[2]
  /\ consume(q, c) = [state |-> edge[3], request |-> Stored(q.request, edge[1], c, edge[3])]

(* What consume does, of which the edges are all.                           *)
LEMMA ConsumeFacts ==
  ASSUME NEW q, NEW c, q.state \notin Verdicts
  PROVE  \/ \E edge : Leads(q, c, edge)
         \/ /\ consume(q, c) = [q EXCEPT !.state = "bad"]
            /\ \A edge \in Edges(q.request.headers) : edge[1] = q.state => c \notin edge[2]
<1> DEFINE ways == {edge \in Edges(q.request.headers) : edge[1] = q.state /\ c \in edge[2]}
           way  == CHOOSE edge \in ways : TRUE
<1>1. CASE ways = {}
  <2>1. consume(q, c) = [q EXCEPT !.state = "bad"]
    BY <1>1 DEF consume
  <2> QED
    BY <1>1, <2>1
<1>2. CASE ways # {}
  <2>1. consume(q, c) = [state |-> way[3], request |-> Stored(q.request, way[1], c, way[3])]
    BY <1>2 DEF consume
  <2>2. way \in ways
    BY <1>2
  <2> QED
    BY <2>1, <2>2 DEF Leads
<1> QED
  BY <1>1, <1>2

(* The ways out of the states of the request line.                          *)
LEMMA RequestEdges ==
  ASSUME NEW h, NEW edge \in Edges(h)
  PROVE  /\ edge[1] = "method_start" => edge[2] = Tokens /\ edge[3] = "method"
         /\ edge[1] = "method" => \/ edge[2] = Tokens /\ edge[3] = "method"
                                  \/ edge[2] = {Space} /\ edge[3] = "uri"
         /\ edge[1] = "uri" => \/ edge[2] = Texts \ {Space} /\ edge[3] = "uri"
                               \/ edge[2] = {Space} /\ edge[3] = "http_version_h"
         /\ edge[1] = "http_version_h" => edge[2] = {"H"} /\ edge[3] = "http_version_t_1"
         /\ edge[1] = "http_version_t_1" => edge[2] = {"T"} /\ edge[3] = "http_version_t_2"
         /\ edge[1] = "http_version_t_2" => edge[2] = {"T"} /\ edge[3] = "http_version_p"
         /\ edge[1] = "http_version_p" => edge[2] = {"P"} /\ edge[3] = "http_version_slash"
         /\ edge[1] = "http_version_slash" =>
              edge[2] = {"/"} /\ edge[3] = "http_version_major_start"
         /\ edge[1] = "http_version_major_start" =>
              edge[2] = Digits /\ edge[3] = "http_version_major"
         /\ edge[1] = "http_version_major" =>
              \/ edge[2] = Digits /\ edge[3] = "http_version_major"
              \/ edge[2] = {"."} /\ edge[3] = "http_version_minor_start"
         /\ edge[1] = "http_version_minor_start" =>
              edge[2] = Digits /\ edge[3] = "http_version_minor"
         /\ edge[1] = "http_version_minor" =>
              \/ edge[2] = Digits /\ edge[3] = "http_version_minor"
              \/ edge[2] = {CR} /\ edge[3] = "expecting_newline_1"
         /\ edge[1] = "expecting_newline_1" => edge[2] = {LF} /\ edge[3] = "header_line_start"
  BY SMTT(60) DEF Edges

(* The ways out of the states of the lines that follow.                     *)
LEMMA HeaderEdges ==
  ASSUME NEW h, NEW edge \in Edges(h)
  PROVE  /\ edge[1] = "header_line_start" =>
              \/ edge[2] = {CR} /\ edge[3] = "expecting_newline_3"
              \/ edge[2] = Tokens /\ edge[3] = "header_name"
              \/ edge[2] = {Space, Tab} /\ edge[3] = "header_lws" /\ h # <<>>
         /\ edge[1] = "header_lws" =>
              \/ edge[2] = {CR} /\ edge[3] = "expecting_newline_2"
              \/ edge[2] = {Space, Tab} /\ edge[3] = "header_lws"
              \/ edge[2] = Texts \ {Space} /\ edge[3] = "header_value"
         /\ edge[1] = "header_name" =>
              \/ edge[2] = {":"} /\ edge[3] = "space_before_header_value"
              \/ edge[2] = Tokens /\ edge[3] = "header_name"
         /\ edge[1] = "space_before_header_value" =>
              edge[2] = {Space} /\ edge[3] = "header_value"
         /\ edge[1] = "header_value" =>
              \/ edge[2] = {CR} /\ edge[3] = "expecting_newline_2"
              \/ edge[2] = Texts /\ edge[3] = "header_value"
         /\ edge[1] = "expecting_newline_2" => edge[2] = {LF} /\ edge[3] = "header_line_start"
         /\ edge[1] = "expecting_newline_3" => edge[2] = {LF} /\ edge[3] = "good"
  BY SMTT(60) DEF Edges

(* The states that have a way out.                                           *)
LEMMA States ==
  ASSUME NEW h, NEW edge \in Edges(h)
  PROVE  edge[1] \in {"method_start", "method", "uri", "http_version_h", "http_version_t_1",
                      "http_version_t_2", "http_version_p", "http_version_slash",
                      "http_version_major_start", "http_version_major",
                      "http_version_minor_start", "http_version_minor", "expecting_newline_1",
                      "header_line_start", "header_lws", "header_name",
                      "space_before_header_value", "header_value", "expecting_newline_2",
                      "expecting_newline_3"}
  BY SMTT(60) DEF Edges

(* Which characters are not which.                                          *)
LEMMA SpaceIsNone == Space \notin {"0", "1", "/", ":", ".", "H", "T", "P", CR, LF, Tab, "NUL", "8-bit"}
  BY Zenon DEF Space, CR, LF, Tab

(* Which sets of characters which separators are not in.                    *)
LEMMA CharacterFacts ==
  /\ \A c \in Tokens : c \notin {Space, ":", "/", CR, LF, Tab}
  /\ \A c \in Texts : c \notin {CR, LF, Tab}
  /\ \A c \in Digits : c \notin {".", "/", CR, LF, Space}
  /\ CR # LF /\ Space \notin {CR, LF, Tab, ":", "/", "."} /\ Tab \notin {CR, LF}
  /\ Tokens \subseteq Texts /\ Space \in Texts /\ Digits \subseteq Tokens
<1>1. Space \in Specials /\ ":" \in Specials /\ "/" \in Specials /\ Tab \in Controls
      /\ CR \in Controls /\ LF \in Controls
  BY DEF Specials, Controls
<1>2. \A c \in Words : c \notin Specials /\ c \notin Controls
  BY WordsAssumption
<1>3. \A c \in Digits : c \notin {":", ".", "/", CR, LF, Tab, Space, "NUL"}
  BY SpaceIsNone DEF Digits, CR, LF, Tab
<1>4. \A c \in Digits : c \notin Controls
  BY <1>3 DEF Controls
<1>5. Space \notin Controls
  BY SpaceIsNone DEF Controls
<1>6. CR # LF /\ Tab \notin {CR, LF}
  BY DEF CR, LF, Tab
<1>7. \A c \in Tokens : c \notin {Space, ":", "/", CR, LF, Tab} /\ c \notin Controls
  BY <1>1, <1>2, <1>3, <1>4 DEF Tokens
<1>8. \A c \in Texts : c \notin {CR, LF, Tab}
  BY <1>1 DEF Texts
<1>9. Tokens \subseteq Texts /\ Space \in Texts /\ Digits \subseteq Tokens
  BY <1>1, <1>5, <1>7 DEF Texts, Alphabet, Tokens
<1> QED
  BY <1>3, <1>6, <1>7, <1>8, <1>9, SpaceIsNone

(* Parsers in a state, whose request has these fields and any version.      *)
Fields(m, u, v, h) == [method |-> m, uri |-> u, version |-> v, headers |-> h]
Versions == Nat \X Nat
Here(state, m, u, h) == {[state |-> state, request |-> Fields(m, u, v, h)] : v \in Versions}

(* No character leads two ways.                                             *)
LEMMA OneWay ==
  ASSUME NEW h, NEW e \in Edges(h), NEW f \in Edges(h), e[1] = f[1], NEW c, c \in e[2], c \in f[2]
  PROVE  e[3] = f[3]
<1>1. CASE e[1] \in {"method_start", "method", "uri", "http_version_h", "http_version_t_1",
                     "http_version_t_2", "http_version_p", "http_version_slash"}
  BY <1>1, RequestEdges, CharacterFacts
<1>2. CASE e[1] \in {"http_version_major_start", "http_version_major",
                     "http_version_minor_start", "http_version_minor", "expecting_newline_1"}
  BY <1>2, RequestEdges, CharacterFacts
<1>3. CASE e[1] \in {"header_line_start", "header_lws", "header_name",
                     "space_before_header_value", "header_value", "expecting_newline_2",
                     "expecting_newline_3"}
  BY <1>3, HeaderEdges, CharacterFacts
<1> QED
  BY <1>1, <1>2, <1>3, States

(* What a parser with such a request does with a character that leads on.   *)
LEMMA Taken ==
  ASSUME NEW state, NEW set, NEW to, NEW h, <<state, set, to>> \in Edges(h),
         NEW m, NEW u, NEW n, NEW w, NEW k, NEW c \in set, NEW q \in Here(state, m, u, h),
         \A v \in Versions : Stored(Fields(m, u, v, h), state, c, to) \in {Fields(n, w, x, k) : x \in Versions}
  PROVE  consume(q, c) \in Here(to, n, w, k)
<1>1. PICK v \in Versions : q = [state |-> state, request |-> Fields(m, u, v, h)]
  BY DEF Here
<1>2. q.state = state /\ q.request = Fields(m, u, v, h) /\ q.request.headers = h
  BY <1>1 DEF Fields
<1>3. PICK way : way = <<state, set, to>>
  OBVIOUS
<1>4. way \in Edges(h) /\ way[1] = state /\ way[2] = set /\ way[3] = to
  BY <1>3
<1>5. state \notin Verdicts
  BY <1>4, States DEF Verdicts
<1>6. PICK edge : Leads(q, c, edge)
  BY <1>2, <1>4, <1>5, ConsumeFacts
<1>7. edge[3] = to /\ edge[1] = state
  BY <1>2, <1>4, <1>6, OneWay DEF Leads
<1>8. PICK x \in Versions : Stored(Fields(m, u, v, h), state, c, to) = Fields(n, w, x, k)
  OBVIOUS
<1> QED
  BY <1>2, <1>6, <1>7, <1>8 DEF Leads, Here

(* A digit has a value.                                                     *)
LEMMA ValueIsNat == \A c \in Digits : Value(c) \in Nat
  BY DEF Digits, Value

(* What each character of a request line does to the request.               *)
LEMMA RequestSteps ==
  ASSUME NEW m, NEW u, NEW h
  PROVE  /\ \A c \in Tokens, q \in Here("method_start", m, u, h) :
              consume(q, c) \in Here("method", Append(m, c), u, h)
         /\ \A c \in Tokens, q \in Here("method", m, u, h) :
              consume(q, c) \in Here("method", Append(m, c), u, h)
         /\ \A c \in {Space}, q \in Here("method", m, u, h) :
              consume(q, c) \in Here("uri", m, u, h)
         /\ \A c \in Texts \ {Space}, q \in Here("uri", m, u, h) :
              consume(q, c) \in Here("uri", m, Append(u, c), h)
         /\ \A c \in {Space}, q \in Here("uri", m, u, h) :
              consume(q, c) \in Here("http_version_h", m, u, h)
         /\ \A c \in {"H"}, q \in Here("http_version_h", m, u, h) :
              consume(q, c) \in Here("http_version_t_1", m, u, h)
         /\ \A c \in {"T"}, q \in Here("http_version_t_1", m, u, h) :
              consume(q, c) \in Here("http_version_t_2", m, u, h)
         /\ \A c \in {"T"}, q \in Here("http_version_t_2", m, u, h) :
              consume(q, c) \in Here("http_version_p", m, u, h)
         /\ \A c \in {"P"}, q \in Here("http_version_p", m, u, h) :
              consume(q, c) \in Here("http_version_slash", m, u, h)
         /\ \A c \in {"/"}, q \in Here("http_version_slash", m, u, h) :
              consume(q, c) \in Here("http_version_major_start", m, u, h)
         /\ \A c \in Digits, q \in Here("http_version_major_start", m, u, h) :
              consume(q, c) \in Here("http_version_major", m, u, h)
         /\ \A c \in Digits, q \in Here("http_version_major", m, u, h) :
              consume(q, c) \in Here("http_version_major", m, u, h)
         /\ \A c \in {"."}, q \in Here("http_version_major", m, u, h) :
              consume(q, c) \in Here("http_version_minor_start", m, u, h)
         /\ \A c \in Digits, q \in Here("http_version_minor_start", m, u, h) :
              consume(q, c) \in Here("http_version_minor", m, u, h)
         /\ \A c \in Digits, q \in Here("http_version_minor", m, u, h) :
              consume(q, c) \in Here("http_version_minor", m, u, h)
         /\ \A c \in {CR}, q \in Here("http_version_minor", m, u, h) :
              consume(q, c) \in Here("expecting_newline_1", m, u, h)
         /\ \A c \in {LF}, q \in Here("expecting_newline_1", m, u, h) :
              consume(q, c) \in Here("header_line_start", m, u, h)
<1>1. ASSUME NEW c \in Tokens, NEW q \in Here("method_start", m, u, h)
      PROVE  consume(q, c) \in Here("method", Append(m, c), u, h)
  <2>1. <<"method_start", Tokens, "method">> \in Edges(h)
    BY DEF Edges
  <2>2. \A v \in Versions : Stored(Fields(m, u, v, h), "method_start", c, "method")
                             \in {Fields(Append(m, c), u, x, h) : x \in Versions}
    BY ValueIsNat DEF Stored, Fields, Versions
  <2> QED
    BY <2>1, <2>2, Taken
<1>2. ASSUME NEW c \in Tokens, NEW q \in Here("method", m, u, h)
      PROVE  consume(q, c) \in Here("method", Append(m, c), u, h)
  <2>1. <<"method", Tokens, "method">> \in Edges(h)
    BY DEF Edges
  <2>2. \A v \in Versions : Stored(Fields(m, u, v, h), "method", c, "method")
                             \in {Fields(Append(m, c), u, x, h) : x \in Versions}
    BY ValueIsNat DEF Stored, Fields, Versions
  <2> QED
    BY <2>1, <2>2, Taken
<1>3. ASSUME NEW c \in {Space}, NEW q \in Here("method", m, u, h)
      PROVE  consume(q, c) \in Here("uri", m, u, h)
  <2>1. <<"method", {Space}, "uri">> \in Edges(h)
    BY DEF Edges
  <2>2. \A v \in Versions : Stored(Fields(m, u, v, h), "method", c, "uri")
                             \in {Fields(m, u, x, h) : x \in Versions}
    BY ValueIsNat DEF Stored, Fields, Versions
  <2> QED
    BY <2>1, <2>2, Taken
<1>4. ASSUME NEW c \in Texts \ {Space}, NEW q \in Here("uri", m, u, h)
      PROVE  consume(q, c) \in Here("uri", m, Append(u, c), h)
  <2>1. <<"uri", Texts \ {Space}, "uri">> \in Edges(h)
    BY DEF Edges
  <2>2. \A v \in Versions : Stored(Fields(m, u, v, h), "uri", c, "uri")
                             \in {Fields(m, Append(u, c), x, h) : x \in Versions}
    BY ValueIsNat DEF Stored, Fields, Versions
  <2> QED
    BY <2>1, <2>2, Taken
<1>5. ASSUME NEW c \in {Space}, NEW q \in Here("uri", m, u, h)
      PROVE  consume(q, c) \in Here("http_version_h", m, u, h)
  <2>1. <<"uri", {Space}, "http_version_h">> \in Edges(h)
    BY DEF Edges
  <2>2. \A v \in Versions : Stored(Fields(m, u, v, h), "uri", c, "http_version_h")
                             \in {Fields(m, u, x, h) : x \in Versions}
    BY ValueIsNat DEF Stored, Fields, Versions
  <2> QED
    BY <2>1, <2>2, Taken
<1>6. ASSUME NEW c \in {"H"}, NEW q \in Here("http_version_h", m, u, h)
      PROVE  consume(q, c) \in Here("http_version_t_1", m, u, h)
  <2>1. <<"http_version_h", {"H"}, "http_version_t_1">> \in Edges(h)
    BY DEF Edges
  <2>2. \A v \in Versions : Stored(Fields(m, u, v, h), "http_version_h", c, "http_version_t_1")
                             \in {Fields(m, u, x, h) : x \in Versions}
    BY ValueIsNat DEF Stored, Fields, Versions
  <2> QED
    BY <2>1, <2>2, Taken
<1>7. ASSUME NEW c \in {"T"}, NEW q \in Here("http_version_t_1", m, u, h)
      PROVE  consume(q, c) \in Here("http_version_t_2", m, u, h)
  <2>1. <<"http_version_t_1", {"T"}, "http_version_t_2">> \in Edges(h)
    BY DEF Edges
  <2>2. \A v \in Versions : Stored(Fields(m, u, v, h), "http_version_t_1", c, "http_version_t_2")
                             \in {Fields(m, u, x, h) : x \in Versions}
    BY ValueIsNat DEF Stored, Fields, Versions
  <2> QED
    BY <2>1, <2>2, Taken
<1>8. ASSUME NEW c \in {"T"}, NEW q \in Here("http_version_t_2", m, u, h)
      PROVE  consume(q, c) \in Here("http_version_p", m, u, h)
  <2>1. <<"http_version_t_2", {"T"}, "http_version_p">> \in Edges(h)
    BY DEF Edges
  <2>2. \A v \in Versions : Stored(Fields(m, u, v, h), "http_version_t_2", c, "http_version_p")
                             \in {Fields(m, u, x, h) : x \in Versions}
    BY ValueIsNat DEF Stored, Fields, Versions
  <2> QED
    BY <2>1, <2>2, Taken
<1>9. ASSUME NEW c \in {"P"}, NEW q \in Here("http_version_p", m, u, h)
      PROVE  consume(q, c) \in Here("http_version_slash", m, u, h)
  <2>1. <<"http_version_p", {"P"}, "http_version_slash">> \in Edges(h)
    BY DEF Edges
  <2>2. \A v \in Versions : Stored(Fields(m, u, v, h), "http_version_p", c, "http_version_slash")
                             \in {Fields(m, u, x, h) : x \in Versions}
    BY ValueIsNat DEF Stored, Fields, Versions
  <2> QED
    BY <2>1, <2>2, Taken
<1>10. ASSUME NEW c \in {"/"}, NEW q \in Here("http_version_slash", m, u, h)
      PROVE  consume(q, c) \in Here("http_version_major_start", m, u, h)
  <2>1. <<"http_version_slash", {"/"}, "http_version_major_start">> \in Edges(h)
    BY DEF Edges
  <2>2. \A v \in Versions : Stored(Fields(m, u, v, h), "http_version_slash", c, "http_version_major_start")
                             \in {Fields(m, u, x, h) : x \in Versions}
    BY ValueIsNat DEF Stored, Fields, Versions
  <2> QED
    BY <2>1, <2>2, Taken
<1>11. ASSUME NEW c \in Digits, NEW q \in Here("http_version_major_start", m, u, h)
      PROVE  consume(q, c) \in Here("http_version_major", m, u, h)
  <2>1. <<"http_version_major_start", Digits, "http_version_major">> \in Edges(h)
    BY DEF Edges
  <2>2. \A v \in Versions : Stored(Fields(m, u, v, h), "http_version_major_start", c, "http_version_major")
                             \in {Fields(m, u, x, h) : x \in Versions}
    BY ValueIsNat DEF Stored, Fields, Versions
  <2> QED
    BY <2>1, <2>2, Taken
<1>12. ASSUME NEW c \in Digits, NEW q \in Here("http_version_major", m, u, h)
      PROVE  consume(q, c) \in Here("http_version_major", m, u, h)
  <2>1. <<"http_version_major", Digits, "http_version_major">> \in Edges(h)
    BY DEF Edges
  <2>2. \A v \in Versions : Stored(Fields(m, u, v, h), "http_version_major", c, "http_version_major")
                             \in {Fields(m, u, x, h) : x \in Versions}
    BY ValueIsNat DEF Stored, Fields, Versions
  <2> QED
    BY <2>1, <2>2, Taken
<1>13. ASSUME NEW c \in {"."}, NEW q \in Here("http_version_major", m, u, h)
      PROVE  consume(q, c) \in Here("http_version_minor_start", m, u, h)
  <2>1. <<"http_version_major", {"."}, "http_version_minor_start">> \in Edges(h)
    BY DEF Edges
  <2>2. \A v \in Versions : Stored(Fields(m, u, v, h), "http_version_major", c, "http_version_minor_start")
                             \in {Fields(m, u, x, h) : x \in Versions}
    BY ValueIsNat DEF Stored, Fields, Versions
  <2> QED
    BY <2>1, <2>2, Taken
<1>14. ASSUME NEW c \in Digits, NEW q \in Here("http_version_minor_start", m, u, h)
      PROVE  consume(q, c) \in Here("http_version_minor", m, u, h)
  <2>1. <<"http_version_minor_start", Digits, "http_version_minor">> \in Edges(h)
    BY DEF Edges
  <2>2. \A v \in Versions : Stored(Fields(m, u, v, h), "http_version_minor_start", c, "http_version_minor")
                             \in {Fields(m, u, x, h) : x \in Versions}
    BY ValueIsNat DEF Stored, Fields, Versions
  <2> QED
    BY <2>1, <2>2, Taken
<1>15. ASSUME NEW c \in Digits, NEW q \in Here("http_version_minor", m, u, h)
      PROVE  consume(q, c) \in Here("http_version_minor", m, u, h)
  <2>1. <<"http_version_minor", Digits, "http_version_minor">> \in Edges(h)
    BY DEF Edges
  <2>2. \A v \in Versions : Stored(Fields(m, u, v, h), "http_version_minor", c, "http_version_minor")
                             \in {Fields(m, u, x, h) : x \in Versions}
    BY ValueIsNat DEF Stored, Fields, Versions
  <2> QED
    BY <2>1, <2>2, Taken
<1>16. ASSUME NEW c \in {CR}, NEW q \in Here("http_version_minor", m, u, h)
      PROVE  consume(q, c) \in Here("expecting_newline_1", m, u, h)
  <2>1. <<"http_version_minor", {CR}, "expecting_newline_1">> \in Edges(h)
    BY DEF Edges
  <2>2. \A v \in Versions : Stored(Fields(m, u, v, h), "http_version_minor", c, "expecting_newline_1")
                             \in {Fields(m, u, x, h) : x \in Versions}
    BY ValueIsNat DEF Stored, Fields, Versions
  <2> QED
    BY <2>1, <2>2, Taken
<1>17. ASSUME NEW c \in {LF}, NEW q \in Here("expecting_newline_1", m, u, h)
      PROVE  consume(q, c) \in Here("header_line_start", m, u, h)
  <2>1. <<"expecting_newline_1", {LF}, "header_line_start">> \in Edges(h)
    BY DEF Edges
  <2>2. \A v \in Versions : Stored(Fields(m, u, v, h), "expecting_newline_1", c, "header_line_start")
                             \in {Fields(m, u, x, h) : x \in Versions}
    BY ValueIsNat DEF Stored, Fields, Versions
  <2> QED
    BY <2>1, <2>2, Taken
<1> QED
  BY <1>1, <1>2, <1>3, <1>4, <1>5, <1>6, <1>7, <1>8, <1>9, <1>10, <1>11, <1>12, <1>13, <1>14, <1>15, <1>16, <1>17

(* What each character of the lines that follow does to the request.        *)
LEMMA HeaderSteps ==
  ASSUME NEW m, NEW u, NEW h
  PROVE  /\ \A c \in {CR}, q \in Here("header_line_start", m, u, h) :
              consume(q, c) \in Here("expecting_newline_3", m, u, h)
         /\ \A c \in Tokens, q \in Here("header_line_start", m, u, h) :
              consume(q, c) \in Here("header_name", m, u, Append(h, [name |-> <<c>>, value |-> <<>>]))
         /\ \A c \in Tokens, q \in Here("header_name", m, u, h) :
              consume(q, c) \in Here("header_name", m, u, [h EXCEPT ![Len(h)].name = Append(@, c)])
         /\ \A c \in {":"}, q \in Here("header_name", m, u, h) :
              consume(q, c) \in Here("space_before_header_value", m, u, h)
         /\ \A c \in {Space}, q \in Here("space_before_header_value", m, u, h) :
              consume(q, c) \in Here("header_value", m, u, h)
         /\ \A c \in Texts, q \in Here("header_value", m, u, h) :
              consume(q, c) \in Here("header_value", m, u, [h EXCEPT ![Len(h)].value = Append(@, c)])
         /\ \A c \in {CR}, q \in Here("header_value", m, u, h) :
              consume(q, c) \in Here("expecting_newline_2", m, u, h)
         /\ \A c \in {Space, Tab}, q \in Here("header_lws", m, u, h) :
              consume(q, c) \in Here("header_lws", m, u, h)
         /\ \A c \in Texts \ {Space}, q \in Here("header_lws", m, u, h) :
              consume(q, c) \in Here("header_value", m, u, [h EXCEPT ![Len(h)].value = Append(@, c)])
         /\ \A c \in {CR}, q \in Here("header_lws", m, u, h) :
              consume(q, c) \in Here("expecting_newline_2", m, u, h)
         /\ \A c \in {LF}, q \in Here("expecting_newline_2", m, u, h) :
              consume(q, c) \in Here("header_line_start", m, u, h)
         /\ \A c \in {LF}, q \in Here("expecting_newline_3", m, u, h) :
              consume(q, c) \in Here("good", m, u, h)
         /\ h # <<>> => \A c \in {Space, Tab}, q \in Here("header_line_start", m, u, h) :
              consume(q, c) \in Here("header_lws", m, u, h)
<1>1. ASSUME NEW c \in {CR}, NEW q \in Here("header_line_start", m, u, h)
      PROVE  consume(q, c) \in Here("expecting_newline_3", m, u, h)
  <2>1. <<"header_line_start", {CR}, "expecting_newline_3">> \in Edges(h)
    BY DEF Edges
  <2>2. \A v \in Versions : Stored(Fields(m, u, v, h), "header_line_start", c, "expecting_newline_3")
                             \in {Fields(m, u, x, h) : x \in Versions}
    BY ValueIsNat DEF Stored, Fields, Versions
  <2> QED
    BY <2>1, <2>2, Taken
<1>2. ASSUME NEW c \in Tokens, NEW q \in Here("header_line_start", m, u, h)
      PROVE  consume(q, c) \in Here("header_name", m, u, Append(h, [name |-> <<c>>, value |-> <<>>]))
  <2>1. <<"header_line_start", Tokens, "header_name">> \in Edges(h)
    BY DEF Edges
  <2>2. \A v \in Versions : Stored(Fields(m, u, v, h), "header_line_start", c, "header_name")
                             \in {Fields(m, u, x, Append(h, [name |-> <<c>>, value |-> <<>>])) : x \in Versions}
    BY ValueIsNat DEF Stored, Fields, Versions
  <2> QED
    BY <2>1, <2>2, Taken
<1>3. ASSUME NEW c \in Tokens, NEW q \in Here("header_name", m, u, h)
      PROVE  consume(q, c) \in Here("header_name", m, u, [h EXCEPT ![Len(h)].name = Append(@, c)])
  <2>1. <<"header_name", Tokens, "header_name">> \in Edges(h)
    BY DEF Edges
  <2>2. \A v \in Versions : Stored(Fields(m, u, v, h), "header_name", c, "header_name")
                             \in {Fields(m, u, x, [h EXCEPT ![Len(h)].name = Append(@, c)]) : x \in Versions}
    BY ValueIsNat DEF Stored, Fields, Versions
  <2> QED
    BY <2>1, <2>2, Taken
<1>4. ASSUME NEW c \in {":"}, NEW q \in Here("header_name", m, u, h)
      PROVE  consume(q, c) \in Here("space_before_header_value", m, u, h)
  <2>1. <<"header_name", {":"}, "space_before_header_value">> \in Edges(h)
    BY DEF Edges
  <2>2. \A v \in Versions : Stored(Fields(m, u, v, h), "header_name", c, "space_before_header_value")
                             \in {Fields(m, u, x, h) : x \in Versions}
    BY ValueIsNat DEF Stored, Fields, Versions
  <2> QED
    BY <2>1, <2>2, Taken
<1>5. ASSUME NEW c \in {Space}, NEW q \in Here("space_before_header_value", m, u, h)
      PROVE  consume(q, c) \in Here("header_value", m, u, h)
  <2>1. <<"space_before_header_value", {Space}, "header_value">> \in Edges(h)
    BY DEF Edges
  <2>2. \A v \in Versions : Stored(Fields(m, u, v, h), "space_before_header_value", c, "header_value")
                             \in {Fields(m, u, x, h) : x \in Versions}
    BY ValueIsNat DEF Stored, Fields, Versions
  <2> QED
    BY <2>1, <2>2, Taken
<1>6. ASSUME NEW c \in Texts, NEW q \in Here("header_value", m, u, h)
      PROVE  consume(q, c) \in Here("header_value", m, u, [h EXCEPT ![Len(h)].value = Append(@, c)])
  <2>1. <<"header_value", Texts, "header_value">> \in Edges(h)
    BY DEF Edges
  <2>2. \A v \in Versions : Stored(Fields(m, u, v, h), "header_value", c, "header_value")
                             \in {Fields(m, u, x, [h EXCEPT ![Len(h)].value = Append(@, c)]) : x \in Versions}
    BY ValueIsNat DEF Stored, Fields, Versions
  <2> QED
    BY <2>1, <2>2, Taken
<1>7. ASSUME NEW c \in {CR}, NEW q \in Here("header_value", m, u, h)
      PROVE  consume(q, c) \in Here("expecting_newline_2", m, u, h)
  <2>1. <<"header_value", {CR}, "expecting_newline_2">> \in Edges(h)
    BY DEF Edges
  <2>2. \A v \in Versions : Stored(Fields(m, u, v, h), "header_value", c, "expecting_newline_2")
                             \in {Fields(m, u, x, h) : x \in Versions}
    BY ValueIsNat DEF Stored, Fields, Versions
  <2> QED
    BY <2>1, <2>2, Taken
<1>8. ASSUME NEW c \in {Space, Tab}, NEW q \in Here("header_lws", m, u, h)
      PROVE  consume(q, c) \in Here("header_lws", m, u, h)
  <2>1. <<"header_lws", {Space, Tab}, "header_lws">> \in Edges(h)
    BY DEF Edges
  <2>2. \A v \in Versions : Stored(Fields(m, u, v, h), "header_lws", c, "header_lws")
                             \in {Fields(m, u, x, h) : x \in Versions}
    BY ValueIsNat DEF Stored, Fields, Versions
  <2> QED
    BY <2>1, <2>2, Taken
<1>9. ASSUME NEW c \in Texts \ {Space}, NEW q \in Here("header_lws", m, u, h)
      PROVE  consume(q, c) \in Here("header_value", m, u, [h EXCEPT ![Len(h)].value = Append(@, c)])
  <2>1. <<"header_lws", Texts \ {Space}, "header_value">> \in Edges(h)
    BY DEF Edges
  <2>2. \A v \in Versions : Stored(Fields(m, u, v, h), "header_lws", c, "header_value")
                             \in {Fields(m, u, x, [h EXCEPT ![Len(h)].value = Append(@, c)]) : x \in Versions}
    BY ValueIsNat DEF Stored, Fields, Versions
  <2> QED
    BY <2>1, <2>2, Taken
<1>10. ASSUME NEW c \in {CR}, NEW q \in Here("header_lws", m, u, h)
      PROVE  consume(q, c) \in Here("expecting_newline_2", m, u, h)
  <2>1. <<"header_lws", {CR}, "expecting_newline_2">> \in Edges(h)
    BY DEF Edges
  <2>2. \A v \in Versions : Stored(Fields(m, u, v, h), "header_lws", c, "expecting_newline_2")
                             \in {Fields(m, u, x, h) : x \in Versions}
    BY ValueIsNat DEF Stored, Fields, Versions
  <2> QED
    BY <2>1, <2>2, Taken
<1>11. ASSUME NEW c \in {LF}, NEW q \in Here("expecting_newline_2", m, u, h)
      PROVE  consume(q, c) \in Here("header_line_start", m, u, h)
  <2>1. <<"expecting_newline_2", {LF}, "header_line_start">> \in Edges(h)
    BY DEF Edges
  <2>2. \A v \in Versions : Stored(Fields(m, u, v, h), "expecting_newline_2", c, "header_line_start")
                             \in {Fields(m, u, x, h) : x \in Versions}
    BY ValueIsNat DEF Stored, Fields, Versions
  <2> QED
    BY <2>1, <2>2, Taken
<1>12. ASSUME NEW c \in {LF}, NEW q \in Here("expecting_newline_3", m, u, h)
      PROVE  consume(q, c) \in Here("good", m, u, h)
  <2>1. <<"expecting_newline_3", {LF}, "good">> \in Edges(h)
    BY DEF Edges
  <2>2. \A v \in Versions : Stored(Fields(m, u, v, h), "expecting_newline_3", c, "good")
                             \in {Fields(m, u, x, h) : x \in Versions}
    BY ValueIsNat DEF Stored, Fields, Versions
  <2> QED
    BY <2>1, <2>2, Taken
<1>13. ASSUME h # <<>>, NEW c \in {Space, Tab}, NEW q \in Here("header_line_start", m, u, h)
      PROVE  consume(q, c) \in Here("header_lws", m, u, h)
  <2>1. <<"header_line_start", {Space, Tab}, "header_lws">> \in Edges(h)
    BY <1>13 DEF Edges
  <2>2. \A v \in Versions : Stored(Fields(m, u, v, h), "header_line_start", c, "header_lws")
                             \in {Fields(m, u, x, h) : x \in Versions}
    BY ValueIsNat DEF Stored, Fields, Versions
  <2> QED
    BY <2>1, <2>2, Taken
<1> QED
  BY <1>1, <1>2, <1>3, <1>4, <1>5, <1>6, <1>7, <1>8, <1>9, <1>10, <1>11, <1>12, <1>13

-----------------------------------------------------------------------------
(*                     What the parser makes of a text                      *)

(* What lines are made of. *)
Characters == Alphabet \cup {"H", "T", "P", "."}

(* Appending to the second of two sequences appends to both.                *)
LEMMA AppendSeq ==
  ASSUME NEW A, NEW s \in Seq(A), NEW t \in Seq(A), NEW c \in A
  PROVE  s \o Append(t, c) = Append(s \o t, c)
<1>1. Append(t, c) = t \o <<c>> /\ <<c>> \in Seq(A) /\ s \o t \in Seq(A)
  BY AppendIsConcat, ConcatProperties
<1>2. Append(s \o t, c) = (s \o t) \o <<c>>
  BY <1>1, AppendIsConcat
<1> QED
  BY <1>1, <1>2, ConcatAssociative

(* First one sequence of characters, and then another.                      *)
LEMMA ParseConcat ==
  ASSUME NEW A, NEW p, NEW s \in Seq(A), NEW t \in Seq(A)
  PROVE  parse(p, s \o t) = parse(parse(p, s), t)
<1> DEFINE S == {x \in Seq(A) : parse(p, s \o x) = parse(parse(p, s), x)}
<1>1. <<>> \in S
  <2>1. s \o <<>> = s /\ <<>> \in Seq(A)
    BY ConcatEmptySeq, EmptySeq
  <2>2. A = {} \/ \E c : c \in A
    OBVIOUS
  <2>3. parse(parse(p, s), <<>>) = parse(p, s)
    BY ParseEmpty
  <2> QED
    BY <2>1, <2>3
<1>2. ASSUME NEW x \in Seq(A), NEW c \in A, x \in S PROVE Append(x, c) \in S
  <2>1. Append(x, c) \in Seq(A) /\ s \o x \in Seq(A)
    BY AppendProperties, ConcatProperties
  <2>2. PICK y \in Seq(A) : y = s \o x
    BY <2>1
  <2>3. s \o Append(x, c) = Append(y, c)
    BY <2>2, AppendSeq
  <2>4. parse(p, Append(y, c)) = consume(parse(p, y), c)
    BY ParseFacts
  <2>5. parse(parse(p, s), Append(x, c)) = consume(parse(parse(p, s), x), c)
    BY ParseFacts
  <2> QED
    BY <1>2, <2>1, <2>2, <2>3, <2>4, <2>5
<1>3. Seq(A) \subseteq S
  <2> HIDE DEF S
  <2> QED
    BY <1>1, <1>2, Growing
<1> QED
  BY <1>3

(* The parsers of P are those of Q after s. *)
From(P, s, Q) == \A p \in P : parse(p, s) \in Q

(* One text after another.                                                  *)
LEMMA Chain ==
  ASSUME NEW s \in Seq(Characters), NEW t \in Seq(Characters), NEW P, NEW Q, NEW R,
         From(P, s, Q), From(Q, t, R)
  PROVE  From(P, s \o t, R) /\ s \o t \in Seq(Characters)
<1>1. ASSUME NEW p \in P PROVE parse(p, s \o t) \in R
  <2>1. parse(p, s) \in Q
    BY DEF From
  <2>2. parse(parse(p, s), t) \in R
    BY <2>1 DEF From
  <2> QED
    BY <2>2, ParseConcat
<1> QED
  BY <1>1, ConcatProperties DEF From

(* A text of one character.                                                 *)
LEMMA OneCharacter ==
  ASSUME NEW c, NEW P, NEW Q, \A p \in P : consume(p, c) \in Q
  PROVE  From(P, <<c>>, Q)
<1>1. ASSUME NEW p \in P PROVE parse(p, <<c>>) \in Q
  <2>1. <<>> \in Seq({c}) /\ Append(<<>>, c) = <<c>>
    OBVIOUS
  <2>2. PICK e \in Seq({c}) : e = <<>>
    BY <2>1
  <2>3. parse(p, Append(e, c)) = consume(parse(p, e), c)
    BY ParseFacts
  <2>4. parse(p, e) = p
    BY <2>2, ParseEmpty
  <2> QED
    BY <2>1, <2>2, <2>3, <2>4
<1> QED
  BY <1>1 DEF From

(* F gives the parsers there are after each sequence.                       *)
LEMMA Loop ==
  ASSUME NEW A, NEW F, \A a \in Seq(A), c \in A : \A p \in F[a] : consume(p, c) \in F[Append(a, c)]
  PROVE  \A a \in Seq(A) : From(F[<<>>], a, F[a])
<1> DEFINE S == {a \in Seq(A) : From(F[<<>>], a, F[a])}
<1>1. <<>> \in S
  BY ParseEmpty, EmptySeq DEF From
<1>2. ASSUME NEW a \in Seq(A), NEW c \in A, a \in S PROVE Append(a, c) \in S
  <2>1. ASSUME NEW p \in F[<<>>] PROVE parse(p, Append(a, c)) \in F[Append(a, c)]
    <3>1. parse(p, a) \in F[a]
      BY <1>2 DEF From
    <3> QED
      BY <3>1, ParseFacts
  <2> QED
    BY <2>1, AppendProperties DEF From
<1>3. Seq(A) \subseteq S
  <2> HIDE DEF S
  <2> QED
    BY <1>1, <1>2, Growing
<1> QED
  BY <1>3

(* A sequence whose elements are in a set is over that set.                 *)
LEMMA InSet ==
  ASSUME NEW A, NEW B, NEW s \in Seq(A), AllIn(s, B)
  PROVE  s \in Seq(B)
<1>1. PICK n \in Nat : n = Len(s)
  BY LenProperties
<1>2. s = [i \in 1..n |-> s[i]] /\ DOMAIN s = 1..n
  BY <1>1, LenProperties
<1>3. \A i \in 1..n : s[i] \in B
  BY <1>2 DEF AllIn
<1> QED
  BY <1>2, <1>3, IsASeq

(* A sequence over a set is over each larger one.                           *)
LEMMA Larger ==
  ASSUME NEW A, NEW B, A \subseteq B, NEW s \in Seq(A)
  PROVE  s \in Seq(B)
<1>1. AllIn(s, B)
  BY ElementOfSeq, LenProperties DEF AllIn
<1> QED
  BY <1>1, InSet

(* All that lines are made of are characters.                               *)
LEMMA CharacterSets ==
  /\ Seq(Tokens) \subseteq Seq(Characters) /\ Seq(Texts) \subseteq Seq(Characters)
  /\ Seq(Digits) \subseteq Seq(Characters) /\ Seq(Texts \ {Space}) \subseteq Seq(Characters)
  /\ Seq({Space, Tab}) \subseteq Seq(Characters) /\ Seq(Alphabet) \subseteq Seq(Characters)
  /\ {Space, Tab, CR, LF, ":", "/"} \subseteq Alphabet /\ Alphabet \subseteq Characters
<1>1. {Space, Tab, CR, LF, ":", "/"} \subseteq Alphabet
  BY DEF Alphabet, Specials, Controls
<1>2. Tokens \subseteq Characters /\ Texts \subseteq Characters /\ Digits \subseteq Characters
      /\ Texts \ {Space} \subseteq Characters /\ {Space, Tab} \subseteq Characters
      /\ Alphabet \subseteq Characters
  BY <1>1 DEF Tokens, Texts, Alphabet, Characters
<1> QED
  BY <1>1, <1>2, Larger

(* Any number of characters, at least one, that keep the parser in Q.       *)
LEMMA Repeated ==
  ASSUME NEW A, NEW P, NEW Q, \A c \in A, p \in P : consume(p, c) \in Q,
         \A c \in A, p \in Q : consume(p, c) \in Q, NEW a \in Seq(A), a # <<>>
  PROVE  From(P, a, Q)
<1> DEFINE F == [b \in Seq(A) |-> IF b = <<>> THEN P ELSE Q]
<1>1. ASSUME NEW b \in Seq(A), NEW c \in A, NEW p \in F[b]
      PROVE  consume(p, c) \in F[Append(b, c)]
  <2>1. Append(b, c) \in Seq(A) /\ Append(b, c) # <<>>
    BY AppendProperties
  <2> QED
    BY <2>1
<1>2. From(F[<<>>], a, F[a])
  <2> HIDE DEF F
  <2> QED
    BY <1>1, Loop
<1>3. F[<<>>] = P /\ F[a] = Q
  BY EmptySeq
<1> QED
  BY <1>2, <1>3

(* The method is stored character by character.                             *)
LEMMA MethodRead ==
  ASSUME NEW m \in Seq(Tokens), m # <<>>
  PROVE  From({Parser}, m, Here("method", m, <<>>, <<>>))
<1> DEFINE F == [a \in Seq(Tokens) |-> IF a = <<>> THEN Here("method_start", <<>>, <<>>, <<>>)
                                       ELSE Here("method", a, <<>>, <<>>)]
<1>1. ASSUME NEW a \in Seq(Tokens), NEW c \in Tokens, NEW p \in F[a]
      PROVE  consume(p, c) \in F[Append(a, c)]
  <2>1. Append(a, c) \in Seq(Tokens) /\ Append(a, c) # <<>>
    BY AppendProperties
  <2>2. CASE a = <<>>
    <3>1. p \in Here("method_start", a, <<>>, <<>>)
      BY <2>2
    <3>2. consume(p, c) \in Here("method", Append(a, c), <<>>, <<>>)
      BY <3>1, RequestSteps
    <3> QED
      BY <2>1, <3>2
  <2>3. CASE a # <<>>
    <3>1. p \in Here("method", a, <<>>, <<>>)
      BY <2>3
    <3>2. consume(p, c) \in Here("method", Append(a, c), <<>>, <<>>)
      BY <3>1, RequestSteps
    <3> QED
      BY <2>1, <3>2
  <2> QED
    BY <2>2, <2>3
<1>2. From(F[<<>>], m, F[m])
  <2> HIDE DEF F
  <2> QED
    BY <1>1, Loop
<1>3. F[<<>>] = Here("method_start", <<>>, <<>>, <<>>) /\ F[m] = Here("method", m, <<>>, <<>>)
  BY EmptySeq
<1>4. Parser \in Here("method_start", <<>>, <<>>, <<>>)
  BY DEF Parser, Unread, Here, Fields, Versions
<1> QED
  BY <1>2, <1>3, <1>4 DEF From

(* So is the uri.                                                           *)
LEMMA UriRead ==
  ASSUME NEW m, NEW u \in Seq(Texts \ {Space})
  PROVE  From(Here("uri", m, <<>>, <<>>), u, Here("uri", m, u, <<>>))
<1> DEFINE F == [a \in Seq(Texts \ {Space}) |-> Here("uri", m, a, <<>>)]
<1>1. ASSUME NEW a \in Seq(Texts \ {Space}), NEW c \in Texts \ {Space}, NEW p \in F[a]
      PROVE  consume(p, c) \in F[Append(a, c)]
  <2>1. Append(a, c) \in Seq(Texts \ {Space})
    BY AppendProperties
  <2>2. p \in Here("uri", m, a, <<>>)
    OBVIOUS
  <2>3. consume(p, c) \in Here("uri", m, Append(a, c), <<>>)
    BY <2>2, RequestSteps
  <2> QED
    BY <2>1, <2>3
<1>2. From(F[<<>>], u, F[u])
  <2> HIDE DEF F
  <2> QED
    BY <1>1, Loop
<1>3. F[<<>>] = Here("uri", m, <<>>, <<>>) /\ F[u] = Here("uri", m, u, <<>>)
  BY EmptySeq
<1> QED
  BY <1>2, <1>3

(* What appending builds, by its elements.                                  *)
LEMMA Built ==
  ASSUME NEW A, NEW n \in Nat, NEW s \in Seq(A), NEW c \in A, NEW w \in Seq(A),
         Len(s) = n, Len(w) = n + 1, \A i \in 1..n : w[i] = s[i], w[n + 1] = c
  PROVE  Append(s, c) = w
<1>1. /\ Append(s, c) \in Seq(A) /\ Len(Append(s, c)) = n + 1
      /\ \A i \in 1..n : Append(s, c)[i] = s[i]
      /\ Append(s, c)[n + 1] = c
  BY AppendProperties
<1>2. ASSUME NEW i \in 1..n + 1 PROVE Append(s, c)[i] = w[i]
  <2>1. i = n + 1 \/ i \in 1..n
    OBVIOUS
  <2> QED
    BY <1>1, <2>1
<1> QED
  BY <1>1, <1>2, SeqEqual

InTurn(a, b, c, d, e) == Append(Append(Append(Append(<<a>>, b), c), d), e) = <<a, b, c, d, e>>

(* Five elements, one by one.                                               *)
LEMMA Five ==
  ASSUME NEW A, NEW a \in A, NEW b \in A, NEW c \in A, NEW d \in A, NEW e \in A
  PROVE  InTurn(a, b, c, d, e)
<1>1. Append(<<a>>, b) = <<a, b>>
  <2>1. <<a>> \in Seq(A) /\ Len(<<a>>) = 1 /\ \A i \in 1..1 : <<a, b>>[i] = <<a>>[i]
    OBVIOUS
  <2>2. <<a, b>> \in Seq(A) /\ Len(<<a, b>>) = 1 + 1 /\ <<a, b>>[1 + 1] = b
    OBVIOUS
  <2>3. 1 \in Nat
    OBVIOUS
  <2> QED
    BY <2>1, <2>2, <2>3, Built, Zenon
<1>2. Append(<<a, b>>, c) = <<a, b, c>>
  <2>1. <<a, b>> \in Seq(A) /\ Len(<<a, b>>) = 2 /\ \A i \in 1..2 : <<a, b, c>>[i] = <<a, b>>[i]
    OBVIOUS
  <2>2. <<a, b, c>> \in Seq(A) /\ Len(<<a, b, c>>) = 2 + 1 /\ <<a, b, c>>[2 + 1] = c
    OBVIOUS
  <2>3. 2 \in Nat
    OBVIOUS
  <2> QED
    BY <2>1, <2>2, <2>3, Built, Zenon
<1>3. Append(<<a, b, c>>, d) = <<a, b, c, d>>
  <2>1. <<a, b, c>> \in Seq(A) /\ Len(<<a, b, c>>) = 3 /\ \A i \in 1..3 : <<a, b, c, d>>[i] = <<a, b, c>>[i]
    OBVIOUS
  <2>2. <<a, b, c, d>> \in Seq(A) /\ Len(<<a, b, c, d>>) = 3 + 1 /\ <<a, b, c, d>>[3 + 1] = d
    OBVIOUS
  <2>3. 3 \in Nat
    OBVIOUS
  <2> QED
    BY <2>1, <2>2, <2>3, Built, Zenon
<1>4. Append(<<a, b, c, d>>, e) = <<a, b, c, d, e>>
  <2>1. <<a, b, c, d>> \in Seq(A) /\ Len(<<a, b, c, d>>) = 4 /\ \A i \in 1..4 : <<a, b, c, d, e>>[i] = <<a, b, c, d>>[i]
    OBVIOUS
  <2>2. <<a, b, c, d, e>> \in Seq(A) /\ Len(<<a, b, c, d, e>>) = 4 + 1 /\ <<a, b, c, d, e>>[4 + 1] = e
    OBVIOUS
  <2>3. 4 \in Nat
    OBVIOUS
  <2> QED
    BY <2>1, <2>2, <2>3, Built, Zenon
<1> QED
  BY <1>1, <1>2, <1>3, <1>4, Zenon DEF InTurn

(* The name of the protocol, one by one.                                    *)
LEMMA Protocol ==
  Append(Append(Append(Append(<<"H">>, "T"), "T"), "P"), "/") = <<"H", "T", "T", "P", "/">>
<1>1. "H" \in {"H", "T", "P", "/"} /\ "T" \in {"H", "T", "P", "/"}
      /\ "P" \in {"H", "T", "P", "/"} /\ "/" \in {"H", "T", "P", "/"}
  OBVIOUS
<1>2. InTurn("H", "T", "T", "P", "/")
  BY <1>1, Five, Zenon
<1> QED
  BY <1>2 DEF InTurn

(* The protocol and its version are read to the end of the minor number.    *)
LEMMA ProtocolRead ==
  ASSUME NEW m, NEW u, NEW j \in Seq(Digits), NEW n \in Seq(Digits), j # <<>>, n # <<>>
  PROVE  LET v == <<"H", "T", "T", "P", "/">> \o j \o <<".">> \o n
         IN  /\ From(Here("http_version_h", m, u, <<>>), v, Here("http_version_minor", m, u, <<>>))
             /\ v \in Seq(Characters)
<1> DEFINE At(state) == Here(state, m, u, <<>>)
<1>1. From(At("http_version_h"), <<"H">>, At("http_version_t_1"))
  BY RequestSteps, OneCharacter
<1>2. From(At("http_version_t_1"), <<"T">>, At("http_version_t_2"))
  BY RequestSteps, OneCharacter
<1>3. From(At("http_version_t_2"), <<"T">>, At("http_version_p"))
  BY RequestSteps, OneCharacter
<1>4. From(At("http_version_p"), <<"P">>, At("http_version_slash"))
  BY RequestSteps, OneCharacter
<1>5. From(At("http_version_slash"), <<"/">>, At("http_version_major_start"))
  BY RequestSteps, OneCharacter
<1>6. From(At("http_version_major_start"), j, At("http_version_major"))
  BY RequestSteps, Repeated
<1>7. From(At("http_version_major"), <<".">>, At("http_version_minor_start"))
  BY RequestSteps, OneCharacter
<1>8. From(At("http_version_minor_start"), n, At("http_version_minor"))
  BY RequestSteps, Repeated
<1>9. /\ <<"H">> \in Seq(Characters) /\ <<"T">> \in Seq(Characters) /\ <<"P">> \in Seq(Characters)
      /\ <<"/">> \in Seq(Characters) /\ <<".">> \in Seq(Characters)
      /\ j \in Seq(Characters) /\ n \in Seq(Characters)
  BY CharacterSets DEF Characters
<1> HIDE DEF At
<1>10. From(At("http_version_h"), <<"H">> \o <<"T">>, At("http_version_t_2"))
       /\ <<"H">> \o <<"T">> \in Seq(Characters)
  BY <1>1, <1>2, <1>9, Chain
<1>11. PICK a : a = <<"H">> \o <<"T">>
  OBVIOUS
<1>12. From(At("http_version_h"), a \o <<"T">>, At("http_version_p"))
       /\ a \o <<"T">> \in Seq(Characters)
  BY <1>3, <1>9, <1>10, <1>11, Chain
<1>13. PICK b : b = a \o <<"T">>
  OBVIOUS
<1>14. From(At("http_version_h"), b \o <<"P">>, At("http_version_slash"))
       /\ b \o <<"P">> \in Seq(Characters)
  BY <1>4, <1>9, <1>12, <1>13, Chain
<1>15. PICK c : c = b \o <<"P">>
  OBVIOUS
<1>16. From(At("http_version_h"), c \o <<"/">>, At("http_version_major_start"))
       /\ c \o <<"/">> \in Seq(Characters)
  BY <1>5, <1>9, <1>14, <1>15, Chain
<1>17. PICK d : d = c \o <<"/">>
  OBVIOUS
<1>18. From(At("http_version_h"), d \o j, At("http_version_major")) /\ d \o j \in Seq(Characters)
  BY <1>6, <1>9, <1>16, <1>17, Chain
<1>19. PICK e : e = d \o j
  OBVIOUS
<1>20. From(At("http_version_h"), e \o <<".">>, At("http_version_minor_start"))
       /\ e \o <<".">> \in Seq(Characters)
  BY <1>7, <1>9, <1>18, <1>19, Chain
<1>21. PICK f : f = e \o <<".">>
  OBVIOUS
<1>22. From(At("http_version_h"), f \o n, At("http_version_minor")) /\ f \o n \in Seq(Characters)
  BY <1>8, <1>9, <1>20, <1>21, Chain
<1>23. d = <<"H", "T", "T", "P", "/">>
  <2>1. a = Append(<<"H">>, "T") /\ b = Append(a, "T") /\ c = Append(b, "P") /\ d = Append(c, "/")
    <3>1. {"T", "P", "/"} \subseteq Characters
      BY CharacterSets DEF Characters
    <3> QED
      BY <1>9, <1>10, <1>11, <1>12, <1>13, <1>14, <1>15, <1>17, <3>1, AppendIsConcat
  <2> QED
    BY <2>1, Protocol
<1> QED
  BY <1>19, <1>21, <1>22, <1>23 DEF At

(* The parts of a request line are read one after the other.                *)
LEMMA RequestLineRead ==
  ASSUME NEW m \in Seq(Tokens), m # <<>>, NEW u \in Seq(Texts \ {Space}), NEW v \in Seq(Characters),
         NEW Q, From(Here("http_version_h", m, u, <<>>), v, Q)
  PROVE  /\ From({Parser}, m \o <<Space>> \o u \o <<Space>> \o v, Q)
         /\ m \o <<Space>> \o u \o <<Space>> \o v \in Seq(Characters)
<1>1. m \in Seq(Characters) /\ u \in Seq(Characters) /\ <<Space>> \in Seq(Characters)
  BY CharacterSets
<1>2. From({Parser}, m, Here("method", m, <<>>, <<>>))
  BY MethodRead
<1>3. From(Here("method", m, <<>>, <<>>), <<Space>>, Here("uri", m, <<>>, <<>>))
  BY RequestSteps, OneCharacter
<1>4. From(Here("uri", m, <<>>, <<>>), u, Here("uri", m, u, <<>>))
  BY UriRead
<1>5. From(Here("uri", m, u, <<>>), <<Space>>, Here("http_version_h", m, u, <<>>))
  BY RequestSteps, OneCharacter
<1>6. PICK a : a = m \o <<Space>>
  OBVIOUS
<1>7. From({Parser}, a, Here("uri", m, <<>>, <<>>)) /\ a \in Seq(Characters)
  BY <1>1, <1>2, <1>3, <1>6, Chain
<1>8. PICK b : b = a \o u
  OBVIOUS
<1>9. From({Parser}, b, Here("uri", m, u, <<>>)) /\ b \in Seq(Characters)
  BY <1>1, <1>4, <1>7, <1>8, Chain
<1>10. PICK c : c = b \o <<Space>>
  OBVIOUS
<1>11. From({Parser}, c, Here("http_version_h", m, u, <<>>)) /\ c \in Seq(Characters)
  BY <1>1, <1>5, <1>9, <1>10, Chain
<1>12. From({Parser}, c \o v, Q) /\ c \o v \in Seq(Characters)
  BY <1>11, Chain
<1> QED
  BY <1>6, <1>8, <1>10, <1>12

-----------------------------------------------------------------------------
(*                        The headers of the request                        *)

Entries == [name : Seq(Tokens), value : Seq(Texts)]

(* The last header goes on with v. *)
Ended(h, v) == [h EXCEPT ![Len(h)].value = @ \o v]

(* Appending as a function.                                                 *)
LEMMA AppendMap ==
  ASSUME NEW A, NEW s \in Seq(A), NEW n \in Nat, n = Len(s), NEW e \in A
  PROVE  Append(s, e) = [i \in 1..n + 1 |-> IF i = n + 1 THEN e ELSE s[i]]
<1>1. PICK t : t = Append(s, e)
  OBVIOUS
<1>2. t \in Seq(A) /\ Len(t) = n + 1 /\ (\A i \in 1..n : t[i] = s[i]) /\ t[n + 1] = e
  BY <1>1, AppendProperties
<1>3. t = [i \in 1..n + 1 |-> t[i]]
  BY <1>2, LenProperties
<1>4. \A i \in 1..n + 1 : t[i] = IF i = n + 1 THEN e ELSE s[i]
  BY <1>2
<1> QED
  BY <1>1, <1>3, <1>4

(* To replace the last element is to append the other in its place.         *)
LEMMA ReplaceLast ==
  ASSUME NEW A, NEW g \in Seq(A), NEW d \in A, NEW e \in A, NEW t, t = Append(g, d)
  PROVE  /\ [t EXCEPT ![Len(t)] = e] = Append(g, e)
         /\ t[Len(t)] = d
<1>1. PICK n \in Nat : n = Len(g)
  BY LenProperties
<1>2. t = [i \in 1..n + 1 |-> IF i = n + 1 THEN d ELSE g[i]]
  BY <1>1, AppendMap
<1>3. Append(g, e) = [i \in 1..n + 1 |-> IF i = n + 1 THEN e ELSE g[i]]
  BY <1>1, AppendMap
<1>4. PICK k : k = Len(t)
  OBVIOUS
<1>5. k = n + 1
  BY <1>1, <1>4, AppendProperties
<1>6. PICK s : s = [t EXCEPT ![k] = e]
  OBVIOUS
<1>7. s = [i \in 1..n + 1 |-> IF i = n + 1 THEN e ELSE g[i]]
  BY <1>2, <1>5, <1>6
<1>8. t[k] = d
  BY <1>2, <1>5
<1>9. s = Append(g, e)
  BY <1>3, <1>7
<1> QED
  BY <1>4, <1>6, <1>8, <1>9

Entry(a, b) == [name |-> a, value |-> b]
LastHeader(h) == h[Len(h)]
WithHeader(h, e) == [h EXCEPT ![Len(h)] = e]
WithValue(h, x) == [h EXCEPT ![Len(h)].value = x]
WithName(h, x) == [h EXCEPT ![Len(h)].name = x]

(* Headers are pairs of a name and a value.                                 *)
LEMMA EntryTypes ==
  /\ \A a \in Seq(Tokens), b \in Seq(Texts) : Entry(a, b) \in Entries
  /\ \A e \in Entries : \E a \in Seq(Tokens), b \in Seq(Texts) : e = Entry(a, b)
  BY DEF Entry, Entries

(* The parts of such a pair.                                                *)
LEMMA EntryFields ==
  ASSUME NEW a, NEW b
  PROVE  Entry(a, b).value = b /\ Entry(a, b).name = a
  BY DEF Entry

(* The same for the last header.                                            *)
LEMMA HeaderReplaced ==
  ASSUME NEW g \in Seq(Entries), NEW d \in Entries, NEW e \in Entries
  PROVE  WithHeader(Append(g, d), e) = Append(g, e) /\ LastHeader(Append(g, d)) = d
<1>1. PICK t : t = Append(g, d)
  OBVIOUS
<1>2. [t EXCEPT ![Len(t)] = e] = Append(g, e) /\ t[Len(t)] = d
  BY <1>1, ReplaceLast
<1> QED
  BY <1>1, <1>2 DEF WithHeader, LastHeader

(* The last header with another value or name.                              *)
LEMMA LastEntry ==
  ASSUME NEW g \in Seq(Entries), NEW a \in Seq(Tokens), NEW b \in Seq(Texts),
         NEW x \in Seq(Texts), NEW y \in Seq(Tokens)
  PROVE  /\ WithValue(Append(g, Entry(a, b)), x) = Append(g, Entry(a, x))
         /\ WithName(Append(g, Entry(a, b)), y) = Append(g, Entry(y, b))
         /\ LastHeader(Append(g, Entry(a, b))) = Entry(a, b)
<1>1. PICK d \in Entries : d = Entry(a, b)
  BY EntryTypes
<1>2. PICK e \in Entries : e = Entry(a, x)
  BY EntryTypes
<1>3. PICK f \in Entries : f = Entry(y, b)
  BY EntryTypes
<1>4. PICK h : h = Append(g, d)
  OBVIOUS
<1>5. LastHeader(h) = d
  BY <1>4, HeaderReplaced
<1>6. WithValue(h, x) = WithHeader(h, [LastHeader(h) EXCEPT !.value = x])
  BY DEF WithValue, WithHeader, LastHeader
<1>7. WithName(h, y) = WithHeader(h, [LastHeader(h) EXCEPT !.name = y])
  BY DEF WithName, WithHeader, LastHeader
<1>8. [d EXCEPT !.value = x] = e /\ [d EXCEPT !.name = y] = f
  BY <1>1, <1>2, <1>3 DEF Entry
<1>9. WithHeader(h, e) = Append(g, e) /\ WithHeader(h, f) = Append(g, f)
  BY <1>4, HeaderReplaced
<1>10. WithValue(h, x) = Append(g, e) /\ WithName(h, y) = Append(g, f)
  BY <1>5, <1>6, <1>7, <1>8, <1>9
<1> QED
  BY <1>1, <1>2, <1>3, <1>4, <1>5, <1>10

(* Headers that there are end with one.                                     *)
LEMMA LastOf ==
  ASSUME NEW h \in Seq(Entries), h # <<>>
  PROVE  \E g \in Seq(Entries), a \in Seq(Tokens), b \in Seq(Texts) : h = Append(g, Entry(a, b))
<1>1. PICK g \in Seq(Entries), e \in Entries : h = Append(g, e)
  BY Appended
<1>2. PICK a \in Seq(Tokens), b \in Seq(Texts) : e = Entry(a, b)
  BY EntryTypes
<1>3. h = Append(g, Entry(a, b))
  BY <1>1, <1>2
<1> QED
  BY <1>3

(* One character of a value is a value.                                     *)
LEMMA OneText ==
  ASSUME NEW c \in Texts
  PROVE  <<c>> \in Seq(Texts)
  OBVIOUS

(* Two values one after the other are one.                                  *)
LEMMA ConcatText ==
  ASSUME NEW v \in Seq(Texts), NEW w \in Seq(Texts)
  PROVE  v \o w \in Seq(Texts)
  BY ConcatProperties

(* To go on changes the value of the last header.                           *)
LEMMA EndedLast ==
  ASSUME NEW g \in Seq(Entries), NEW a \in Seq(Tokens), NEW b \in Seq(Texts), NEW v \in Seq(Texts)
  PROVE  Ended(Append(g, Entry(a, b)), v) = Append(g, Entry(a, b \o v))
<1>1. PICK h : h = Append(g, Entry(a, b))
  OBVIOUS
<1>2. LastHeader(h) = Entry(a, b)
  BY <1>1, LastEntry, EmptySeq
<1>3. LastHeader(h).value = b
  BY <1>2, EntryFields
<1>4. PICK x \in Seq(Texts) : x = b \o v
  BY ConcatText
<1>5. WithValue(h, x) = Append(g, Entry(a, x))
  BY <1>1, LastEntry
<1>6. Ended(h, v) = WithValue(h, LastHeader(h).value \o v)
  BY DEF Ended, WithValue, LastHeader
<1> QED
  BY <1>1, <1>3, <1>4, <1>5, <1>6

(* Headers with one more are headers.                                       *)
LEMMA EntryAppended ==
  ASSUME NEW g \in Seq(Entries), NEW a \in Seq(Tokens), NEW b \in Seq(Texts)
  PROVE  Append(g, Entry(a, b)) \in Seq(Entries) /\ Append(g, Entry(a, b)) # <<>>
<1>1. PICK e \in Entries : e = Entry(a, b)
  BY EntryTypes
<1>2. Append(g, e) \in Seq(Entries) /\ Append(g, e) # <<>>
  BY AppendProperties
<1> QED
  BY <1>1, <1>2

(* Headers whose last goes on are headers.                                  *)
LEMMA EndedType ==
  ASSUME NEW h \in Seq(Entries), h # <<>>, NEW v \in Seq(Texts)
  PROVE  Ended(h, v) \in Seq(Entries) /\ Ended(h, v) # <<>>
<1>1. PICK g \in Seq(Entries), a \in Seq(Tokens), b \in Seq(Texts) : h = Append(g, Entry(a, b))
  BY LastOf
<1>2. PICK x \in Seq(Texts) : x = b \o v
  BY ConcatText
<1>3. Ended(h, v) = Append(g, Entry(a, x))
  BY <1>1, <1>2, EndedLast
<1>4. Append(g, Entry(a, x)) \in Seq(Entries) /\ Append(g, Entry(a, x)) # <<>>
  BY EntryAppended
<1> QED
  BY <1>3, <1>4

(* To go on twice is to go on with both. *)
LEMMA EndedTwice ==
  ASSUME NEW h \in Seq(Entries), h # <<>>, NEW v \in Seq(Texts), NEW w \in Seq(Texts)
  PROVE  Ended(Ended(h, v), w) = Ended(h, v \o w)
<1>1. PICK g \in Seq(Entries), a \in Seq(Tokens), b \in Seq(Texts) : h = Append(g, Entry(a, b))
  BY LastOf
<1>2. PICK x \in Seq(Texts) : x = b \o v
  BY ConcatText
<1>3. PICK k : k = Ended(h, v) /\ k = Append(g, Entry(a, x))
  BY <1>1, <1>2, EndedLast
<1>4. Ended(k, w) = Append(g, Entry(a, x \o w))
  BY <1>3, EndedLast
<1>5. PICK y \in Seq(Texts) : y = v \o w
  BY ConcatText
<1>6. Ended(h, y) = Append(g, Entry(a, b \o y))
  BY <1>1, EndedLast
<1>7. x \o w = b \o y
  BY <1>2, <1>5, ConcatAssociative
<1> QED
  BY <1>3, <1>4, <1>5, <1>6, <1>7

(* To go on with nothing changes nothing.                                   *)
LEMMA EndedEmpty ==
  ASSUME NEW h \in Seq(Entries), h # <<>>
  PROVE  Ended(h, <<>>) = h
<1>1. PICK g \in Seq(Entries), a \in Seq(Tokens), b \in Seq(Texts) : h = Append(g, Entry(a, b))
  BY LastOf
<1>2. PICK z \in Seq(Texts) : z = <<>>
  BY EmptySeq
<1>3. Ended(h, z) = Append(g, Entry(a, b \o z))
  BY <1>1, EndedLast
<1>4. b \o z = b
  BY <1>2, ConcatEmptySeq
<1> QED
  BY <1>1, <1>2, <1>3, <1>4

(* To go on with one character, as the parser does.                         *)
LEMMA EndedByOne ==
  ASSUME NEW h \in Seq(Entries), h # <<>>, NEW c \in Texts
  PROVE  [h EXCEPT ![Len(h)].value = Append(@, c)] = Ended(h, <<c>>)
<1>1. PICK g \in Seq(Entries), a \in Seq(Tokens), b \in Seq(Texts) : h = Append(g, Entry(a, b))
  BY LastOf
<1>2. PICK w \in Seq(Texts) : w = <<c>>
  BY OneText
<1>3. PICK x \in Seq(Texts) : x = Append(b, c)
  BY AppendProperties
<1>4. x = b \o w
  BY <1>2, <1>3, AppendIsConcat
<1>5. LastHeader(h) = Entry(a, b)
  BY <1>1, LastEntry, EmptySeq
<1>6. LastHeader(h).value = b
  BY <1>5, EntryFields
<1>7. [h EXCEPT ![Len(h)].value = Append(@, c)] = WithValue(h, Append(LastHeader(h).value, c))
  BY DEF WithValue, LastHeader
<1>8. WithValue(h, x) = Append(g, Entry(a, x))
  BY <1>1, LastEntry
<1>9. Ended(h, w) = Append(g, Entry(a, b \o w))
  BY <1>1, EndedLast
<1>10. [h EXCEPT ![Len(h)].value = Append(@, c)] = WithValue(h, x)
  BY <1>3, <1>6, <1>7
<1>11. Ended(h, w) = WithValue(h, x)
  BY <1>4, <1>8, <1>9
<1> QED
  BY <1>2, <1>10, <1>11, Zenon

(* To go on with a text and then with one character.                        *)
LEMMA EndedAppend ==
  ASSUME NEW h \in Seq(Entries), h # <<>>, NEW v \in Seq(Texts), NEW c \in Texts
  PROVE  Ended(Ended(h, v), <<c>>) = Ended(h, Append(v, c))
<1>1. PICK w \in Seq(Texts) : w = <<c>>
  BY OneText
<1>2. Append(v, c) = v \o w
  BY <1>1, AppendIsConcat
<1>3. Ended(Ended(h, v), w) = Ended(h, v \o w)
  BY EndedTwice
<1> QED
  BY <1>1, <1>2, <1>3

(* A value is stored character by character. *)
LEMMA ValueRead ==
  ASSUME NEW m, NEW u, NEW h \in Seq(Entries), h # <<>>, NEW v \in Seq(Texts)
  PROVE  From(Here("header_value", m, u, h), v, Here("header_value", m, u, Ended(h, v)))
<1> DEFINE F == [a \in Seq(Texts) |-> Here("header_value", m, u, Ended(h, a))]
<1>1. ASSUME NEW a \in Seq(Texts), NEW c \in Texts, NEW p \in F[a]
      PROVE  consume(p, c) \in F[Append(a, c)]
  <2>1. Append(a, c) \in Seq(Texts)
    BY AppendProperties
  <2>2. PICK k \in Seq(Entries) : k = Ended(h, a) /\ k # <<>>
    BY EndedType
  <2>3. p \in Here("header_value", m, u, k)
    BY <2>2
  <2>4. consume(p, c) \in Here("header_value", m, u, [k EXCEPT ![Len(k)].value = Append(@, c)])
    BY <2>3, HeaderSteps
  <2>5. [k EXCEPT ![Len(k)].value = Append(@, c)] = Ended(h, Append(a, c))
    <3>1. [k EXCEPT ![Len(k)].value = Append(@, c)] = Ended(k, <<c>>)
      BY <2>2, EndedByOne
    <3>2. Ended(Ended(h, a), <<c>>) = Ended(h, Append(a, c))
      BY EndedAppend
    <3> QED
      BY <2>2, <3>1, <3>2
  <2> QED
    BY <2>1, <2>4, <2>5
<1>2. From(F[<<>>], v, F[v])
  <2> HIDE DEF F
  <2> QED
    BY <1>1, Loop
<1>3. F[<<>>] = Here("header_value", m, u, h)
  BY EmptySeq, EndedEmpty
<1>4. F[v] = Here("header_value", m, u, Ended(h, v))
  OBVIOUS
<1> QED
  BY <1>2, <1>3, <1>4

(* A new header, of which there is only the name yet. *)
Named(h, a) == Append(h, [name |-> a, value |-> <<>>])

OneMore(h, c) == [h EXCEPT ![Len(h)].name = Append(@, c)]

(* A header of which there is only the name, and what it becomes.           *)
LEMMA NamedFacts ==
  ASSUME NEW h \in Seq(Entries), NEW a \in Seq(Tokens), NEW c \in Tokens, NEW v \in Seq(Texts)
  PROVE  /\ Named(h, a) \in Seq(Entries) /\ Named(h, a) # <<>>
         /\ OneMore(Named(h, a), c) = Named(h, Append(a, c))
         /\ Ended(Named(h, a), v) = Append(h, Entry(a, v))
<1>1. PICK b \in Seq(Texts) : b = <<>>
  BY EmptySeq
<1>2. PICK k : k = Append(h, Entry(a, b))
  OBVIOUS
<1>3. k = Named(h, a)
  BY <1>1, <1>2 DEF Named, Entry
<1>4. k \in Seq(Entries) /\ k # <<>>
  BY <1>2, EntryAppended
<1>5. PICK x \in Seq(Tokens) : x = Append(a, c)
  BY AppendProperties
<1>6. WithName(k, x) = Append(h, Entry(x, b))
  BY <1>2, LastEntry
<1>7. LastHeader(k) = Entry(a, b)
  BY <1>2, LastEntry
<1>8. LastHeader(k).name = a
  BY <1>7, EntryFields
<1>9. OneMore(k, c) = WithName(k, Append(LastHeader(k).name, c))
  BY DEF OneMore, WithName, LastHeader
<1>10. Append(h, Entry(x, b)) = Named(h, x)
  BY <1>1 DEF Named, Entry
<1>11. OneMore(k, c) = Named(h, x)
  BY <1>5, <1>6, <1>8, <1>9, <1>10
<1>12. Ended(k, v) = Append(h, Entry(a, b \o v))
  BY <1>2, EndedLast
<1>13. b \o v = v
  BY <1>1, ConcatEmptySeq
<1> QED
  BY <1>3, <1>4, <1>5, <1>11, <1>12, <1>13

-----------------------------------------------------------------------------
(*                           The parts of a line                            *)

(* The least number of a set is its minimum.                                *)
LEMMA MinIs ==
  ASSUME NEW I, NEW p \in I, \A i \in I : p =< i, \A i \in I : (\A j \in I : i =< j) => i = p
  PROVE  Min(I) = p
  BY Zenon DEF Min

(* What the operators on texts find: the first of such characters.          *)
First(seq, c, p) == p \in 1..Len(seq) /\ seq[p] = c /\ \A i \in 1..p - 1 : seq[i] # c

(* Before and After, when there is such a character.                        *)
LEMMA FoundAt ==
  ASSUME NEW A, NEW seq \in Seq(A), NEW c, NEW p, First(seq, c, p)
  PROVE  /\ Before(seq, c) = SubSeq(seq, 1, p - 1)
         /\ After(seq, c) = SubSeq(seq, p + 1, Len(seq))
<1>1. PICK n \in Nat : n = Len(seq)
  BY LenProperties
<1>2. PICK I : I = {i \in 1..n : seq[i] = c}
  OBVIOUS
<1> USE DEF First
<1>3. Min(I) = p
  <2>1. p \in I /\ \A i \in I : p =< i
    BY <1>1, <1>2
  <2>2. \A i \in I : (\A j \in I : i =< j) => i = p
    BY <1>1, <1>2, <2>1
  <2> QED
    BY <2>1, <2>2, MinIs
<1>4. SelectInSeq(seq, LAMBDA x : x = c) = p
  <2>1. SelectInSeq(seq, LAMBDA x : x = c) = IF I # {} THEN Min(I) ELSE 0
    BY <1>1, <1>2, Zenon DEF SelectInSeq
  <2>2. I # {}
    BY <1>1, <1>2
  <2> QED
    BY <1>3, <2>1, <2>2
<1>5. \E i \in DOMAIN seq : seq[i] = c
  BY LenProperties
<1> QED
  BY <1>4, <1>5 DEF Before, After

(* Before and After, when there is none.                                    *)
LEMMA NotFound ==
  ASSUME NEW A, NEW seq \in Seq(A), NEW c, \A i \in 1..Len(seq) : seq[i] # c
  PROVE  Before(seq, c) = seq /\ After(seq, c) = <<>>
  BY LenProperties DEF Before, After

(* There is none of some characters, or there is a first one.               *)
LEMMA Search ==
  ASSUME NEW A, NEW seq \in Seq(A), NEW C
  PROVE  \/ \A i \in 1..Len(seq) : seq[i] \notin C
         \/ \E p \in 1..Len(seq) : seq[p] \in C /\ \A i \in 1..p - 1 : seq[i] \notin C
<1>1. PICK n \in Nat : n = Len(seq)
  BY LenProperties
<1>2. PICK I : I = {i \in 1..n : seq[i] \in C}
  OBVIOUS
<1>3. CASE I = {}
  BY <1>1, <1>2, <1>3
<1>4. CASE I # {}
  <2>1. I \in SUBSET Nat
    BY <1>2
  <2>2. PICK p \in I : \A i \in I : ~(i < p)
    BY <1>4, <2>1, Least
  <2>3. p \in 1..n /\ seq[p] \in C /\ \A i \in 1..p - 1 : seq[i] \notin C
    BY <1>2, <2>2
  <2> QED
    BY <1>1, <2>3
<1> QED
  BY <1>3, <1>4

(* Parts of a sequence are over the same set.                               *)
LEMMA SubSeqType ==
  ASSUME NEW A, NEW seq \in Seq(A), NEW m \in Nat, NEW n \in Int, m > 0, n <= Len(seq)
  PROVE  SubSeq(seq, m, n) \in Seq(A)
<1>1. Len(seq) \in Nat
  BY LenProperties
<1>2. \A i \in m..n : seq[i] \in A
  BY <1>1, ElementOfSeq
<1> QED
  BY <1>2, SubSeqProperties

(* So are what is before and what is after a character.                     *)
LEMMA SplitTypes ==
  ASSUME NEW A, NEW seq \in Seq(A), NEW c
  PROVE  Before(seq, c) \in Seq(A) /\ After(seq, c) \in Seq(A)
<1>1. PICK n \in Nat : n = Len(seq)
  BY LenProperties
<1>2. CASE \A i \in 1..n : seq[i] \notin {c}
  <2>1. Before(seq, c) = seq /\ After(seq, c) = <<>>
    BY <1>1, <1>2, NotFound
  <2> QED
    BY <2>1, EmptySeq
<1>3. CASE \E p \in 1..n : seq[p] \in {c} /\ \A i \in 1..p - 1 : seq[i] \notin {c}
  <2>1. PICK p \in 1..n : seq[p] = c /\ \A i \in 1..p - 1 : seq[i] # c
    BY <1>3
  <2>2. Before(seq, c) = SubSeq(seq, 1, p - 1) /\ After(seq, c) = SubSeq(seq, p + 1, n)
    <3>1. First(seq, c, p)
      BY <1>1, <2>1 DEF First
    <3> QED
      BY <1>1, <3>1, FoundAt
  <2>3. SubSeq(seq, 1, p - 1) \in Seq(A)
    BY <1>1, SubSeqType
  <2>4. SubSeq(seq, p + 1, n) \in Seq(A)
    BY <1>1, SubSeqType
  <2> QED
    BY <2>2, <2>3, <2>4
<1> QED
  BY <1>1, <1>2, <1>3, Search

Joins(u, s, t, n, k) ==
  Len(u) = n + k /\ \A i \in 1..n + k : u[i] = IF i <= n THEN s[i] ELSE t[i - n]

(* Two sequences one after the other, by their elements.                    *)
LEMMA ConcatAt ==
  ASSUME NEW A, NEW s \in Seq(A), NEW t \in Seq(A)
  PROVE  s \o t \in Seq(A) /\ Joins(s \o t, s, t, Len(s), Len(t))
  BY ConcatProperties DEF Joins

(* The parts that a character separates. *)
LEMMA Separated ==
  ASSUME NEW A, NEW a \in Seq(A), NEW b \in Seq(A), NEW c \in A, \A i \in 1..Len(a) : a[i] # c
  PROVE  /\ Before(a \o <<c>> \o b, c) = a
         /\ After(a \o <<c>> \o b, c) = b
<1>1. PICK n \in Nat : n = Len(a)
  BY LenProperties
<1>2. PICK k \in Nat : k = Len(b)
  BY LenProperties
<1>3. PICK d : d = Append(a, c)
  OBVIOUS
<1>4. d \in Seq(A) /\ Len(d) = n + 1 /\ d[n + 1] = c /\ (\A i \in 1..n : d[i] = a[i])
      /\ d = a \o <<c>>
  BY <1>1, <1>3, AppendProperties, AppendIsConcat
<1>5. PICK t : t = d \o b
  OBVIOUS
<1>6. t \in Seq(A) /\ Len(t) = n + 1 + k
      /\ \A i \in 1..n + 1 + k : t[i] = IF i <= n + 1 THEN d[i] ELSE b[i - (n + 1)]
  <2>1. PICK r \in Nat : r = n + 1
    OBVIOUS
  <2>2. t \in Seq(A) /\ Len(t) = r + k
        /\ \A i \in 1..r + k : t[i] = IF i <= r THEN d[i] ELSE b[i - r]
    <3>1. t \in Seq(A) /\ Joins(t, d, b, Len(d), Len(b))
      BY <1>4, <1>5, ConcatAt
    <3>2. Joins(t, d, b, r, k)
      BY <1>2, <1>4, <2>1, <3>1
    <3> QED
      BY <3>1, <3>2 DEF Joins
  <2> QED
    BY <2>1, <2>2
<1>7. PICK p \in Nat : p = n + 1
  OBVIOUS
<1>8. First(t, c, p)
  BY <1>1, <1>4, <1>6, <1>7 DEF First
<1>9. /\ Before(t, c) = SubSeq(t, 1, p - 1)
      /\ After(t, c) = SubSeq(t, p + 1, n + 1 + k)
  BY <1>6, <1>8, FoundAt
<1>10. SubSeq(t, 1, n) = a
  <2>1. PICK s : s = SubSeq(t, 1, n)
    OBVIOUS
  <2>2. \A i \in 1..n : t[i] \in A
    BY <1>6, ElementOfSeq
  <2>3. s \in Seq(A) /\ Len(s) = n /\ \A i \in 1..n : s[i] = t[i]
    BY <2>1, <2>2, SubSeqProperties
  <2>4. \A i \in 1..n : s[i] = a[i]
    BY <1>4, <1>6, <2>3
  <2> QED
    BY <1>1, <2>1, <2>3, <2>4, SeqEqual
<1>11. SubSeq(t, n + 2, n + 1 + k) = b
  <2>1. PICK s : s = SubSeq(t, n + 2, n + 1 + k)
    OBVIOUS
  <2>2. \A i \in n + 2..n + 1 + k : t[i] \in A
    BY <1>6, ElementOfSeq
  <2>3. s \in Seq(A) /\ Len(s) = k /\ \A i \in 1..k : s[i] = t[n + 2 + i - 1]
    BY <2>1, <2>2, SubSeqProperties
  <2>4. ASSUME NEW i \in 1..k PROVE s[i] = b[i]
    <3>1. n + 2 + i - 1 \in 1..n + 1 + k /\ ~(n + 2 + i - 1 <= n + 1)
          /\ (n + 2 + i - 1) - (n + 1) = i
      OBVIOUS
    <3> QED
      BY <1>6, <2>3, <3>1
  <2> QED
    BY <1>2, <2>1, <2>3, <2>4, SeqEqual
<1>12. p - 1 = n /\ p + 1 = n + 2
  BY <1>7
<1> QED
  BY <1>4, <1>5, <1>9, <1>10, <1>11, <1>12

InPair(a, b) == <<a>> \o <<b>> = <<a, b>>

(* Two elements, one after the other.                                       *)
LEMMA Two ==
  ASSUME NEW A, NEW a \in A, NEW b \in A
  PROVE  InPair(a, b)
<1>1. <<a>> \in Seq(A) /\ Len(<<a>>) = 1 /\ \A i \in 1..1 : <<a, b>>[i] = <<a>>[i]
  OBVIOUS
<1>2. <<a, b>> \in Seq(A) /\ Len(<<a, b>>) = 1 + 1 /\ <<a, b>>[1 + 1] = b
  OBVIOUS
<1>3. 1 \in Nat
  OBVIOUS
<1>4. Append(<<a>>, b) = <<a, b>>
  BY <1>1, <1>2, <1>3, Built, Zenon
<1>5. PICK s \in Seq(A) : s = <<a>>
  BY <1>1
<1>6. Append(s, b) = s \o <<b>>
  BY AppendIsConcat
<1> QED
  BY <1>4, <1>5, <1>6, Zenon DEF InPair

(* The parts of a line are over the same set as the line.                   *)
LEMMA PartTypes ==
  ASSUME NEW row \in Seq(Alphabet)
  PROVE  /\ Method(row) \in Seq(Alphabet) /\ Uri(row) \in Seq(Alphabet)
         /\ Version(row) \in Seq(Alphabet)
         /\ Major(row) \in Seq(Alphabet) /\ Minor(row) \in Seq(Alphabet)
         /\ Name(row) \in Seq(Alphabet) /\ Content(row) \in Seq(Alphabet)
<1>1. PICK a \in Seq(Alphabet) : a = After(row, Space)
  BY SplitTypes
<1>2. PICK v \in Seq(Alphabet) : v = After(a, Space)
  BY SplitTypes
<1>3. PICK b \in Seq(Alphabet) : b = After(v, "/")
  BY SplitTypes
<1>4. PICK c \in Seq(Alphabet) : c = After(row, ":")
  BY SplitTypes
<1>5. /\ Before(row, Space) \in Seq(Alphabet) /\ Before(a, Space) \in Seq(Alphabet)
      /\ Before(b, ".") \in Seq(Alphabet) /\ After(b, ".") \in Seq(Alphabet)
      /\ Before(row, ":") \in Seq(Alphabet) /\ After(c, Space) \in Seq(Alphabet)
  BY SplitTypes
<1>6. Version(row) = v
  BY <1>1, <1>2 DEF Version
<1>7. Major(row) = Before(b, ".") /\ Minor(row) = After(b, ".")
  BY <1>3, <1>6 DEF Major, Minor
<1>8. Method(row) = Before(row, Space) /\ Uri(row) = Before(a, Space)
      /\ Name(row) = Before(row, ":") /\ Content(row) = After(c, Space)
  BY <1>1, <1>4 DEF Method, Uri, Name, Content
<1> QED
  BY <1>2, <1>5, <1>6, <1>7, <1>8

(* A request line is read to its end, with its method and uri.              *)
LEMMA RequestLineLeads ==
  ASSUME NEW row \in Seq(Alphabet), RequestLine(row)
  PROVE  From({Parser}, row, Here("http_version_minor", Method(row), Uri(row), <<>>))
<1>1. PICK m : m = Method(row)
  OBVIOUS
<1>2. PICK u : u = Uri(row)
  OBVIOUS
<1>3. PICK v : v = Version(row)
  OBVIOUS
<1>4. PICK j : j = Major(row)
  OBVIOUS
<1>5. PICK n : n = Minor(row)
  OBVIOUS
<1>6. /\ row = m \o <<Space>> \o u \o <<Space>> \o v
      /\ v = <<"H", "T", "T", "P", "/">> \o j \o <<".">> \o n
      /\ AllIn(m, Tokens) /\ AllIn(u, Texts \ {Space}) /\ AllIn(j, Digits) /\ AllIn(n, Digits)
      /\ m # <<>> /\ j # <<>> /\ n # <<>>
  BY <1>1, <1>2, <1>3, <1>4, <1>5, Zenon DEF RequestLine
<1>7. m \in Seq(Alphabet) /\ u \in Seq(Alphabet) /\ j \in Seq(Alphabet) /\ n \in Seq(Alphabet)
  BY <1>1, <1>2, <1>4, <1>5, PartTypes
<1>8. m \in Seq(Tokens) /\ u \in Seq(Texts \ {Space}) /\ j \in Seq(Digits) /\ n \in Seq(Digits)
  BY <1>6, <1>7, InSet
<1>9. /\ From(Here("http_version_h", m, u, <<>>), v, Here("http_version_minor", m, u, <<>>))
      /\ v \in Seq(Characters)
  BY <1>6, <1>8, ProtocolRead
<1>10. From({Parser}, m \o <<Space>> \o u \o <<Space>> \o v, Here("http_version_minor", m, u, <<>>))
  BY <1>6, <1>8, <1>9, RequestLineRead
<1> QED
  BY <1>1, <1>2, <1>6, <1>10, Zenon

(* The name of a header is stored character by character.                   *)
LEMMA NameRead ==
  ASSUME NEW m, NEW u, NEW h \in Seq(Entries), NEW a \in Seq(Tokens), a # <<>>
  PROVE  From(Here("header_line_start", m, u, h), a, Here("header_name", m, u, Named(h, a)))
<1> DEFINE F == [b \in Seq(Tokens) |-> IF b = <<>> THEN Here("header_line_start", m, u, h)
                                       ELSE Here("header_name", m, u, Named(h, b))]
<1>1. ASSUME NEW b \in Seq(Tokens), NEW c \in Tokens, NEW p \in F[b]
      PROVE  consume(p, c) \in F[Append(b, c)]
  <2>1. Append(b, c) \in Seq(Tokens) /\ Append(b, c) # <<>>
    BY AppendProperties
  <2>2. CASE b = <<>>
    <3>1. p \in Here("header_line_start", m, u, h)
      BY <2>2
    <3>2. Append(b, c) = <<c>>
      BY <2>2
    <3>3. Append(h, [name |-> <<c>>, value |-> <<>>]) = Named(h, Append(b, c))
      BY <3>2 DEF Named
    <3>4. consume(p, c) \in Here("header_name", m, u, Append(h, [name |-> <<c>>, value |-> <<>>]))
      BY <3>1, HeaderSteps
    <3> QED
      BY <2>1, <3>3, <3>4
  <2>3. CASE b # <<>>
    <3>1. PICK k : k = Named(h, b)
      OBVIOUS
    <3>2. p \in Here("header_name", m, u, k)
      BY <2>3, <3>1
    <3>3. consume(p, c) \in Here("header_name", m, u, [k EXCEPT ![Len(k)].name = Append(@, c)])
      BY <3>2, HeaderSteps
    <3>4. [k EXCEPT ![Len(k)].name = Append(@, c)] = Named(h, Append(b, c))
      <4>1. OneMore(Named(h, b), c) = Named(h, Append(b, c))
        BY NamedFacts, EmptySeq
      <4> QED
        BY <3>1, <4>1 DEF OneMore
    <3> QED
      BY <2>1, <3>3, <3>4
  <2> QED
    BY <2>2, <2>3
<1>2. From(F[<<>>], a, F[a])
  <2> HIDE DEF F
  <2> QED
    BY <1>1, Loop
<1>3. F[<<>>] = Here("header_line_start", m, u, h) /\ F[a] = Here("header_name", m, u, Named(h, a))
  BY EmptySeq
<1> QED
  BY <1>2, <1>3

(* A header line is stored as a header of its own.                          *)
LEMMA HeaderRead ==
  ASSUME NEW m, NEW u, NEW h \in Seq(Entries), NEW a \in Seq(Tokens), a # <<>>,
         NEW v \in Seq(Texts), NEW row, row = a \o <<":", Space>> \o v
  PROVE  From(Here("header_line_start", m, u, h), row, Here("header_value", m, u, Append(h, Entry(a, v))))
<1>1. PICK k : k = Named(h, a)
  OBVIOUS
<1>2. /\ k \in Seq(Entries) /\ k # <<>>
      /\ Ended(k, v) = Append(h, Entry(a, v))
  <2>1. \E c \in Tokens : TRUE
    BY DEF Tokens, Digits
  <2> QED
    BY <1>1, <2>1, NamedFacts
<1>3. From(Here("header_line_start", m, u, h), a, Here("header_name", m, u, k))
  BY <1>1, NameRead
<1>4. From(Here("header_name", m, u, k), <<":">>, Here("space_before_header_value", m, u, k))
  BY HeaderSteps, OneCharacter
<1>5. From(Here("space_before_header_value", m, u, k), <<Space>>, Here("header_value", m, u, k))
  BY HeaderSteps, OneCharacter
<1>6. From(Here("header_value", m, u, k), v, Here("header_value", m, u, Append(h, Entry(a, v))))
  BY <1>2, ValueRead
<1>7. a \in Seq(Characters) /\ v \in Seq(Characters) /\ ":" \in Characters /\ Space \in Characters
  BY CharacterSets
<1>8. <<":">> \in Seq(Characters) /\ <<Space>> \in Seq(Characters)
  BY <1>7
<1>9. PICK s : s = <<":">> \o <<Space>>
  OBVIOUS
<1>10. From(Here("header_name", m, u, k), s, Here("header_value", m, u, k)) /\ s \in Seq(Characters)
  BY <1>4, <1>5, <1>8, <1>9, Chain
<1>11. PICK t : t = a \o s
  OBVIOUS
<1>12. From(Here("header_line_start", m, u, h), t, Here("header_value", m, u, k)) /\ t \in Seq(Characters)
  BY <1>3, <1>7, <1>10, <1>11, Chain
<1>13. From(Here("header_line_start", m, u, h), t \o v, Here("header_value", m, u, Append(h, Entry(a, v))))
  BY <1>6, <1>7, <1>12, Chain
<1>14. s = <<":", Space>>
  <2>1. InPair(":", Space)
    BY <1>7, Two
  <2> QED
    BY <1>9, <2>1, Zenon DEF InPair
<1> QED
  BY <1>11, <1>13, <1>14, Zenon

(* A line is read, and it is the value of the last header or goes on with it. *)
LineRead(m, u, h) == Here("header_lws", m, u, h) \cup Here("header_value", m, u, h)

(* Blanks at the beginning of a line are skipped when there is a header.    *)
LEMMA BlanksRead ==
  ASSUME NEW m, NEW u, NEW h, h # <<>>, NEW b \in Seq({Space, Tab}), b # <<>>
  PROVE  From(Here("header_line_start", m, u, h), b, Here("header_lws", m, u, h))
<1>1. \A c \in {Space, Tab}, p \in Here("header_line_start", m, u, h) :
        consume(p, c) \in Here("header_lws", m, u, h)
  BY HeaderSteps
<1>2. \A c \in {Space, Tab}, p \in Here("header_lws", m, u, h) :
        consume(p, c) \in Here("header_lws", m, u, h)
  BY HeaderSteps
<1> QED
  BY <1>1, <1>2, Repeated

(* A sequence is empty, or begins with an element.                          *)
LEMMA ConsFacts ==
  ASSUME NEW A, NEW s \in Seq(A), s # <<>>
  PROVE  \E c \in A, t \in Seq(A) : s = <<c>> \o t /\ s[1] = c
<1>1. PICK n \in Nat : n = Len(s) /\ n > 0
  BY LenProperties, EmptySeq
<1>2. SubSeq(s, 1, n) = <<s[1]>> \o SubSeq(s, 2, n)
  BY <1>1, SubSeqRecursiveFirst
<1>3. SubSeq(s, 1, n) = s
  BY <1>1, SubSeqFull
<1>4. SubSeq(s, 2, n) \in Seq(A)
  BY <1>1, SubSeqType
<1>5. s[1] \in A
  BY <1>1, ElementOfSeq
<1> QED
  BY <1>2, <1>3, <1>4, <1>5

(* What follows the blanks goes on with the value.                          *)
LEMMA ContinuationRead ==
  ASSUME NEW m, NEW u, NEW h \in Seq(Entries), h # <<>>, NEW v \in Seq(Texts),
         v # <<>> => v[1] # Space
  PROVE  From(Here("header_lws", m, u, h), v, LineRead(m, u, Ended(h, v)))
<1>1. CASE v = <<>>
  <2>1. Ended(h, v) = h
    BY <1>1, EndedEmpty
  <2>2. \A p : parse(p, v) = p
    BY <1>1, ParseEmpty
  <2> QED
    BY <2>1, <2>2 DEF From, LineRead
<1>2. CASE v # <<>>
  <2>1. PICK c \in Texts, t \in Seq(Texts) : v = <<c>> \o t /\ v[1] = c
    BY <1>2, ConsFacts
  <2>2. c \in Texts \ {Space}
    BY <1>2, <2>1
  <2>3. PICK k : k = Ended(h, <<c>>)
    OBVIOUS
  <2>4. k \in Seq(Entries) /\ k # <<>>
    BY <2>3, OneText, EndedType
  <2>5. [h EXCEPT ![Len(h)].value = Append(@, c)] = k
    BY <2>3, EndedByOne
  <2>6. \A p \in Here("header_lws", m, u, h) :
          consume(p, c) \in Here("header_value", m, u, [h EXCEPT ![Len(h)].value = Append(@, c)])
    BY <2>2, HeaderSteps
  <2>7. From(Here("header_lws", m, u, h), <<c>>, Here("header_value", m, u, k))
    BY <2>5, <2>6, OneCharacter
  <2>8. From(Here("header_value", m, u, k), t, Here("header_value", m, u, Ended(k, t)))
    BY <2>4, ValueRead
  <2>9. <<c>> \in Seq(Characters) /\ t \in Seq(Characters)
    BY OneText, CharacterSets
  <2>10. From(Here("header_lws", m, u, h), <<c>> \o t, Here("header_value", m, u, Ended(k, t)))
    BY <2>7, <2>8, <2>9, Chain
  <2>11. PICK w \in Seq(Texts) : w = <<c>>
    BY OneText
  <2>12. Ended(Ended(h, w), t) = Ended(h, w \o t)
    BY EndedTwice
  <2>13. Ended(k, t) = Ended(h, v)
    BY <2>1, <2>3, <2>11, <2>12
  <2> QED
    BY <2>1, <2>10, <2>13 DEF From, LineRead
<1> QED
  BY <1>1, <1>2

(* A continuation is blanks, and then what is not indented. *)
LEMMA Indentation ==
  ASSUME NEW row \in Seq(Alphabet), Continuation(row), NEW v, v = Unindented(row)
  PROVE  /\ \E b \in Seq({Space, Tab}) : b # <<>> /\ row = b \o v
         /\ v \in Seq(Texts) /\ (v # <<>> => v[1] # Space)
<1>1. PICK n \in Nat : n = Len(row) /\ n > 0 /\ DOMAIN row = 1..n
  BY LenProperties, EmptySeq DEF Continuation
<1>2. row[1] \in {Space, Tab} /\ AllIn(v, Texts)
  BY DEF Continuation
<1>3. PICK B : B = {Space, Tab}
  OBVIOUS
<1>4. CASE AllIn(row, B)
  <2>1. v = <<>>
    BY <1>3, <1>4 DEF Unindented
  <2>2. row \in Seq(B) /\ row # <<>>
    BY <1>1, <1>4, InSet, EmptySeq
  <2>3. row = row \o v
    BY <2>1, ConcatEmptySeq
  <2> QED
    BY <1>3, <2>1, <2>2, <2>3, EmptySeq
<1>5. CASE ~AllIn(row, B)
  <2>1. PICK C : C = {c \in Alphabet : c \notin B}
    OBVIOUS
  <2>2. \A i \in 1..n : row[i] \in Alphabet
    BY <1>1, ElementOfSeq
  <2>3. PICK p \in 1..n : row[p] \in C /\ \A i \in 1..p - 1 : row[i] \notin C
    <3>1. \E i \in 1..n : row[i] \in C
      BY <1>1, <1>5, <2>1, <2>2 DEF AllIn
    <3> QED
      BY <1>1, <3>1, Search
  <2>4. SelectInSeq(row, LAMBDA c : c \notin {Space, Tab}) = p
    <3>1. PICK I : I = {i \in 1..n : row[i] \notin {Space, Tab}}
      OBVIOUS
    <3>2. SelectInSeq(row, LAMBDA c : c \notin {Space, Tab}) = IF I # {} THEN Min(I) ELSE 0
      BY <1>1, <3>1, Zenon DEF SelectInSeq
    <3>3. p \in I /\ \A i \in I : p =< i
      BY <1>3, <2>1, <2>2, <2>3, <3>1
    <3>4. \A i \in I : (\A j \in I : i =< j) => i = p
      BY <3>1, <3>3
    <3>5. Min(I) = p
      BY <3>3, <3>4, MinIs
    <3> QED
      BY <3>2, <3>3, <3>5
  <2>5. v = SubSeq(row, p, n)
    BY <1>1, <1>3, <1>5, <2>4 DEF Unindented
  <2>6. PICK b : b = SubSeq(row, 1, p - 1)
    OBVIOUS
  <2>7. row = b \o v
    <3>1. SubSeq(row, 1, p - 1) \o SubSeq(row, p, n) = SubSeq(row, 1, n)
      <4>1. 1 \in 1..n + 1 /\ p - 1 \in 0..n /\ n \in p - 1..n /\ (p - 1) + 1 = p /\ 1 - 1 = 0
        OBVIOUS
      <4> QED
        BY <1>1, <4>1, ConcatAdjacentSubSeq
    <3> QED
      BY <1>1, <2>5, <2>6, <3>1, SubSeqFull
  <2>8. p > 1
    BY <1>2, <1>3, <2>1, <2>3
  <2>9. b \in Seq(B) /\ b # <<>>
    <3>1. \A i \in 1..p - 1 : row[i] \in B
      BY <2>1, <2>2, <2>3
    <3>2. b \in Seq(B) /\ Len(b) = p - 1
      BY <2>6, <2>8, <3>1, SubSeqProperties
    <3> QED
      BY <2>8, <3>2, EmptySeq
  <2>10. v \in Seq(Alphabet) /\ Len(v) = n - p + 1 /\ v[1] = row[p]
    <3>1. \A i \in p..n : row[i] \in Alphabet
      BY <2>2
    <3>2. v \in Seq(Alphabet) /\ Len(v) = n - p + 1 /\ \A i \in 1..n - p + 1 : v[i] = row[p + i - 1]
      BY <2>5, <3>1, SubSeqProperties
    <3> QED
      BY <3>2
  <2>11. v \in Seq(Texts)
    BY <1>2, <2>10, InSet
  <2>12. v[1] # Space
    BY <1>3, <2>1, <2>3, <2>10
  <2> QED
    BY <1>3, <2>7, <2>9, <2>11, <2>12
<1> QED
  BY <1>4, <1>5

-----------------------------------------------------------------------------
(*                          The lines of a request                          *)

(* The first element of two sequences, the first not empty.                 *)
LEMMA ConcatFirst ==
  ASSUME NEW A, NEW s \in Seq(A), s # <<>>, NEW t \in Seq(A)
  PROVE  (s \o t)[1] = s[1] /\ s \o t # <<>> /\ s \o t \in Seq(A)
<1>1. PICK n \in Nat : n = Len(s) /\ n > 0
  BY LenProperties, EmptySeq
<1>2. PICK k \in Nat : k = Len(t)
  BY LenProperties
<1>3. PICK x : x = s \o t
  OBVIOUS
<1>4. x \in Seq(A) /\ Joins(x, s, t, n, k)
  BY <1>1, <1>2, <1>3, ConcatAt
<1>5. x[1] = s[1] /\ Len(x) > 0
  BY <1>1, <1>4 DEF Joins
<1> QED
  BY <1>3, <1>4, <1>5, EmptySeq

(* The parts of a header line, which is no continuation.                    *)
LEMMA HeaderParts ==
  ASSUME NEW row \in Seq(Alphabet), HeaderLine(row)
  PROVE  /\ Name(row) \in Seq(Tokens) /\ Name(row) # <<>> /\ Content(row) \in Seq(Texts)
         /\ row = Name(row) \o <<":", Space>> \o Content(row)
         /\ ~Continuation(row)
<1>1. PICK a : a = Name(row)
  OBVIOUS
<1>2. PICK v : v = Content(row)
  OBVIOUS
<1>3. row = a \o <<":", Space>> \o v /\ a # <<>> /\ AllIn(a, Tokens) /\ AllIn(v, Texts)
  BY <1>1, <1>2, Zenon DEF HeaderLine
<1>4. a \in Seq(Alphabet) /\ v \in Seq(Alphabet)
  BY <1>1, <1>2, PartTypes
<1>5. a \in Seq(Tokens) /\ v \in Seq(Texts)
  BY <1>3, <1>4, InSet
<1>6. row[1] \in Tokens
  <2>1. ":" \in Alphabet /\ Space \in Alphabet
    BY CharacterSets
  <2>2. PICK s \in Seq(Alphabet) : s = <<":", Space>>
    <3>1. <<":", Space>> \in Seq(Alphabet)
      BY <2>1
    <3> QED
      BY <3>1
  <2>3. PICK t : t = a \o s
    OBVIOUS
  <2>4. t \in Seq(Alphabet) /\ t # <<>> /\ t[1] = a[1]
    BY <1>3, <1>4, <2>3, ConcatFirst
  <2>5. (t \o v)[1] = t[1]
    BY <1>4, <2>4, ConcatFirst
  <2>6. row = t \o v
    BY <1>3, <2>2, <2>3, Zenon
  <2>7. a[1] \in Tokens
    BY <1>3, <1>5, ConsFacts
  <2> QED
    BY <2>4, <2>5, <2>6, <2>7
<1>7. ~Continuation(row)
  BY <1>6, CharacterFacts DEF Continuation
<1> QED
  BY <1>1, <1>2, <1>3, <1>5, <1>7, Zenon

(* A line after the request line is read to its end, and its header is      *)
(* stored.                                                                  *)
LEMMA LineLeads ==
  ASSUME NEW m, NEW u, NEW h \in Seq(Entries), NEW row \in Seq(Alphabet),
         HeaderLine(row) \/ (h # <<>> /\ Continuation(row))
  PROVE  /\ From(Here("header_line_start", m, u, h), row, LineRead(m, u, Extended(h, row)))
         /\ Extended(h, row) \in Seq(Entries) /\ Extended(h, row) # <<>>
<1>1. CASE HeaderLine(row)
  <2>1. PICK a \in Seq(Tokens) : a = Name(row) /\ a # <<>>
    BY <1>1, HeaderParts
  <2>2. PICK v \in Seq(Texts) : v = Content(row)
    BY <1>1, HeaderParts
  <2>3. row = a \o <<":", Space>> \o v
    BY <1>1, <2>1, <2>2, HeaderParts, Zenon
  <2>4. From(Here("header_line_start", m, u, h), row, Here("header_value", m, u, Append(h, Entry(a, v))))
    BY <2>1, <2>3, HeaderRead
  <2>5. Extended(h, row) = Append(h, Entry(a, v))
    BY <1>1, <2>1, <2>2, HeaderParts DEF Extended, Entry
  <2>6. Append(h, Entry(a, v)) \in Seq(Entries) /\ Append(h, Entry(a, v)) # <<>>
    BY EntryAppended
  <2> QED
    BY <2>4, <2>5, <2>6 DEF From, LineRead
<1>2. CASE h # <<>> /\ Continuation(row)
  <2>1. PICK v : v = Unindented(row)
    OBVIOUS
  <2>2. Extended(h, row) = Ended(h, v)
    BY <1>2, <2>1 DEF Extended, Ended
  <2>3. PICK b \in Seq({Space, Tab}) : b # <<>> /\ row = b \o v
    BY <1>2, <2>1, Indentation
  <2>4. v \in Seq(Texts) /\ (v # <<>> => v[1] # Space)
    BY <1>2, <2>1, Indentation
  <2>5. From(Here("header_line_start", m, u, h), b, Here("header_lws", m, u, h))
    BY <1>2, <2>3, BlanksRead
  <2>6. From(Here("header_lws", m, u, h), v, LineRead(m, u, Ended(h, v)))
    BY <1>2, <2>4, ContinuationRead
  <2>7. b \in Seq(Characters) /\ v \in Seq(Characters)
    BY <2>4, CharacterSets
  <2>8. From(Here("header_line_start", m, u, h), b \o v, LineRead(m, u, Ended(h, v)))
    BY <2>5, <2>6, <2>7, Chain
  <2>9. Ended(h, v) \in Seq(Entries) /\ Ended(h, v) # <<>>
    BY <1>2, <2>4, EndedType
  <2> QED
    BY <2>2, <2>3, <2>8, <2>9
<1> QED
  BY <1>1, <1>2

(* What the lines are when one more of them is legal.                       *)
LEMMA LegalAppend ==
  ASSUME NEW lines \in Seq(Seq(Alphabet)), NEW L \in Seq(Alphabet)
  PROVE  Legal(Append(lines, L)) <=>
           \/ lines = <<>> /\ RequestLine(L)
           \/ /\ lines # <<>> /\ Legal(lines)
              /\ HeaderLine(L) \/ (Len(lines) > 1 /\ Continuation(L))
<1>1. PICK n \in Nat : n = Len(lines)
  BY LenProperties
<1>2. PICK t : t = Append(lines, L)
  OBVIOUS
<1>3. Len(t) = n + 1 /\ t # <<>> /\ t[n + 1] = L /\ \A i \in 1..n : t[i] = lines[i]
  BY <1>1, <1>2, AppendProperties
<1>4. CASE lines = <<>>
  <2>1. n = 0 /\ t[1] = L /\ Len(t) = 1 /\ 2..Len(t) = {}
    BY <1>1, <1>3, <1>4
  <2> QED
    BY <1>2, <1>3, <1>4, <2>1 DEF Legal
<1>5. CASE lines # <<>>
  <2>1. n > 0 /\ t[1] = lines[1] /\ n + 1 \in 2..n + 1
    BY <1>1, <1>3, <1>5, EmptySeq
  <2>2. 2..n + 1 = 2..n \cup {n + 1}
    BY <2>1
  <2>3. \A k \in 2..n : t[k] = lines[k]
    BY <1>3
  <2>4. Legal(t) <=> /\ RequestLine(lines[1])
                     /\ \A k \in 2..n + 1 : HeaderLine(t[k]) \/ (k > 2 /\ Continuation(t[k]))
    BY <1>3, <2>1 DEF Legal
  <2>5. Legal(lines) <=> /\ RequestLine(lines[1])
                         /\ \A k \in 2..n : HeaderLine(lines[k]) \/ (k > 2 /\ Continuation(lines[k]))
    BY <1>1, <1>5 DEF Legal
  <2>6. (\A k \in 2..n + 1 : HeaderLine(t[k]) \/ (k > 2 /\ Continuation(t[k])))
          <=> /\ \A k \in 2..n : HeaderLine(lines[k]) \/ (k > 2 /\ Continuation(lines[k]))
              /\ HeaderLine(L) \/ (n + 1 > 2 /\ Continuation(L))
    BY <1>3, <2>2, <2>3
  <2>7. n + 1 > 2 <=> n > 1
    OBVIOUS
  <2> QED
    BY <1>1, <1>2, <1>5, <2>4, <2>5, <2>6, <2>7
<1> QED
  BY <1>4, <1>5

Lines == Seq(Seq(Alphabet))

(* The first element, and those that follow it, with one more appended.     *)
LEMMA TailAppend ==
  ASSUME NEW A, NEW s \in Seq(A), NEW c \in A
  PROVE  /\ s = <<>> => Append(s, c)[1] = c /\ Tail(Append(s, c)) = <<>>
         /\ s # <<>> => /\ Append(s, c)[1] = s[1] /\ Tail(Append(s, c)) = Append(Tail(s), c)
                        /\ Tail(s) \in Seq(A)
<1>1. PICK n \in Nat : n = Len(s)
  BY LenProperties
<1>2. Append(s, c)[n + 1] = c /\ \A i \in 1..n : Append(s, c)[i] = s[i]
  BY <1>1, AppendProperties
<1>3. Tail(Append(s, c)) = IF s = <<>> THEN <<>> ELSE Append(Tail(s), c)
  BY HeadTailAppend
<1>4. CASE s = <<>>
  <2>1. n = 0
    BY <1>1, <1>4
  <2> QED
    BY <1>2, <1>3, <1>4, <2>1
<1>5. CASE s # <<>>
  <2>1. 1 \in 1..n
    BY <1>1, <1>5, EmptySeq
  <2>2. Tail(s) \in Seq(A)
    BY <1>5, HeadTailProperties
  <2> QED
    BY <1>2, <1>3, <1>5, <2>1, <2>2
<1> QED
  BY <1>4, <1>5

(* The headers that legal lines make. *)
HasHeaders(lines) ==
  Headers(Tail(lines)) \in Seq(Entries) /\ (Len(lines) > 1 => Headers(Tail(lines)) # <<>>)

(* The headers of legal lines are headers, and with a header line there is  *)
(* one.                                                                     *)
LEMMA LegalHeaders ==
  ASSUME NEW lines \in Lines, Legal(lines)
  PROVE  HasHeaders(lines)
<1> DEFINE S == {t \in Lines : Legal(t) => HasHeaders(t)}
<1>1. <<>> \in S
  BY EmptySeq DEF Legal, Lines
<1>2. ASSUME NEW t \in Lines, NEW L \in Seq(Alphabet), t \in S PROVE Append(t, L) \in S
  <2>1. PICK k \in Lines : k = Append(t, L)
    BY AppendProperties DEF Lines
  <2>2. CASE t = <<>>
    <3>1. Tail(k) = <<>>
      BY <2>1, <2>2, TailAppend DEF Lines
    <3>2. Headers(Tail(k)) = <<>>
      BY <3>1, HeadersEmpty
    <3>3. Len(k) = 1
      BY <2>1, <2>2, AppendProperties, EmptySeq DEF Lines
    <3>4. HasHeaders(k)
      <4>1. <<>> \in Seq(Entries)
        BY EmptySeq
      <4>2. ~(Len(k) > 1)
        BY <3>3
      <4> QED
        BY <3>2, <4>1, <4>2, Zenon DEF HasHeaders
    <3> QED
      BY <2>1, <3>4
  <2>3. CASE t # <<>>
    <3> SUFFICES ASSUME Legal(k) PROVE HasHeaders(k)
      BY <2>1
    <3>1. Legal(t) /\ (HeaderLine(L) \/ (Len(t) > 1 /\ Continuation(L)))
      BY <2>1, <2>3, LegalAppend DEF Lines
    <3>2. PICK h \in Seq(Entries) : h = Headers(Tail(t)) /\ (Len(t) > 1 => h # <<>>)
      BY <1>2, <3>1 DEF HasHeaders
    <3>3. Tail(k) = Append(Tail(t), L) /\ Tail(t) \in Lines
      BY <2>1, <2>3, TailAppend DEF Lines
    <3>4. Headers(Tail(k)) = Extended(h, L)
      BY <3>2, <3>3, HeadersFacts DEF Lines
    <3>5. HeaderLine(L) \/ (h # <<>> /\ Continuation(L))
      BY <3>1, <3>2
    <3>6. Extended(h, L) \in Seq(Entries) /\ Extended(h, L) # <<>>
      BY <3>5, LineLeads
    <3> QED
      BY <3>4, <3>6 DEF HasHeaders
  <2> QED
    BY <2>2, <2>3
<1>3. Lines \subseteq S
  <2> HIDE DEF S
  <2> QED
    BY <1>1, <1>2, Growing DEF Lines
<1> QED
  BY <1>3

(* c ends the line L, or does not end the line.                             *)
Completes(lines, rest, c, L) ==
  /\ c = LF /\ rest = Append(L, CR)
  /\ Longer([lines |-> lines, rest |-> rest], c) = [lines |-> Append(lines, L), rest |-> <<>>]

Continues(lines, rest, c) ==
  /\ ~(c = LF /\ \E L \in Seq(Alphabet) : rest = Append(L, CR))
  /\ Longer([lines |-> lines, rest |-> rest], c) = [lines |-> lines, rest |-> Append(rest, c)]

(* A character does one of the two.                                         *)
LEMMA LongerFacts ==
  ASSUME NEW lines \in Lines, NEW rest \in Seq(Alphabet), NEW c \in Alphabet
  PROVE  (\E L \in Seq(Alphabet) : Completes(lines, rest, c, L)) \/ Continues(lines, rest, c)
<1> DEFINE cut == [lines |-> lines, rest |-> rest]
<1>1. PICK n \in Nat : n = Len(rest)
  BY LenProperties
<1>2. \A L \in Seq(Alphabet) : rest = Append(L, CR) => rest # <<>> /\ rest[n] = CR
  <2> SUFFICES ASSUME NEW L \in Seq(Alphabet), rest = Append(L, CR) PROVE rest # <<>> /\ rest[n] = CR
    OBVIOUS
  <2>1. CR \in Alphabet
    BY CharacterSets
  <2>2. rest # <<>> /\ Len(rest) = Len(L) + 1 /\ rest[Len(L) + 1] = CR
    BY <2>1, AppendProperties
  <2> QED
    BY <1>1, <2>2
<1>3. CASE c = LF /\ rest # <<>> /\ rest[n] = CR
  <2>1. n > 0
    BY <1>1, <1>3, EmptySeq
  <2>2. PICK L : L = SubSeq(rest, 1, n - 1)
    OBVIOUS
  <2>3. \A i \in 1..n : rest[i] \in Alphabet
    BY <1>1, ElementOfSeq
  <2>4. L \in Seq(Alphabet) /\ Len(L) = n - 1 /\ \A i \in 1..n - 1 : L[i] = rest[i]
    BY <2>1, <2>2, <2>3, SubSeqProperties
  <2>5. PICK k \in Nat : k = n - 1
    BY <2>1
  <2>6. Len(L) = k /\ Len(rest) = k + 1 /\ rest[k + 1] = CR /\ \A i \in 1..k : rest[i] = L[i]
    BY <1>1, <1>3, <2>4, <2>5
  <2>7. Append(L, CR) = rest
    BY <2>4, <2>6, CharacterSets, Built
  <2>8. Longer(cut, c) = [lines |-> Append(lines, L), rest |-> <<>>]
    BY <1>1, <1>3, <2>2 DEF Longer
  <2> QED
    BY <1>3, <2>4, <2>7, <2>8 DEF Completes
<1>4. CASE ~(c = LF /\ rest # <<>> /\ rest[n] = CR)
  BY <1>1, <1>2, <1>4 DEF Longer, Continues
<1> QED
  BY <1>3, <1>4

(* Lines are texts, and so is what follows them.                            *)
LEMMA CutTypes ==
  ASSUME NEW seq \in Seq(Alphabet)
  PROVE  \E lines \in Lines, rest \in Seq(Alphabet) : Cut(seq) = [lines |-> lines, rest |-> rest]
<1> DEFINE S == {t \in Seq(Alphabet) : \E lines \in Lines, rest \in Seq(Alphabet) :
                                          Cut(t) = [lines |-> lines, rest |-> rest]}
<1>1. <<>> \in S
  BY CutEmpty, EmptySeq DEF Lines
<1>2. ASSUME NEW t \in Seq(Alphabet), NEW c \in Alphabet, t \in S PROVE Append(t, c) \in S
  <2>1. PICK lines \in Lines, rest \in Seq(Alphabet) : Cut(t) = [lines |-> lines, rest |-> rest]
    BY <1>2
  <2>2. Cut(Append(t, c)) = Longer(Cut(t), c)
    BY CutFacts
  <2>3. Append(t, c) \in Seq(Alphabet) /\ Append(rest, c) \in Seq(Alphabet)
        /\ \A L \in Seq(Alphabet) : Append(lines, L) \in Lines
    BY AppendProperties DEF Lines
  <2>4. PICK cut : cut = [lines |-> lines, rest |-> rest]
    OBVIOUS
  <2>5. \/ \E L \in Seq(Alphabet) : Longer(cut, c) = [lines |-> Append(lines, L), rest |-> <<>>]
        \/ Longer(cut, c) = [lines |-> lines, rest |-> Append(rest, c)]
    <3>1. (\E L \in Seq(Alphabet) : Completes(lines, rest, c, L)) \/ Continues(lines, rest, c)
      BY LongerFacts
    <3> QED
      BY <2>4, <3>1 DEF Completes, Continues
  <2>6. \E k \in Lines, r \in Seq(Alphabet) : Longer(cut, c) = [lines |-> k, rest |-> r]
    BY <2>3, <2>5, EmptySeq
  <2> QED
    BY <2>1, <2>2, <2>3, <2>4, <2>6
<1>3. Seq(Alphabet) \subseteq S
  <2> HIDE DEF S
  <2> QED
    BY <1>1, <1>2, Growing
<1> QED
  BY <1>3

(* Where the parser is after the first lines of a request.                  *)
Start(lines) ==
  IF lines = <<>> THEN {Parser}
  ELSE Here("header_line_start", Method(lines[1]), Uri(lines[1]), Headers(Tail(lines)))

SoFar(lines) == lines = <<>> \/ Legal(lines)

(* With a line more, those before it were legal.                            *)
LEMMA SoFarAppend ==
  ASSUME NEW lines \in Lines, NEW L \in Seq(Alphabet), SoFar(Append(lines, L))
  PROVE  /\ SoFar(lines)
         /\ \/ lines = <<>> /\ RequestLine(L)
            \/ /\ lines # <<>> /\ Legal(lines)
               /\ HeaderLine(L) \/ (Len(lines) > 1 /\ Continuation(L))
<1>1. Append(lines, L) # <<>>
  BY AppendProperties DEF Lines
<1>2. Legal(Append(lines, L))
  BY <1>1 DEF SoFar
<1> QED
  BY <1>2, LegalAppend DEF SoFar, Lines

(* Two characters more.                                                     *)
LEMMA ByTwo ==
  ASSUME NEW p, NEW c \in Alphabet, NEW d \in Alphabet, NEW s \in Seq(Alphabet)
  PROVE  parse(p, Append(Append(s, c), d)) = consume(consume(parse(p, s), c), d)
<1>1. PICK t \in Seq(Alphabet) : t = Append(s, c)
  BY AppendProperties
<1>2. parse(p, Append(t, d)) = consume(parse(p, t), d)
  BY ParseFacts
<1>3. parse(p, t) = consume(parse(p, s), c)
  BY <1>1, ParseFacts
<1> QED
  BY <1>1, <1>2, <1>3

(* The end of a legal line leads to the start of the next.                  *)
LEMMA LineTaken ==
  ASSUME NEW lines \in Lines, NEW L \in Seq(Alphabet), SoFar(Append(lines, L)), NEW p \in Start(lines)
  PROVE  consume(consume(parse(p, L), CR), LF) \in Start(Append(lines, L))
<1>1. PICK k : k = Append(lines, L)
  OBVIOUS
<1>2. k # <<>>
  BY <1>1, AppendProperties DEF Lines
<1>3. CASE lines = <<>>
  <2>1. RequestLine(L)
    BY <1>3, SoFarAppend
  <2>2. PICK m : m = Method(L)
    OBVIOUS
  <2>3. PICK u : u = Uri(L)
    OBVIOUS
  <2>4. parse(p, L) \in Here("http_version_minor", m, u, <<>>)
    BY <1>3, <2>1, <2>2, <2>3, RequestLineLeads DEF Start, From
  <2>5. consume(parse(p, L), CR) \in Here("expecting_newline_1", m, u, <<>>)
    BY <2>4, RequestSteps
  <2>6. consume(consume(parse(p, L), CR), LF) \in Here("header_line_start", m, u, <<>>)
    BY <2>5, RequestSteps
  <2>7. k[1] = L /\ Tail(k) = <<>>
    BY <1>1, <1>3, TailAppend DEF Lines
  <2>8. Headers(Tail(k)) = <<>>
    BY <2>7, HeadersEmpty
  <2> QED
    BY <1>1, <1>2, <2>2, <2>3, <2>6, <2>7, <2>8 DEF Start
<1>4. CASE lines # <<>>
  <2>1. Legal(lines) /\ (HeaderLine(L) \/ (Len(lines) > 1 /\ Continuation(L)))
    BY <1>4, SoFarAppend
  <2>2. PICK m : m = Method(lines[1])
    OBVIOUS
  <2>3. PICK u : u = Uri(lines[1])
    OBVIOUS
  <2>4. PICK h \in Seq(Entries) : h = Headers(Tail(lines)) /\ (Len(lines) > 1 => h # <<>>)
    BY <2>1, LegalHeaders DEF HasHeaders
  <2>5. p \in Here("header_line_start", m, u, h)
    BY <1>4, <2>2, <2>3, <2>4 DEF Start
  <2>6. PICK e : e = Extended(h, L)
    OBVIOUS
  <2>7. From(Here("header_line_start", m, u, h), L, LineRead(m, u, e))
    BY <2>1, <2>4, <2>6, LineLeads
  <2>8. parse(p, L) \in Here("header_lws", m, u, e) \cup Here("header_value", m, u, e)
    BY <2>5, <2>7 DEF From, LineRead
  <2>9. consume(parse(p, L), CR) \in Here("expecting_newline_2", m, u, e)
    BY <2>8, HeaderSteps
  <2>10. consume(consume(parse(p, L), CR), LF) \in Here("header_line_start", m, u, e)
    BY <2>9, HeaderSteps
  <2>11. k[1] = lines[1] /\ Tail(k) = Append(Tail(lines), L) /\ Tail(lines) \in Lines
    BY <1>1, <1>4, TailAppend DEF Lines
  <2>12. Headers(Tail(k)) = e
    BY <2>4, <2>6, <2>11, HeadersFacts DEF Lines
  <2> QED
    BY <1>1, <1>2, <2>2, <2>3, <2>10, <2>11, <2>12 DEF Start
<1> QED
  BY <1>3, <1>4

(* Legal lines are read as such, and then what comes after them.            *)
ReadUpTo(seq, cut) ==
  SoFar(cut.lines) => \E p \in Start(cut.lines) : parse(Parser, seq) = parse(p, cut.rest)

(* So it is for every text, by induction over its characters.               *)
LEMMA LegalRead ==
  ASSUME NEW seq \in Seq(Alphabet)
  PROVE  ReadUpTo(seq, Cut(seq))
<1> DEFINE S == {t \in Seq(Alphabet) : ReadUpTo(t, Cut(t))}
<1>1. <<>> \in S
  <2>1. Cut(<<>>).lines = <<>> /\ Cut(<<>>).rest = <<>>
    BY CutEmpty
  <2>2. Parser \in Start(<<>>)
    BY DEF Start
  <2> QED
    BY <2>1, <2>2, EmptySeq DEF ReadUpTo
<1>2. ASSUME NEW t \in Seq(Alphabet), NEW c \in Alphabet, t \in S PROVE Append(t, c) \in S
  <2>1. PICK lines \in Lines, rest \in Seq(Alphabet) : Cut(t) = [lines |-> lines, rest |-> rest]
    BY CutTypes
  <2>2. PICK x \in Seq(Alphabet) : x = Append(t, c)
    BY AppendProperties
  <2>3. Cut(x) = Longer([lines |-> lines, rest |-> rest], c)
    BY <2>1, <2>2, CutFacts
  <2>4. parse(Parser, x) = consume(parse(Parser, t), c)
    BY <2>2, ParseFacts
  <2>5. SoFar(lines) => \E p \in Start(lines) : parse(Parser, t) = parse(p, rest)
    BY <1>2, <2>1 DEF ReadUpTo
  <2>6. CASE \E L \in Seq(Alphabet) : Completes(lines, rest, c, L)
    <3>1. PICK L \in Seq(Alphabet) : Completes(lines, rest, c, L)
      BY <2>6
    <3>2. PICK k : k = Append(lines, L)
      OBVIOUS
    <3>3. Cut(x) = [lines |-> k, rest |-> <<>>] /\ c = LF /\ rest = Append(L, CR)
      BY <2>3, <3>1, <3>2 DEF Completes
    <3>4. ASSUME SoFar(k) PROVE \E q \in Start(k) : parse(Parser, x) = parse(q, <<>>)
      <4>1. SoFar(lines)
        BY <3>2, <3>4, SoFarAppend
      <4>2. PICK p \in Start(lines) : parse(Parser, t) = parse(p, rest)
        BY <2>5, <4>1
      <4>3. parse(p, rest) = consume(parse(p, L), CR)
        BY <3>3, CharacterSets, ParseFacts
      <4>4. PICK q : q = consume(consume(parse(p, L), CR), LF)
        OBVIOUS
      <4>5. parse(Parser, x) = q
        BY <2>4, <3>3, <4>2, <4>3, <4>4
      <4>6. q \in Start(k)
        BY <3>2, <3>4, <4>4, LineTaken
      <4> QED
        BY <4>5, <4>6, ParseEmpty
    <3> QED
      BY <2>2, <3>3, <3>4 DEF ReadUpTo
  <2>7. CASE Continues(lines, rest, c)
    <3>1. PICK r : r = Append(rest, c)
      OBVIOUS
    <3>2. Cut(x) = [lines |-> lines, rest |-> r]
      BY <2>3, <2>7, <3>1 DEF Continues
    <3>3. ASSUME SoFar(lines) PROVE \E p \in Start(lines) : parse(Parser, x) = parse(p, r)
      <4>1. PICK p \in Start(lines) : parse(Parser, t) = parse(p, rest)
        BY <2>5, <3>3
      <4>2. parse(p, r) = consume(parse(p, rest), c)
        BY <3>1, ParseFacts
      <4> QED
        BY <2>4, <4>1, <4>2
    <3> QED
      BY <2>2, <3>2, <3>3 DEF ReadUpTo
  <2> QED
    BY <2>6, <2>7, LongerFacts
<1>3. Seq(Alphabet) \subseteq S
  <2> HIDE DEF S
  <2> QED
    BY <1>1, <1>2, Growing
<1> QED
  BY <1>3

-----------------------------------------------------------------------------
(*                         A request is read as one                         *)

(* A verdict is final. *)
LEMMA Absorbed ==
  ASSUME NEW p, p.state \in Verdicts, NEW A, NEW seq \in Seq(A)
  PROVE  parse(p, seq) = p
<1> DEFINE S == {t \in Seq(A) : parse(p, t) = p}
<1>1. <<>> \in S
  BY ParseEmpty, EmptySeq
<1>2. ASSUME NEW t \in Seq(A), NEW c \in A, t \in S PROVE Append(t, c) \in S
  <2>1. parse(p, Append(t, c)) = consume(p, c)
    BY <1>2, ParseFacts
  <2>2. consume(p, c) = p
    BY DEF consume
  <2> QED
    BY <2>1, <2>2, AppendProperties
<1>3. Seq(A) \subseteq S
  <2> HIDE DEF S
  <2> QED
    BY <1>1, <1>2, Growing
<1> QED
  BY <1>3

(* A sequence without the element that was appended.                        *)
LEMMA AllButLast ==
  ASSUME NEW A, NEW s \in Seq(A), NEW c \in A, NEW t, t = Append(s, c)
  PROVE  SubSeq(t, 1, Len(t) - 1) = s /\ t[Len(t)] = c /\ Len(t) = Len(s) + 1 /\ Len(s) \in Nat
<1>1. PICK n \in Nat : n = Len(s)
  BY LenProperties
<1>2. t \in Seq(A) /\ Len(t) = n + 1 /\ t[n + 1] = c /\ \A i \in 1..n : t[i] = s[i]
  BY <1>1, AppendProperties
<1>3. PICK u : u = SubSeq(t, 1, n)
  OBVIOUS
<1>4. \A i \in 1..n : t[i] \in A
  BY <1>1, <1>2, ElementOfSeq
<1>5. u \in Seq(A) /\ Len(u) = n /\ \A i \in 1..n : u[i] = t[i]
  <2>1. PICK w \in Seq(A) : w = t
    BY <1>2
  <2>2. \A i \in 1..n : w[i] \in A
    BY <1>4, <2>1
  <2>3. u = SubSeq(w, 1, n)
    BY <1>3, <2>1
  <2>4. u \in Seq(A) /\ Len(u) = n /\ \A i \in 1..n : u[i] = w[i]
    BY ONLY <2>2, <2>3, SubSeqProperties, n \in Nat, w \in Seq(A)
  <2> QED
    BY <2>1, <2>4
<1>6. u = s
  BY <1>1, <1>2, <1>5, SeqEqual
<1>7. Len(t) - 1 = n
  BY <1>2
<1> QED
  BY <1>1, <1>2, <1>3, <1>6, <1>7

(* When a text has become a request.                                        *)
LEMMA WellFormedAppend ==
  ASSUME NEW t \in Seq(Alphabet), NEW c \in Alphabet,
         NEW lines \in Lines, NEW rest \in Seq(Alphabet), Cut(t) = [lines |-> lines, rest |-> rest]
  PROVE  WellFormed(Append(t, c)) <=> lines # <<>> /\ Legal(lines) /\ rest = <<CR>> /\ c = LF
<1>1. PICK x : x = Append(t, c)
  OBVIOUS
<1>2. Cut(x) = Longer([lines |-> lines, rest |-> rest], c)
  BY <1>1, CutFacts
<1>3. <<CR>> = Append(<<>>, CR) /\ <<>> \in Seq(Alphabet) /\ CR \in Alphabet
  BY CharacterSets
<1>4. CASE \E L \in Seq(Alphabet) : Completes(lines, rest, c, L)
  <2>1. PICK L \in Seq(Alphabet) : Completes(lines, rest, c, L)
    BY <1>4
  <2>2. PICK k \in Lines : k = Append(lines, L)
    BY AppendProperties DEF Lines
  <2>3. Cut(x).lines = k /\ Cut(x).rest = <<>> /\ c = LF /\ rest = Append(L, CR)
    <3>1. Cut(x) = [lines |-> k, rest |-> <<>>] /\ c = LF /\ rest = Append(L, CR)
      BY <1>2, <2>1, <2>2 DEF Completes
    <3> QED
      BY <3>1
  <2>4. SubSeq(k, 1, Len(k) - 1) = lines /\ k[Len(k)] = L /\ Len(k) = Len(lines) + 1
        /\ Len(lines) \in Nat
    BY <2>2, AllButLast DEF Lines
  <2>5. WellFormed(x) <=> Len(k) > 1 /\ L = <<>> /\ Legal(lines)
    BY <2>3, <2>4, Zenon DEF WellFormed
  <2>6. Len(k) > 1 <=> lines # <<>>
    BY <2>4, EmptySeq DEF Lines
  <2>7. L = <<>> <=> rest = <<CR>>
    <3>1. PICK e \in Seq(Alphabet) : e = <<>>
      BY <1>3
    <3>2. Append(L, CR) = Append(e, CR) <=> L = e /\ CR = CR
      BY <1>3, AppendInjective
    <3> QED
      BY <1>3, <2>3, <3>1, <3>2
  <2> QED
    BY <1>1, <2>3, <2>5, <2>6, <2>7, Zenon
<1>5. CASE Continues(lines, rest, c)
  <2>1. Cut(x).rest = Append(rest, c)
    BY <1>2, <1>5 DEF Continues
  <2>2. Append(rest, c) # <<>>
    BY AppendProperties
  <2>3. ~WellFormed(x)
    BY <2>1, <2>2 DEF WellFormed
  <2>4. ~(rest = <<CR>> /\ c = LF)
    BY <1>3, <1>5 DEF Continues
  <2> QED
    BY <1>1, <2>3, <2>4
<1> QED
  BY <1>4, <1>5, LongerFacts

(* A request is read to the verdict "good", with its meaning.               *)
LEMMA WellFormedRead ==
  ASSUME NEW seq \in Seq(Alphabet), WellFormed(seq)
  PROVE  LET p == parse(Parser, seq)
         IN  /\ p.state = "good"
             /\ Meaning(seq) = [method |-> p.request.method, uri |-> p.request.uri,
                                headers |-> p.request.headers]
<1>1. seq # <<>>
  <2>1. ASSUME seq = <<>> PROVE FALSE
    <3>1. Cut(seq).lines = <<>>
      BY <2>1, CutEmpty
    <3>2. Len(Cut(seq).lines) = 0
      BY <3>1, EmptySeq
    <3>3. Len(Cut(seq).lines) > 1
      BY DEF WellFormed
    <3> QED
      BY <3>2, <3>3
  <2> QED
    BY <2>1
<1>2. PICK t \in Seq(Alphabet), c \in Alphabet : seq = Append(t, c)
  BY <1>1, Appended
<1>3. PICK lines \in Lines, rest \in Seq(Alphabet) : Cut(t) = [lines |-> lines, rest |-> rest]
  BY CutTypes
<1>4. lines # <<>> /\ Legal(lines) /\ rest = <<CR>> /\ c = LF
  BY <1>2, <1>3, WellFormedAppend
<1>5. <<CR>> = Append(<<>>, CR) /\ <<>> \in Seq(Alphabet) /\ CR \in Alphabet /\ LF \in Alphabet
  BY CharacterSets
<1>6. PICK p \in Start(lines) : parse(Parser, t) = parse(p, rest)
  BY <1>3, <1>4, LegalRead DEF ReadUpTo, SoFar
<1>7. parse(p, rest) = consume(p, CR)
  <2>1. PICK e \in Seq(Alphabet) : e = <<>>
    BY <1>5
  <2>2. parse(p, Append(e, CR)) = consume(parse(p, e), CR)
    BY <1>5, ParseFacts
  <2>3. parse(p, e) = p
    BY <2>1, ParseEmpty
  <2> QED
    BY <1>4, <1>5, <2>1, <2>2, <2>3
<1>8. parse(Parser, seq) = consume(consume(p, CR), LF)
  BY <1>2, <1>4, <1>6, <1>7, ParseFacts
<1>9. PICK m : m = Method(lines[1])
  OBVIOUS
<1>10. PICK u : u = Uri(lines[1])
  OBVIOUS
<1>11. PICK h : h = Headers(Tail(lines))
  OBVIOUS
<1>12. p \in Here("header_line_start", m, u, h)
  BY <1>4, <1>9, <1>10, <1>11 DEF Start
<1>13. consume(p, CR) \in Here("expecting_newline_3", m, u, h)
  BY <1>12, HeaderSteps
<1>14. consume(consume(p, CR), LF) \in Here("good", m, u, h)
  BY <1>13, HeaderSteps
<1>15. PICK q : q = parse(Parser, seq)
  OBVIOUS
<1>16. q.state = "good" /\ q.request.method = m /\ q.request.uri = u /\ q.request.headers = h
  BY <1>8, <1>14, <1>15 DEF Here, Fields
<1>17. Meaning(seq) = [method |-> m, uri |-> u, headers |-> h]
  <2>1. PICK L \in Seq(Alphabet) : Completes(lines, rest, c, L)
    <3>1. ~Continues(lines, rest, c)
      BY <1>4, <1>5 DEF Continues
    <3> QED
      BY <3>1, LongerFacts
  <2>2. PICK k : k = Append(lines, L)
    OBVIOUS
  <2>3. Cut(seq).lines = k
    <3>1. Cut(seq) = Longer([lines |-> lines, rest |-> rest], c)
      BY <1>2, <1>3, CutFacts
    <3>2. Cut(seq) = [lines |-> k, rest |-> <<>>]
      BY <2>1, <2>2, <3>1 DEF Completes
    <3> QED
      BY <3>2
  <2>4. SubSeq(k, 1, Len(k) - 1) = lines
    BY <2>2, AllButLast DEF Lines
  <2> QED
    BY <1>9, <1>10, <1>11, <2>3, <2>4, Zenon DEF Meaning
<1> QED
  BY <1>15, <1>16, <1>17

-----------------------------------------------------------------------------
(*                      Only a request is read as one                       *)

(* What has been read of a request line when the parser is in a state.      *)
Labels == Seq(Tokens) \ {<<>>}
Numbers == Seq(Digits) \ {<<>>}
Http == <<"H", "T", "T", "P", "/">>

VersionAt(state, v) ==
  \/ state = "http_version_h" /\ v = <<>>
  \/ state = "http_version_t_1" /\ v = <<"H">>
  \/ state = "http_version_t_2" /\ v = Append(<<"H">>, "T")
  \/ state = "http_version_p" /\ v = Append(Append(<<"H">>, "T"), "T")
  \/ state = "http_version_slash" /\ v = Append(Append(Append(<<"H">>, "T"), "T"), "P")
  \/ state = "http_version_major_start" /\ v = Http
  \/ state = "http_version_major" /\ \E j \in Numbers : v = Http \o j
  \/ state = "http_version_minor_start" /\ \E j \in Numbers : v = Http \o j \o <<".">>
  \/ state = "http_version_minor" /\ \E j \in Numbers, n \in Numbers : v = Http \o j \o <<".">> \o n

IsAppend(s, c, t) == Append(s, c) = t

(* To append is to put a sequence of one element after.                     *)
LEMMA AppendOne ==
  ASSUME NEW A, NEW s \in Seq(A), NEW c \in A
  PROVE  IsAppend(s, c, s \o <<c>>)
<1>1. PICK e \in Seq(A) : e = <<>>
  BY EmptySeq
<1>2. s \o Append(e, c) = Append(s \o e, c)
  BY AppendSeq
<1>3. s \o e = s
  BY <1>1, ConcatEmptySeq
<1>4. Append(e, c) = <<c>>
  BY <1>1
<1> QED
  BY <1>2, <1>3, <1>4 DEF IsAppend

Associates(x, y, z) == x \o y \o z = x \o (y \o z)

(* Three sequences, whichever way they are put together.                    *)
LEMMA Association ==
  ASSUME NEW A, NEW a \in Seq(A), NEW b \in Seq(A), NEW s \in Seq(A)
  PROVE  Associates(a, b, s)
<1>1. a \o b \o s = a \o (b \o s)
  BY ConcatAssociative
<1> QED
  BY <1>1 DEF Associates

Glued(t, a, c, b) == t = a \o <<c>> \o b
Divided(t, a, c, b) == Before(t, c) = a /\ After(t, c) = b
Lacks(a, c) == \A i \in 1..Len(a) : a[i] # c

(* Sequences with an element between them.                                  *)
LEMMA Joined ==
  ASSUME NEW A, NEW a \in Seq(A), NEW c \in A
  PROVE  /\ <<c>> \in Seq(A) /\ a \o <<c>> \in Seq(A)
         /\ \A b \in Seq(A) : a \o <<c>> \o b \in Seq(A)
<1>1. <<c>> \in Seq(A)
  OBVIOUS
<1>2. PICK s \in Seq(A) : s = <<c>>
  BY <1>1
<1>3. PICK t \in Seq(A) : t = a \o s
  BY ConcatProperties
<1>4. \A b \in Seq(A) : t \o b \in Seq(A)
  BY ConcatProperties
<1> QED
  BY <1>2, <1>3, <1>4

(* The same, after a third sequence.                                        *)
LEMMA Regrouped ==
  ASSUME NEW A, NEW a \in Seq(A), NEW b \in Seq(A), NEW c \in A, NEW w \in Seq(A),
         NEW x, Glued(x, b, c, w), NEW y, Glued(y, a \o b, c, w)
  PROVE  y = a \o x
<1>1. <<c>> \in Seq(A)
  OBVIOUS
<1>2. PICK s \in Seq(A) : s = <<c>>
  BY <1>1
<1>3. PICK k \in Seq(A) : k = b \o s
  BY ConcatProperties
<1>4. Associates(a, b, s) /\ Associates(a, k, w)
  BY Association
<1> QED
  BY <1>2, <1>3, <1>4 DEF Glued, Associates

(* The parts that a separator divides, the first of which lacks it.         *)
LEMMA Apart ==
  ASSUME NEW A, NEW a \in Seq(A), NEW b \in Seq(A), NEW c \in A, Lacks(a, c), NEW t, Glued(t, a, c, b)
  PROVE  Divided(t, a, c, b)
  BY Separated DEF Lacks, Glued, Divided

(* The name of the protocol is made of characters.                          *)
LEMMA HttpType == Http \in Seq(Characters)
  BY DEF Http, Characters, Alphabet, Specials

(* A digit more makes a number of a number.                                 *)
LEMMA NumberGrows ==
  ASSUME NEW c \in Digits
  PROVE  <<c>> \in Numbers /\ \A j \in Numbers : Append(j, c) \in Numbers
<1>1. <<c>> \in Seq(Digits) /\ <<c>> # <<>>
  OBVIOUS
<1>2. \A j \in Seq(Digits) : Append(j, c) \in Seq(Digits) /\ Append(j, c) # <<>>
  BY AppendProperties
<1> QED
  BY <1>1, <1>2 DEF Numbers

(* A character that leads on in the protocol and its version.               *)
LEMMA VersionStep ==
  ASSUME NEW h, NEW edge \in Edges(h), NEW c \in Characters, c \in edge[2],
         NEW v \in Seq(Characters), VersionAt(edge[1], v)
  PROVE  VersionAt(edge[3], Append(v, c)) \/ (edge[1] = "http_version_minor" /\ edge[3] = "expecting_newline_1" /\ c = CR)
<1> DEFINE w == Append(v, c)
<1>1. CASE edge[1] = "http_version_h" /\ v = <<>>
  <2>1. edge[3] = "http_version_t_1" /\ c = "H"
    BY <1>1, RequestEdges
  <2>2. w = <<"H">>
    BY <1>1, <2>1
  <2> QED
    BY <2>1, <2>2 DEF VersionAt
<1>2. CASE edge[1] = "http_version_t_1" /\ v = <<"H">>
  <2>1. edge[3] = "http_version_t_2" /\ c = "T"
    BY <1>2, RequestEdges
  <2> QED
    BY <1>2, <2>1 DEF VersionAt
<1>3. CASE edge[1] = "http_version_t_2" /\ v = Append(<<"H">>, "T")
  <2>1. edge[3] = "http_version_p" /\ c = "T"
    BY <1>3, RequestEdges
  <2> QED
    BY <1>3, <2>1 DEF VersionAt
<1>4. CASE edge[1] = "http_version_p" /\ v = Append(Append(<<"H">>, "T"), "T")
  <2>1. edge[3] = "http_version_slash" /\ c = "P"
    BY <1>4, RequestEdges
  <2> QED
    BY <1>4, <2>1 DEF VersionAt
<1>5. CASE edge[1] = "http_version_slash" /\ v = Append(Append(Append(<<"H">>, "T"), "T"), "P")
  <2>1. edge[3] = "http_version_major_start" /\ c = "/"
    BY <1>5, RequestEdges
  <2>2. w = Http
    BY <1>5, <2>1, Protocol DEF Http
  <2> QED
    BY <2>1, <2>2 DEF VersionAt
<1>6. CASE edge[1] = "http_version_major_start" /\ v = Http
  <2>1. edge[3] = "http_version_major" /\ c \in Digits
    BY <1>6, RequestEdges
  <2>2. w = Http \o <<c>>
    BY <1>6, HttpType, AppendOne DEF IsAppend
  <2> QED
    BY <2>1, <2>2, NumberGrows DEF VersionAt
<1>7. CASE edge[1] = "http_version_major" /\ \E j \in Numbers : v = Http \o j
  <2>1. PICK j \in Numbers : v = Http \o j
    BY <1>7
  <2>2. CASE edge[3] = "http_version_major" /\ c \in Digits
    <3>1. Http \o Append(j, c) = w
      BY <2>1, AppendSeq, HttpType, CharacterSets DEF Numbers
    <3> QED
      BY <2>2, <3>1, NumberGrows DEF VersionAt
  <2>3. CASE edge[3] = "http_version_minor_start" /\ c = "."
    <3>1. w = v \o <<c>>
      BY AppendOne DEF IsAppend
    <3> QED
      BY <2>1, <2>3, <3>1 DEF VersionAt
  <2> QED
    BY <1>7, <2>2, <2>3, RequestEdges
<1>8. CASE edge[1] = "http_version_minor_start" /\ \E j \in Numbers : v = Http \o j \o <<".">>
  <2>1. edge[3] = "http_version_minor" /\ c \in Digits
    BY <1>8, RequestEdges
  <2>2. w = v \o <<c>>
    BY AppendOne DEF IsAppend
  <2> QED
    BY <1>8, <2>1, <2>2, NumberGrows DEF VersionAt
<1>9. CASE edge[1] = "http_version_minor" /\ \E j \in Numbers, n \in Numbers : v = Http \o j \o <<".">> \o n
  <2>1. PICK j \in Numbers, n \in Numbers : v = Http \o j \o <<".">> \o n
    BY <1>9
  <2>2. CASE edge[3] = "http_version_minor" /\ c \in Digits
    <3>1. PICK s \in Seq(Characters) : s = Http \o j \o <<".">>
      <4>1. "." \in Characters /\ j \in Seq(Characters)
        BY CharacterSets DEF Characters, Numbers
      <4>2. PICK x \in Seq(Characters) : x = Http \o j
        BY <4>1, HttpType, ConcatProperties
      <4> QED
        BY <4>1, <4>2, Joined
    <3>2. s \o Append(n, c) = w
      BY <2>1, <3>1, AppendSeq, CharacterSets DEF Numbers
    <3> QED
      BY <2>2, <3>1, <3>2, NumberGrows DEF VersionAt
  <2> QED
    BY <1>9, <2>2, RequestEdges
<1> QED
  BY <1>1, <1>2, <1>3, <1>4, <1>5, <1>6, <1>7, <1>8, <1>9 DEF VersionAt

Preface(f) == \E m \in Labels, u \in Seq(Texts \ {Space}) : f = m \o <<Space>> \o u \o <<Space>>

RequestAt(state, r) ==
  \/ state = "method_start" /\ r = <<>>
  \/ state = "method" /\ r \in Labels
  \/ state = "uri" /\ \E m \in Labels, u \in Seq(Texts \ {Space}) : r = m \o <<Space>> \o u
  \/ \E f \in Seq(Characters), v \in Seq(Characters) : Preface(f) /\ r = f \o v /\ VersionAt(state, v)

(* What comes after the name of the protocol.                               *)
LEMMA SlashSeparated ==
  ASSUME NEW b \in Seq(Characters)
  PROVE  After(Http \o b, "/") = b
<1>1. PICK s \in Seq(Characters) : s = Append(Append(Append(<<"H">>, "T"), "T"), "P")
  <2>1. "H" \in Characters /\ "T" \in Characters /\ "P" \in Characters /\ <<"H">> \in Seq(Characters)
    BY DEF Characters
  <2> QED
    BY <2>1, AppendProperties
<1>2. Http = s \o <<"/">>
  <2>1. Http = Append(s, "/")
    BY <1>1, Protocol DEF Http
  <2>2. "/" \in Characters
    BY CharacterSets
  <2> QED
    BY <2>1, <2>2, AppendOne DEF IsAppend
<1>3. Lacks(s, "/")
  <2>1. Len(s) = 4 /\ s[1] = "H" /\ s[2] = "T" /\ s[3] = "T" /\ s[4] = "P"
    BY <1>1
  <2>2. \A i \in 1..4 : i = 1 \/ i = 2 \/ i = 3 \/ i = 4
    OBVIOUS
  <2> QED
    BY <2>1, <2>2 DEF Lacks
<1>4. PICK t : t = Http \o b
  OBVIOUS
<1>5. t = s \o <<"/">> \o b
  BY <1>2, <1>4
<1>6. "/" \in Characters
  BY CharacterSets
<1>7. After(t, "/") = b
  <2>1. Glued(t, s, "/", b)
    BY <1>5 DEF Glued
  <2>2. Divided(t, s, "/", b)
    BY <1>3, <1>6, <2>1, Apart
  <2> QED
    BY <2>2 DEF Divided
<1> QED
  BY <1>4, <1>7

(* A complete request line is one as the grammar has it.                    *)
LEMMA RequestEnd ==
  ASSUME NEW r, RequestAt("http_version_minor", r)
  PROVE  RequestLine(r)
<1>1. PICK f \in Seq(Characters), v \in Seq(Characters) : Preface(f) /\ r = f \o v /\ VersionAt("http_version_minor", v)
  BY DEF RequestAt
<1>2. PICK m \in Labels, u \in Seq(Texts \ {Space}) : f = m \o <<Space>> \o u \o <<Space>>
  BY <1>1 DEF Preface
<1>3. PICK j \in Numbers, n \in Numbers : v = Http \o j \o <<".">> \o n
  BY <1>1 DEF VersionAt
<1>4. /\ m \in Seq(Characters) /\ u \in Seq(Characters) /\ j \in Seq(Characters) /\ n \in Seq(Characters)
      /\ Space \in Characters /\ "." \in Characters
      /\ <<Space>> \in Seq(Characters) /\ <<".">> \in Seq(Characters)
  <2>1. Space \in Characters /\ "." \in Characters
    BY CharacterSets DEF Characters
  <2> QED
    BY <2>1, CharacterSets DEF Labels, Numbers
<1>5. PICK w \in Seq(Characters) : w = u \o <<Space>> \o v
  BY <1>4, Joined
<1>6. r = m \o <<Space>> \o w
  <2>1. PICK a \in Seq(Characters) : a = m \o <<Space>>
    BY <1>4, Joined
  <2>2. Glued(r, a \o u, Space, v)
    BY <1>1, <1>2, <2>1 DEF Glued
  <2>3. Glued(w, u, Space, v)
    BY <1>5 DEF Glued
  <2>4. r = a \o w
    BY <1>4, <2>2, <2>3, Regrouped
  <2> QED
    BY <2>1, <2>4
<1>7. Lacks(m, Space)
  BY ElementOfSeq, CharacterFacts DEF Labels, Lacks
<1>8. Divided(r, m, Space, w)
  BY <1>4, <1>6, <1>7, Apart DEF Glued
<1>9. Lacks(u, Space)
  BY ElementOfSeq DEF Lacks
<1>10. Divided(w, u, Space, v)
  BY <1>4, <1>5, <1>9, Apart DEF Glued
<1>11. PICK x \in Seq(Characters) : x = j \o <<".">> \o n
  BY <1>4, Joined
<1>12. v = Http \o x
  <2>1. Glued(x, j, ".", n) /\ Glued(v, Http \o j, ".", n)
    BY <1>3, <1>11 DEF Glued
  <2> QED
    BY <1>4, <2>1, HttpType, Regrouped
<1>13. After(v, "/") = x
  BY <1>12, SlashSeparated
<1>14. Lacks(j, ".")
  BY ElementOfSeq, CharacterFacts DEF Numbers, Lacks
<1>15. Divided(x, j, ".", n)
  BY <1>4, <1>11, <1>14, Apart DEF Glued
<1>18. Method(r) = m /\ After(r, Space) = w
  BY <1>8 DEF Divided, Method
<1>19. Uri(r) = u /\ Version(r) = v
  BY <1>10, <1>18 DEF Divided, Uri, Version
<1>20. Major(r) = j /\ Minor(r) = n
  BY <1>13, <1>15, <1>19 DEF Divided, Major, Minor
<1>16. AllIn(m, Tokens) /\ AllIn(u, Texts \ {Space}) /\ AllIn(j, Digits) /\ AllIn(n, Digits)
  BY ElementOfSeq, LenProperties DEF AllIn, Labels, Numbers
<1>17. <<>> \notin {m, j, n}
  BY DEF Labels, Numbers
<1> QED
  BY <1>1, <1>2, <1>3, <1>16, <1>17, <1>18, <1>19, <1>20 DEF RequestLine, Http

(* A character that leads on in a request line.                             *)
LEMMA RequestStep ==
  ASSUME NEW h, NEW edge \in Edges(h), NEW c \in Alphabet, c \in edge[2],
         NEW r, RequestAt(edge[1], r)
  PROVE  \/ RequestAt(edge[3], Append(r, c))
         \/ edge[3] = "expecting_newline_1" /\ c = CR /\ RequestLine(r)
<1> DEFINE s == Append(r, c)
<1>0. c \in Characters
  BY CharacterSets
<1>1. CASE edge[1] = "method_start" /\ r = <<>>
  <2>1. edge[3] = "method" /\ c \in Tokens
    BY <1>1, RequestEdges
  <2>2. s \in Labels
    BY <1>1, <2>1, EmptySeq, AppendProperties DEF Labels
  <2> QED
    BY <2>1, <2>2 DEF RequestAt
<1>2. CASE edge[1] = "method" /\ r \in Labels
  <2>1. CASE edge[3] = "method" /\ c \in Tokens
    <3>1. s \in Labels
      BY <1>2, <2>1, AppendProperties DEF Labels
    <3> QED
      BY <2>1, <3>1 DEF RequestAt
  <2>2. CASE edge[3] = "uri" /\ c = Space
    <3>1. PICK e \in Seq(Texts \ {Space}) : e = <<>>
      BY EmptySeq
    <3>2. PICK w \in Seq(Characters) : w = r \o <<Space>>
      <4>1. r \in Seq(Characters)
        BY <1>2, CharacterSets DEF Labels
      <4> QED
        BY <1>0, <2>2, <4>1, Joined
    <3>3. w \o e = w
      BY <3>1, ConcatEmptySeq
    <3>4. s = w
      BY <1>0, <1>2, <2>2, <3>2, AppendOne, CharacterSets DEF IsAppend, Labels
    <3>5. s = r \o <<Space>> \o e
      BY <3>2, <3>3, <3>4
    <3> QED
      BY <1>2, <2>2, <3>5 DEF RequestAt
  <2> QED
    BY <1>2, <2>1, <2>2, RequestEdges
<1>3. CASE edge[1] = "uri" /\ \E m \in Labels, u \in Seq(Texts \ {Space}) : r = m \o <<Space>> \o u
  <2>1. PICK m \in Labels, u \in Seq(Texts \ {Space}) : r = m \o <<Space>> \o u
    BY <1>3
  <2>2. PICK w \in Seq(Characters) : w = m \o <<Space>>
    <3>1. m \in Seq(Characters) /\ Space \in Characters
      BY CharacterSets DEF Labels
    <3> QED
      BY <3>1, Joined
  <2>3. u \in Seq(Characters)
    BY CharacterSets
  <2>4. CASE edge[3] = "uri" /\ c \in Texts \ {Space}
    <3>1. w \o Append(u, c) = s
      BY <1>0, <2>1, <2>2, <2>3, AppendSeq
    <3>2. Append(u, c) \in Seq(Texts \ {Space})
      BY <2>4, AppendProperties
    <3> QED
      BY <2>2, <2>4, <3>1, <3>2 DEF RequestAt
  <2>5. CASE edge[3] = "http_version_h" /\ c = Space
    <3>1. r \in Seq(Characters)
      BY <2>1, <2>2, <2>3, ConcatProperties
    <3>2. PICK f \in Seq(Characters) : f = r \o <<Space>>
      BY <1>0, <2>5, <3>1, Joined
    <3>3. s = f
      BY <1>0, <2>5, <3>1, <3>2, AppendOne DEF IsAppend
    <3>4. Preface(f)
      BY <2>1, <3>2 DEF Preface
    <3>5. PICK e \in Seq(Characters) : e = <<>>
      BY EmptySeq
    <3>6. s = f \o e
      BY <3>3, <3>5, ConcatEmptySeq
    <3>7. VersionAt("http_version_h", e)
      BY <3>5 DEF VersionAt
    <3> QED
      BY <2>5, <3>4, <3>6, <3>7 DEF RequestAt
  <2> QED
    BY <1>3, <2>4, <2>5, RequestEdges
<1>4. CASE \E f \in Seq(Characters), v \in Seq(Characters) : Preface(f) /\ r = f \o v /\ VersionAt(edge[1], v)
  <2>1. PICK f \in Seq(Characters), v \in Seq(Characters) : Preface(f) /\ r = f \o v /\ VersionAt(edge[1], v)
    BY <1>4
  <2>3. CASE VersionAt(edge[3], Append(v, c))
    <3>1. f \o Append(v, c) = s
      BY <1>0, <2>1, AppendSeq
    <3>2. Append(v, c) \in Seq(Characters)
      BY <1>0, AppendProperties
    <3> QED
      BY <2>1, <2>3, <3>1, <3>2 DEF RequestAt
  <2>4. CASE edge[1] = "http_version_minor" /\ edge[3] = "expecting_newline_1" /\ c = CR
    <3>1. RequestAt("http_version_minor", r)
      BY <1>4, <2>4 DEF RequestAt
    <3> QED
      BY <2>4, <3>1, RequestEnd
  <2> QED
    BY <1>0, <2>1, <2>3, <2>4, VersionStep
<1> QED
  BY <1>1, <1>2, <1>3, <1>4 DEF RequestAt

Indents == Seq({Space, Tab}) \ {<<>>}

(* What has been read of a header line, or of the continuation of one if    *)
(* `many' says that there is one, when the parser is in a state.            *)
HeaderAt(state, r, many) ==
  \/ state = "header_line_start" /\ r = <<>>
  \/ state = "header_name" /\ r \in Labels
  \/ state = "space_before_header_value" /\ \E a \in Labels : r = Append(a, ":")
  \/ state = "header_value" /\ \E a \in Labels, v \in Seq(Texts) : r = a \o <<":", Space>> \o v
  \/ many /\ state = "header_lws" /\ r \in Indents
  \/ many /\ state = "header_value" /\ \E b \in Indents, v \in Seq(Texts) : r = b \o v

LineOf(r, many) == HeaderLine(r) \/ (many /\ Continuation(r))

(* The text of a header line is one as the grammar has it.                  *)
LEMMA HeaderEnd ==
  ASSUME NEW a \in Labels, NEW v \in Seq(Texts), NEW r, r = a \o <<":", Space>> \o v
  PROVE  HeaderLine(r)
<1>1. /\ a \in Seq(Characters) /\ v \in Seq(Characters)
      /\ ":" \in Characters /\ Space \in Characters
  BY CharacterSets DEF Labels
<1>2. PICK w \in Seq(Characters) : w = <<Space>> \o v
  <2>1. <<Space>> \in Seq(Characters)
    BY <1>1
  <2> QED
    BY <1>1, <2>1, ConcatProperties
<1>3. Glued(r, a, ":", w)
  <2>1. <<":">> \in Seq(Characters) /\ <<Space>> \in Seq(Characters)
    BY <1>1
  <2>2. PICK x \in Seq(Characters) : x = <<":">>
    BY <2>1
  <2>3. PICK y \in Seq(Characters) : y = <<Space>>
    BY <2>1
  <2>4. x \o y = <<":", Space>>
    <3>1. InPair(":", Space)
      BY <1>1, Two
    <3> QED
      BY <2>2, <2>3, <3>1, Zenon DEF InPair
  <2>5. PICK k \in Seq(Characters) : k = x \o y
    BY ConcatProperties
  <2>6. PICK z \in Seq(Characters) : z = a \o x
    BY <1>1, ConcatProperties
  <2>7. Associates(a, x, y) /\ Associates(z, y, v)
    BY <1>1, <2>6, Association
  <2>8. r = a \o k \o v
    BY <2>4, <2>5, Zenon
  <2>9. r = z \o w
    BY <1>2, <2>3, <2>5, <2>6, <2>7, <2>8 DEF Associates
  <2> QED
    BY <2>2, <2>6, <2>9 DEF Glued
<1>4. Lacks(a, ":")
  BY ElementOfSeq, CharacterFacts DEF Labels, Lacks
<1>5. Divided(r, a, ":", w)
  BY <1>1, <1>3, <1>4, Apart
<1>6. PICK e \in Seq(Characters) : e = <<>>
  BY EmptySeq
<1>7. Glued(w, e, Space, v)
  <2>1. PICK x \in Seq(Characters) : x = <<Space>>
    <3>1. <<Space>> \in Seq(Characters)
      BY <1>1
    <3> QED
      BY <3>1
  <2>2. e \o x = x
    BY <1>6, ConcatEmptySeq
  <2> QED
    BY <1>2, <2>1, <2>2 DEF Glued
<1>8. Lacks(e, Space)
  BY <1>6, EmptySeq DEF Lacks
<1>9. Divided(w, e, Space, v)
  BY <1>1, <1>7, <1>8, Apart
<1>10. Name(r) = a /\ Content(r) = v
  BY <1>5, <1>9 DEF Divided, Name, Content
<1>11. a # <<>> /\ AllIn(a, Tokens) /\ AllIn(v, Texts)
  BY ElementOfSeq, LenProperties DEF AllIn, Labels
<1> QED
  BY <1>10, <1>11, Zenon DEF HeaderLine

(* A text from its first character that is not a blank.                     *)
LEMMA UnindentedAt ==
  ASSUME NEW row \in Seq(Alphabet), NEW n \in Nat, n = Len(row),
         NEW p \in 1..n, row[p] \notin {Space, Tab}, \A i \in 1..p - 1 : row[i] \in {Space, Tab}
  PROVE  Unindented(row) = SubSeq(row, p, n)
<1>1. DOMAIN row = 1..n
  BY LenProperties
<1>2. SelectInSeq(row, LAMBDA c : c \notin {Space, Tab}) = p
  <2>1. PICK I : I = {i \in 1..n : row[i] \notin {Space, Tab}}
    OBVIOUS
  <2>2. SelectInSeq(row, LAMBDA c : c \notin {Space, Tab}) = IF I # {} THEN Min(I) ELSE 0
    BY <1>1, <2>1, Zenon DEF SelectInSeq
  <2>3. p \in I /\ \A i \in I : p =< i
    BY <2>1
  <2>4. \A i \in I : (\A j \in I : i =< j) => i = p
    BY <2>1, <2>3
  <2>5. Min(I) = p
    BY <2>3, <2>4, MinIs
  <2> QED
    BY <2>2, <2>3, <2>5
<1>3. ~AllIn(row, {Space, Tab})
  BY <1>1 DEF AllIn
<1> QED
  BY <1>2, <1>3 DEF Unindented

(* Blanks and then a text are a continuation. *)
LEMMA BlanksFirst ==
  ASSUME NEW r \in Seq(Alphabet), NEW n \in Nat, n = Len(r), NEW k \in 1..n,
         \A i \in 1..k : r[i] \in {Space, Tab}, \A i \in k + 1..n : r[i] \in Texts
  PROVE  Continuation(r)
<1>1. PICK B : B = {Space, Tab}
  OBVIOUS
<1>2. r # <<>> /\ DOMAIN r = 1..n
  BY LenProperties, EmptySeq
<1>3. AllIn(Unindented(r), Texts)
  <2>1. CASE AllIn(r, B)
    <3>1. Unindented(r) = <<>>
      BY <1>1, <2>1 DEF Unindented
    <3> QED
      BY <3>1, EmptySeq DEF AllIn
  <2>2. CASE ~AllIn(r, B)
    <3>1. PICK C : C = {c \in Alphabet : c \notin B}
      OBVIOUS
    <3>2. \A i \in 1..n : r[i] \in Alphabet
      BY ElementOfSeq
    <3>3. PICK p \in 1..n : r[p] \in C /\ \A i \in 1..p - 1 : r[i] \notin C
      <4>1. \E i \in 1..n : r[i] \in C
        BY <1>2, <2>2, <3>1, <3>2 DEF AllIn
      <4> QED
        BY <4>1, Search
    <3>4. Unindented(r) = SubSeq(r, p, n)
      <4>1. r[p] \notin {Space, Tab} /\ \A i \in 1..p - 1 : r[i] \in {Space, Tab}
        BY <1>1, <3>1, <3>2, <3>3
      <4> QED
        BY <4>1, UnindentedAt
    <3>5. p > k
      BY <1>1, <3>1, <3>3
    <3>6. PICK w : w = SubSeq(r, p, n)
      OBVIOUS
    <3>7. w \in Seq(Texts)
      <4>1. \A i \in p..n : r[i] \in Texts
        BY <3>5
      <4> QED
        BY <3>6, <4>1, SubSeqProperties
    <3> QED
      BY <3>4, <3>6, <3>7, ElementOfSeq, LenProperties DEF AllIn
  <2> QED
    BY <2>1, <2>2
<1> QED
  BY <1>2, <1>3 DEF Continuation

(* The same, of the two parts.                                              *)
LEMMA JoinedContinues ==
  ASSUME NEW b \in Indents, NEW v \in Seq(Texts), NEW r \in Seq(Alphabet),
         NEW k \in Nat, k = Len(b), NEW l \in Nat, l = Len(v), Joins(r, b, v, k, l)
  PROVE  Continuation(r)
<1>1. k > 0
  BY EmptySeq DEF Indents
<1>2. \A i \in 1..k : b[i] \in {Space, Tab}
  BY ElementOfSeq DEF Indents
<1>3. \A i \in 1..l : v[i] \in Texts
  BY ElementOfSeq
<1>4. PICK n \in Nat : n = k + l
  OBVIOUS
<1>5. n = Len(r) /\ \A i \in 1..n : r[i] = IF i <= k THEN b[i] ELSE v[i - k]
  BY <1>4 DEF Joins
<1>6. \A i \in 1..k : r[i] \in {Space, Tab}
  BY <1>2, <1>4, <1>5
<1>7. \A i \in k + 1..n : r[i] \in Texts
  <2> SUFFICES ASSUME NEW i \in k + 1..n PROVE r[i] \in Texts
    OBVIOUS
  <2>1. i \in 1..n /\ ~(i <= k) /\ i - k \in 1..l
    BY <1>4
  <2>2. r[i] = v[i - k]
    BY <1>5, <2>1
  <2> QED
    BY <1>3, <2>1, <2>2
<1>8. k \in 1..n
  BY <1>1, <1>4
<1> QED
  BY <1>5, <1>6, <1>7, <1>8, BlanksFirst

(* Blanks and then a text, as the parser reads them.                        *)
LEMMA ContinuationEnd ==
  ASSUME NEW b \in Indents, NEW v \in Seq(Texts), NEW r, r = b \o v
  PROVE  Continuation(r)
<1>1. {Space, Tab} \subseteq Alphabet /\ Texts \subseteq Alphabet
  BY CharacterSets DEF Texts
<1>2. b \in Seq(Alphabet) /\ v \in Seq(Alphabet)
  BY <1>1, Larger DEF Indents
<1>3. PICK k \in Nat : k = Len(b)
  BY LenProperties
<1>4. PICK l \in Nat : l = Len(v)
  BY LenProperties
<1>5. r \in Seq(Alphabet) /\ Joins(r, b, v, k, l)
  BY <1>2, <1>3, <1>4, ConcatAt
<1> QED
  BY <1>3, <1>4, <1>5, JoinedContinues

(* A character that leads on in the lines after the request line.           *)
LEMMA HeaderStep ==
  ASSUME NEW h, NEW edge \in Edges(h), NEW c \in Alphabet, c \in edge[2],
         NEW many \in BOOLEAN, edge[1] = "header_line_start" /\ h # <<>> => many, NEW r, HeaderAt(edge[1], r, many)
  PROVE  \/ HeaderAt(edge[3], Append(r, c), many)
         \/ edge[3] = "expecting_newline_2" /\ c = CR /\ LineOf(r, many)
         \/ edge[3] = "expecting_newline_3" /\ c = CR /\ r = <<>>
<1> DEFINE s == Append(r, c)
<1>1. CASE edge[1] = "header_line_start" /\ r = <<>>
  <2>1. CASE c = CR /\ edge[3] = "expecting_newline_3"
    BY <1>1, <2>1
  <2>2. CASE c \in Tokens /\ edge[3] = "header_name"
    <3>1. s \in Labels
      BY <1>1, <2>2, EmptySeq, AppendProperties DEF Labels
    <3> QED
      BY <2>2, <3>1 DEF HeaderAt
  <2>3. CASE c \in {Space, Tab} /\ edge[3] = "header_lws" /\ h # <<>>
    <3>1. s \in Indents
      BY <1>1, <2>3, EmptySeq, AppendProperties DEF Indents
    <3>2. HeaderAt(edge[3], s, many)
      BY <1>1, <2>3, <3>1 DEF HeaderAt
    <3> QED
      BY <3>2
  <2> QED
    BY <1>1, <2>1, <2>2, <2>3, HeaderEdges
<1>2. CASE edge[1] = "header_name" /\ r \in Labels
  <2>1. CASE c = ":" /\ edge[3] = "space_before_header_value"
    BY <1>2, <2>1 DEF HeaderAt
  <2>2. CASE c \in Tokens /\ edge[3] = "header_name"
    <3>1. s \in Labels
      BY <1>2, <2>2, AppendProperties DEF Labels
    <3> QED
      BY <2>2, <3>1 DEF HeaderAt
  <2> QED
    BY <1>2, <2>1, <2>2, HeaderEdges
<1>3. CASE edge[1] = "space_before_header_value" /\ \E a \in Labels : r = Append(a, ":")
  <2>1. c = Space /\ edge[3] = "header_value"
    BY <1>3, HeaderEdges
  <2>2. PICK a \in Labels : r = Append(a, ":")
    BY <1>3
  <2>3. a \in Seq(Characters) /\ ":" \in Characters /\ Space \in Characters
    BY CharacterSets DEF Labels
  <2>4. PICK x \in Seq(Characters) : x = <<":", Space>>
    <3>1. <<":", Space>> \in Seq(Characters)
      BY <2>3
    <3> QED
      BY <3>1
  <2>5. PICK y \in Seq(Characters) : y = <<":">>
    <3>1. <<":">> \in Seq(Characters)
      BY <2>3
    <3> QED
      BY <3>1
  <2>6. Append(y, Space) = x
    <3>1. InPair(":", Space)
      BY <2>3, Two
    <3>2. Append(y, Space) = y \o <<Space>>
      BY <2>3, <2>5, AppendOne DEF IsAppend
    <3> QED
      BY <2>4, <2>5, <3>1, <3>2, Zenon DEF InPair
  <2>7. a \o y = r
    BY <2>2, <2>3, <2>5, AppendOne DEF IsAppend
  <2>8. a \o x = s
    <3>1. a \o Append(y, Space) = Append(a \o y, Space)
      BY <2>3, AppendSeq
    <3> QED
      BY <2>1, <2>6, <2>7, <3>1
  <2>9. PICK e \in Seq(Texts) : e = <<>>
    BY EmptySeq
  <2>10. PICK z \in Seq(Characters) : z = a \o x
    BY <2>3, ConcatProperties
  <2>11. s = z \o e
    BY <2>8, <2>9, <2>10, ConcatEmptySeq
  <2>12. s = a \o <<":", Space>> \o e
    BY <2>4, <2>10, <2>11, Zenon
  <2> QED
    BY <2>1, <2>12 DEF HeaderAt
<1>4. CASE edge[1] = "header_value" /\ \E a \in Labels, v \in Seq(Texts) : r = a \o <<":", Space>> \o v
  <2>1. PICK a \in Labels, v \in Seq(Texts) : r = a \o <<":", Space>> \o v
    BY <1>4, Zenon
  <2>2. CASE c = CR /\ edge[3] = "expecting_newline_2"
    <3>1. HeaderLine(r)
      BY <2>1, HeaderEnd
    <3> QED
      BY <2>2, <3>1 DEF LineOf
  <2>3. CASE c \in Texts /\ edge[3] = "header_value"
    <3>1. a \in Seq(Characters) /\ v \in Seq(Characters) /\ ":" \in Characters /\ Space \in Characters
          /\ c \in Characters
      BY CharacterSets DEF Labels
    <3>2. PICK x \in Seq(Characters) : x = <<":", Space>>
      <4>1. <<":", Space>> \in Seq(Characters)
        BY <3>1
      <4> QED
        BY <4>1
    <3>3. PICK z \in Seq(Characters) : z = a \o x
      BY <3>1, ConcatProperties
    <3>4. r = z \o v
      BY <2>1, <3>2, <3>3, Zenon
    <3>5. z \o Append(v, c) = s
      BY <3>1, <3>4, AppendSeq
    <3>6. Append(v, c) \in Seq(Texts)
      BY <2>3, AppendProperties
    <3>7. s = a \o <<":", Space>> \o Append(v, c)
      BY <3>2, <3>3, <3>5, Zenon
    <3> QED
      BY <2>3, <3>6, <3>7 DEF HeaderAt
  <2> QED
    BY <1>4, <2>2, <2>3, HeaderEdges
<1>5. CASE many /\ edge[1] = "header_lws" /\ r \in Indents
  <2>1. CASE c = CR /\ edge[3] = "expecting_newline_2"
    <3>1. PICK e \in Seq(Texts) : e = <<>>
      BY EmptySeq
    <3>2. r = r \o e
      BY <1>5, <3>1, ConcatEmptySeq DEF Indents
    <3>3. Continuation(r)
      BY <1>5, <3>2, ContinuationEnd
    <3> QED
      BY <1>5, <2>1, <3>3 DEF LineOf
  <2>2. CASE c \in {Space, Tab} /\ edge[3] = "header_lws"
    <3>1. s \in Indents
      BY <1>5, <2>2, AppendProperties DEF Indents
    <3> QED
      BY <1>5, <2>2, <3>1 DEF HeaderAt
  <2>3. CASE c \in Texts \ {Space} /\ edge[3] = "header_value"
    <3>1. r \in Seq(Characters) /\ c \in Characters
      BY <1>5, CharacterSets DEF Indents
    <3>2. s = r \o <<c>>
      BY <3>1, AppendOne DEF IsAppend
    <3>3. <<c>> \in Seq(Texts)
      BY <2>3
    <3> QED
      BY <1>5, <2>3, <3>2, <3>3 DEF HeaderAt
  <2> QED
    BY <1>5, <2>1, <2>2, <2>3, HeaderEdges
<1>6. CASE many /\ edge[1] = "header_value" /\ \E b \in Indents, v \in Seq(Texts) : r = b \o v
  <2>1. PICK b \in Indents, v \in Seq(Texts) : r = b \o v
    BY <1>6
  <2>2. CASE c = CR /\ edge[3] = "expecting_newline_2"
    <3>1. Continuation(r)
      BY <2>1, ContinuationEnd
    <3> QED
      BY <1>6, <2>2, <3>1 DEF LineOf
  <2>3. CASE c \in Texts /\ edge[3] = "header_value"
    <3>1. b \in Seq(Characters) /\ v \in Seq(Characters) /\ c \in Characters
      BY CharacterSets DEF Indents
    <3>2. b \o Append(v, c) = s
      BY <2>1, <3>1, AppendSeq
    <3>3. Append(v, c) \in Seq(Texts)
      BY <2>3, AppendProperties
    <3> QED
      BY <1>6, <2>3, <3>2, <3>3 DEF HeaderAt
  <2> QED
    BY <1>6, <2>2, <2>3, HeaderEdges
<1> QED
  BY <1>1, <1>2, <1>3, <1>4, <1>5, <1>6, Zenon DEF HeaderAt

RequestStates ==
  {"method_start", "method", "uri", "http_version_h", "http_version_t_1", "http_version_t_2",
   "http_version_p", "http_version_slash", "http_version_major_start", "http_version_major",
   "http_version_minor_start", "http_version_minor"}

HeaderStates ==
  {"header_line_start", "header_name", "space_before_header_value", "header_value", "header_lws"}

(* The states of the request line, and those of the lines that follow.      *)
LEMMA StateSets ==
  /\ \A state, r : RequestAt(state, r) => state \in RequestStates
  /\ \A state, r, many : HeaderAt(state, r, many) => state \in HeaderStates
<1>1. ASSUME NEW state, NEW r, RequestAt(state, r) PROVE state \in RequestStates
  <2>1. \/ state = "method_start" \/ state = "method" \/ state = "uri" \/ \E v : VersionAt(state, v)
    BY <1>1, Zenon DEF RequestAt
  <2>2. ASSUME NEW v, VersionAt(state, v) PROVE state \in RequestStates
    BY <2>2, Zenon DEF VersionAt, RequestStates
  <2> QED
    BY <2>1, <2>2, Zenon DEF RequestStates
<1>2. ASSUME NEW state, NEW r, NEW many, HeaderAt(state, r, many) PROVE state \in HeaderStates
  BY <1>2, Zenon DEF HeaderAt, HeaderStates
<1> QED
  BY <1>1, <1>2

(* Only where a newline is expected does one lead on.                       *)
LEMMA NoNewline ==
  ASSUME NEW h, NEW edge \in Edges(h), NEW c \in edge[2], edge[1] \in RequestStates \cup HeaderStates
  PROVE  c # LF
<1>1. LF \notin Tokens /\ LF \notin Texts /\ LF \notin Digits /\ LF # Space /\ LF # Tab /\ LF # CR
  BY CharacterFacts
<1>2. LF \notin {"H", "T", "P", "/", ".", ":"}
  BY DEF LF
<1>3. CASE edge[1] \in RequestStates
  <2>1. c \in Tokens \cup {Space} \cup Texts \cup Digits \cup {"H", "T", "P", "/", ".", CR}
    BY <1>3, RequestEdges DEF RequestStates
  <2> QED
    BY <1>1, <1>2, <2>1
<1>4. CASE edge[1] \in HeaderStates
  <2>1. c \in Tokens \cup {Space, Tab} \cup Texts \cup {":", CR}
    BY <1>4, HeaderEdges DEF HeaderStates
  <2> QED
    BY <1>1, <1>2, <2>1
<1> QED
  BY <1>3, <1>4

Many(lines) == Len(lines) > 1

(* The lines so far, and what has come after the last of them, are as the   *)
(* parser's state says.                                                     *)
Stage(state, lines, rest) ==
  \/ lines = <<>> /\ RequestAt(state, rest)
  \/ /\ lines = <<>> /\ state = "expecting_newline_1"
     /\ \E L \in Seq(Alphabet) : RequestLine(L) /\ rest = Append(L, CR)
  \/ Legal(lines) /\ HeaderAt(state, rest, Many(lines))
  \/ /\ Legal(lines) /\ state = "expecting_newline_2"
     /\ \E L \in Seq(Alphabet) : LineOf(L, Many(lines)) /\ rest = Append(L, CR)
  \/ Legal(lines) /\ state = "expecting_newline_3" /\ rest = <<CR>>

StageAfter(state, t) ==
  \/ state = "bad"
  \/ state = "good" /\ WellFormed(t)
  \/ state \notin Verdicts /\ Stage(state, Cut(t).lines, Cut(t).rest)

(* A character that is no newline is one more after the lines.              *)
LEMMA CutContinues ==
  ASSUME NEW t \in Seq(Alphabet), NEW c \in Alphabet, c # LF, NEW lines \in Lines,
         NEW rest \in Seq(Alphabet), Cut(t) = [lines |-> lines, rest |-> rest]
  PROVE  Cut(Append(t, c)).lines = lines /\ Cut(Append(t, c)).rest = Append(rest, c)
<1>1. Cut(Append(t, c)) = Longer([lines |-> lines, rest |-> rest], c)
  BY CutFacts
<1>2. Continues(lines, rest, c)
  <2>1. \A L : ~Completes(lines, rest, c, L)
    BY DEF Completes
  <2> QED
    BY <2>1, LongerFacts
<1> QED
  BY <1>1, <1>2 DEF Continues

IsCut(x, lines, rest) == Cut(x).lines = lines /\ Cut(x).rest = rest

(* A newline after a carriage return makes one line more.                   *)
LEMMA CutCompletes ==
  ASSUME NEW t \in Seq(Alphabet), NEW lines \in Lines, NEW L \in Seq(Alphabet), NEW rest \in Seq(Alphabet),
         rest = Append(L, CR), Cut(t) = [lines |-> lines, rest |-> rest],
         NEW c, c = LF, NEW x, x = Append(t, c)
  PROVE  IsCut(x, Append(lines, L), <<>>)
<1>1. LF \in Alphabet /\ CR \in Alphabet
  BY CharacterSets
<1>2. Cut(x) = Longer([lines |-> lines, rest |-> rest], LF)
  BY <1>1, CutFacts
<1>3. PICK K \in Seq(Alphabet) : Completes(lines, rest, LF, K)
  <2>1. ~Continues(lines, rest, LF)
    BY DEF Continues
  <2> QED
    BY <1>1, <2>1, LongerFacts
<1>4. K = L
  <2>1. Append(K, CR) = Append(L, CR)
    BY <1>3 DEF Completes
  <2> QED
    BY <1>1, <2>1, AppendInjective
<1>5. PICK k : k = Append(lines, K)
  OBVIOUS
<1>6. Cut(x) = [lines |-> k, rest |-> <<>>]
  BY <1>2, <1>3, <1>5 DEF Completes
<1> QED
  BY <1>4, <1>5, <1>6 DEF IsCut

(* No header goes on before there is one. *)
LEMMA HeadersMany ==
  ASSUME NEW t \in Seq(Alphabet), NEW lines \in Lines, Legal(lines),
         Cut(t) = [lines |-> lines, rest |-> <<>>], parse(Parser, t).request.headers # <<>>
  PROVE  Many(lines)
<1>1. PICK p \in Start(lines) : parse(Parser, t) = parse(p, <<>>)
  BY LegalRead DEF ReadUpTo, SoFar
<1>2. lines # <<>>
  BY DEF Legal
<1>3. p.request.headers # <<>>
  BY <1>1, ParseEmpty
<1>4. Headers(Tail(lines)) # <<>>
  BY <1>1, <1>2, <1>3 DEF Start, Here, Fields
<1>5. PICK s \in Lines, L \in Seq(Alphabet) : lines = Append(s, L) /\ Len(lines) = Len(s) + 1
  BY <1>2, Appended DEF Lines
<1>6. s # <<>>
  <2>1. ASSUME s = <<>> PROVE FALSE
    <3>1. Tail(Append(s, L)) = <<>>
      BY <2>1, TailAppend DEF Lines
    <3>2. Tail(lines) = <<>>
      BY <1>5, <3>1
    <3> QED
      BY <1>4, <3>2, HeadersEmpty
  <2> QED
    BY <2>1
<1>7. Len(s) > 0
  BY <1>6, EmptySeq, LenProperties DEF Lines
<1> QED
  BY <1>5, <1>7, LenProperties DEF Many, Lines

(* So it stays with each character, until the verdict.                      *)
LEMMA StageStep ==
  ASSUME NEW t \in Seq(Alphabet), NEW c \in Alphabet, NEW p, p = parse(Parser, t), p.state \notin Verdicts,
         Stage(p.state, Cut(t).lines, Cut(t).rest)
  PROVE  StageAfter(consume(p, c).state, Append(t, c))
<1>1. PICK lines \in Lines, rest \in Seq(Alphabet) : Cut(t) = [lines |-> lines, rest |-> rest]
  BY CutTypes
<1>2. Stage(p.state, lines, rest)
  BY <1>1
<1>3. PICK q : q = consume(p, c)
  OBVIOUS
<1>4. PICK x : x = Append(t, c)
  OBVIOUS
<1>5. CASE \E edge : Leads(p, c, edge)
  <2> SUFFICES StageAfter(q.state, x)
    BY <1>3, <1>4
  <2>1. PICK edge : Leads(p, c, edge)
    BY <1>5
  <2>2. PICK h : h = p.request.headers
    OBVIOUS
  <2>3. edge \in Edges(h) /\ edge[1] = p.state /\ c \in edge[2] /\ q.state = edge[3]
    BY <1>3, <2>1, <2>2 DEF Leads
  <2>4. ASSUME c # LF PROVE Cut(x).lines = lines /\ Cut(x).rest = Append(rest, c)
    BY <1>1, <1>4, <2>4, CutContinues
  <2>5. ASSUME NEW L \in Seq(Alphabet), rest = Append(L, CR), c = LF
        PROVE  IsCut(x, Append(lines, L), <<>>)
    BY <1>1, <1>4, <2>5, CutCompletes, Zenon
  <2>6. CASE lines = <<>> /\ RequestAt(p.state, rest)
    <3>1. p.state \in RequestStates
      BY <2>6, StateSets
    <3>2. c # LF
      BY <2>3, <3>1, NoNewline
    <3>3. RequestAt(q.state, Append(rest, c)) \/ (q.state = "expecting_newline_1" /\ c = CR /\ RequestLine(rest))
      BY <2>3, <2>6, RequestStep
    <3>4. q.state \notin Verdicts
      BY <3>3, StateSets DEF RequestStates, Verdicts
    <3>5. Stage(q.state, lines, Append(rest, c))
      BY <2>6, <3>3 DEF Stage
    <3> QED
      BY <2>4, <3>2, <3>4, <3>5 DEF StageAfter
  <2>7. CASE /\ lines = <<>> /\ p.state = "expecting_newline_1"
             /\ \E L \in Seq(Alphabet) : RequestLine(L) /\ rest = Append(L, CR)
    <3>1. PICK L \in Seq(Alphabet) : RequestLine(L) /\ rest = Append(L, CR)
      BY <2>7
    <3>2. c = LF /\ q.state = "header_line_start"
      BY <2>3, <2>7, RequestEdges
    <3>3. Legal(Append(lines, L))
      BY <2>7, <3>1, LegalAppend DEF Lines
    <3>4. HeaderAt(q.state, <<>>, Many(Append(lines, L)))
      BY <3>2 DEF HeaderAt
    <3>5. Stage(q.state, Cut(x).lines, Cut(x).rest)
      BY <2>5, <3>1, <3>2, <3>3, <3>4 DEF Stage, IsCut
    <3> QED
      BY <3>2, <3>5 DEF StageAfter, Verdicts
  <2>8. CASE Legal(lines) /\ HeaderAt(p.state, rest, Many(lines))
    <3>1. p.state \in HeaderStates
      BY <2>8, StateSets
    <3>2. c # LF
      BY <2>3, <3>1, NoNewline
    <3>3. p.state = "header_line_start" /\ h # <<>> => Many(lines)
      <4>1. ASSUME p.state = "header_line_start", h # <<>> PROVE Many(lines)
        <5>1. rest = <<>>
          BY <2>8, <4>1 DEF HeaderAt
        <5> QED
          BY <1>1, <2>2, <2>8, <4>1, <5>1, HeadersMany
      <4> QED
        BY <4>1
    <3>4. \/ HeaderAt(q.state, Append(rest, c), Many(lines))
          \/ q.state = "expecting_newline_2" /\ c = CR /\ LineOf(rest, Many(lines))
          \/ q.state = "expecting_newline_3" /\ c = CR /\ rest = <<>>
      <4>1. Many(lines) \in BOOLEAN
        BY DEF Many
      <4> QED
        BY <2>3, <2>8, <3>3, <4>1, HeaderStep
    <3>5. q.state \notin Verdicts
      BY <3>4, StateSets DEF HeaderStates, Verdicts
    <3>6. Append(<<>>, CR) = <<CR>>
      OBVIOUS
    <3>7. Stage(q.state, lines, Append(rest, c))
      BY <2>8, <3>4, <3>6 DEF Stage
    <3> QED
      BY <2>4, <3>2, <3>5, <3>7 DEF StageAfter
  <2>9. CASE /\ Legal(lines) /\ p.state = "expecting_newline_2"
             /\ \E L \in Seq(Alphabet) : LineOf(L, Many(lines)) /\ rest = Append(L, CR)
    <3>1. PICK L \in Seq(Alphabet) : LineOf(L, Many(lines)) /\ rest = Append(L, CR)
      BY <2>9
    <3>2. c = LF /\ q.state = "header_line_start"
      BY <2>3, <2>9, HeaderEdges
    <3>3. Legal(Append(lines, L))
      <4>1. lines # <<>>
        BY <2>9 DEF Legal
      <4> QED
        BY <2>9, <3>1, <4>1, LegalAppend DEF Lines, LineOf, Many
    <3>4. HeaderAt(q.state, <<>>, Many(Append(lines, L)))
      BY <3>2 DEF HeaderAt
    <3>5. Stage(q.state, Cut(x).lines, Cut(x).rest)
      BY <2>5, <3>1, <3>2, <3>3, <3>4 DEF Stage, IsCut
    <3> QED
      BY <3>2, <3>5 DEF StageAfter, Verdicts
  <2>10. CASE Legal(lines) /\ p.state = "expecting_newline_3" /\ rest = <<CR>>
    <3>1. c = LF /\ q.state = "good"
      BY <2>3, <2>10, HeaderEdges
    <3>2. lines # <<>>
      BY <2>10 DEF Legal
    <3>3. WellFormed(x)
      BY <1>1, <1>4, <2>10, <3>1, <3>2, WellFormedAppend
    <3> QED
      BY <3>1, <3>3 DEF StageAfter
  <2>11. StageAfter(q.state, x)
    BY <1>2, <2>6, <2>7, <2>8, <2>9, <2>10, Zenon DEF Stage
  <2> QED
    BY <2>11
<1>6. CASE consume(p, c) = [p EXCEPT !.state = "bad"]
  <2>1. PICK r : r = [state |-> p.state, request |-> p.request]
    OBVIOUS
  <2>2. consume(p, c).state = "bad"
    BY <1>6
  <2> QED
    BY <2>2 DEF StageAfter
<1> QED
  BY <1>5, <1>6, ConsumeFacts

(* Only a text that begins with a request is found good.                    *)
HasRequest(t) == \E a \in Seq(Alphabet), b \in Seq(Alphabet) : t = a \o b /\ WellFormed(a)

Progress(t) ==
  LET p == parse(Parser, t)
  IN  /\ p.state = "good" => HasRequest(t)
      /\ p.state \in Verdicts \/ Stage(p.state, Cut(t).lines, Cut(t).rest)

(* So it is for every text, by induction over its characters.               *)
LEMMA Sound ==
  ASSUME NEW seq \in Seq(Alphabet), parse(Parser, seq).state = "good"
  PROVE  HasRequest(seq)
<1> DEFINE S == {t \in Seq(Alphabet) : Progress(t)}
<1>1. <<>> \in S
  <2>1. parse(Parser, <<>>).state = "method_start"
    BY ParseEmpty DEF Parser
  <2>2. Cut(<<>>).lines = <<>> /\ Cut(<<>>).rest = <<>>
    BY CutEmpty
  <2>3. Stage("method_start", <<>>, <<>>)
    BY DEF Stage, RequestAt
  <2>4. Progress(<<>>)
    BY <2>1, <2>2, <2>3 DEF Progress
  <2> QED
    BY <2>4, EmptySeq
<1>2. ASSUME NEW t \in Seq(Alphabet), NEW c \in Alphabet, t \in S PROVE Append(t, c) \in S
  <2>1. PICK x \in Seq(Alphabet) : x = Append(t, c)
    BY AppendProperties
  <2>2. PICK p : p = parse(Parser, t)
    OBVIOUS
  <2>3. parse(Parser, x) = consume(p, c)
    BY <2>1, <2>2, ParseFacts
  <2>4. (p.state = "good" => HasRequest(t)) /\ (p.state \in Verdicts \/ Stage(p.state, Cut(t).lines, Cut(t).rest))
    BY <1>2, <2>2 DEF Progress
  <2>5. CASE p.state \in Verdicts
    <3>1. parse(Parser, x) = p
      BY <2>3, <2>5 DEF consume
    <3>2. ASSUME p.state = "good" PROVE HasRequest(x)
      <4>1. PICK a \in Seq(Alphabet), b \in Seq(Alphabet) : t = a \o b /\ WellFormed(a)
        BY <2>4, <3>2 DEF HasRequest
      <4>2. a \o Append(b, c) = x
        BY <2>1, <4>1, AppendSeq
      <4>3. Append(b, c) \in Seq(Alphabet)
        BY AppendProperties
      <4> QED
        BY <4>1, <4>2, <4>3 DEF HasRequest
    <3> QED
      BY <2>1, <2>5, <3>1, <3>2 DEF Progress
  <2>6. CASE p.state \notin Verdicts
    <3>1. PICK q : q = consume(p, c)
      OBVIOUS
    <3>2. StageAfter(q.state, x)
      BY <2>1, <2>2, <2>4, <2>6, <3>1, StageStep
    <3>3. ASSUME WellFormed(x) PROVE HasRequest(x)
      <4>1. PICK e \in Seq(Alphabet) : e = <<>>
        BY EmptySeq
      <4>2. x = x \o e
        BY <4>1, ConcatEmptySeq
      <4> QED
        BY <3>3, <4>2 DEF HasRequest
    <3> QED
      BY <2>1, <2>3, <3>1, <3>2, <3>3 DEF Progress, StageAfter, Verdicts
  <2> QED
    BY <2>5, <2>6
<1>3. Seq(Alphabet) \subseteq S
  <2> HIDE DEF S
  <2> QED
    BY <1>1, <1>2, Growing
<1> QED
  BY <1>3 DEF Progress

-----------------------------------------------------------------------------
(*                           However it is cut up                           *)

(* The first k characters. *)
Upto(t, k) == SubSeq(t, 1, k)

(* The first characters of a text, one more at a time.                      *)
LEMMA UptoFacts ==
  ASSUME NEW A, NEW t \in Seq(A), NEW n \in Nat, n = Len(t)
  PROVE  /\ \A k \in 0..n : Upto(t, k) \in Seq(A) /\ Len(Upto(t, k)) = k
         /\ \A k \in 1..n : Upto(t, k) = Append(Upto(t, k - 1), t[k]) /\ t[k] \in A
<1>1. \A i \in 1..n : t[i] \in A
  BY ElementOfSeq
<1>2. ASSUME NEW k \in 0..n
      PROVE  Upto(t, k) \in Seq(A) /\ Len(Upto(t, k)) = k /\ \A i \in 1..k : Upto(t, k)[i] = t[i]
  <2>1. \A i \in 1..k : t[i] \in A
    BY <1>1
  <2>2. PICK u : u = SubSeq(t, 1, k)
    OBVIOUS
  <2>3. u \in Seq(A) /\ Len(u) = k /\ \A i \in 1..k : u[i] = t[i]
    BY <2>1, <2>2, SubSeqProperties
  <2> QED
    BY <2>2, <2>3 DEF Upto
<1>3. ASSUME NEW k \in 1..n PROVE Upto(t, k) = Append(Upto(t, k - 1), t[k])
  <2>1. PICK m \in 0..n : m = k - 1
    OBVIOUS
  <2>2. PICK s : s = Upto(t, m)
    OBVIOUS
  <2>3. s \in Seq(A) /\ Len(s) = m /\ \A i \in 1..m : s[i] = t[i]
    BY <1>2, <2>2
  <2>4. PICK w : w = Upto(t, k)
    OBVIOUS
  <2>5. w \in Seq(A) /\ Len(w) = m + 1 /\ w[m + 1] = t[k] /\ \A i \in 1..m : w[i] = t[i]
    BY <1>2, <2>1, <2>4
  <2>6. \A i \in 1..m : w[i] = s[i]
    BY <2>3, <2>5
  <2>7. Append(s, t[k]) = w
    BY <1>1, <2>3, <2>5, <2>6, Built
  <2> QED
    BY <2>1, <2>2, <2>4, <2>7
<1> QED
  BY <1>1, <1>2, <1>3

(* w comes after the first j characters, up to the kth. *)
Between(t, j, k, w) == w = SubSeq(t, j + 1, k) /\ Upto(t, k) = Upto(t, j) \o w

(* The first characters of a text, and those that come after them.          *)
LEMMA UptoGoesOn ==
  ASSUME NEW A, NEW t \in Seq(A), NEW n \in Nat, n = Len(t), NEW j \in 0..n, NEW k \in j..n
  PROVE  \E w \in Seq(A) : Between(t, j, k, w)
<1>1. 1 \in 1..n + 1 /\ j \in 1 - 1..n /\ k \in j..n
  OBVIOUS
<1>2. SubSeq(t, 1, j) \o SubSeq(t, j + 1, k) = SubSeq(t, 1, k)
  BY <1>1, ConcatAdjacentSubSeq
<1>3. \A i \in j + 1..k : t[i] \in A
  BY ElementOfSeq
<1>4. SubSeq(t, j + 1, k) \in Seq(A)
  BY <1>3, SubSeqProperties
<1> QED
  BY <1>2, <1>4 DEF Upto, Between

(* The first characters of a text, and the last of them.                    *)
LEMMA UptoPrevious ==
  ASSUME NEW A, NEW t \in Seq(A), NEW n \in Nat, n = Len(t), NEW k \in 1..n
  PROVE  \E u \in Seq(A), c \in A : IsAppend(u, c, Upto(t, k)) /\ c = t[k]
<1>1. PICK m \in 0..n : m = k - 1
  OBVIOUS
<1>2. Upto(t, m) \in Seq(A)
  BY UptoFacts
<1>3. Append(Upto(t, m), t[k]) = Upto(t, k) /\ t[k] \in A
  BY <1>1, UptoFacts
<1> QED
  BY <1>2, <1>3 DEF IsAppend

(* A request is not empty.                                                  *)
LEMMA NeverEmpty == ~WellFormed(<<>>)
<1>1. Cut(<<>>).lines = <<>>
  BY CutEmpty
<1>2. Len(Cut(<<>>).lines) = 0
  BY <1>1, EmptySeq
<1> QED
  BY <1>2 DEF WellFormed

(* The parser's verdict "good" on what there is of a text, with the meaning *)
(* of the request.                                                          *)
ReadAsRequest(t, k, j) ==
  LET q == parse(Parser, Upto(t, k))
  IN  /\ q.state = "good"
      /\ Meaning(Upto(t, j)) = [method |-> q.request.method, uri |-> q.request.uri,
                                headers |-> q.request.headers]

(* After a request the verdict stays, whatever comes.                       *)
LEMMA ReadOnce ==
  ASSUME NEW t \in Seq(Alphabet), NEW n \in Nat, n = Len(t), NEW j \in 0..n, NEW k \in j..n,
         WellFormed(Upto(t, j))
  PROVE  ReadAsRequest(t, k, j)
<1>1. PICK u \in Seq(Alphabet) : u = Upto(t, j)
  BY UptoFacts
<1>2. PICK w \in Seq(Alphabet) : Between(t, j, k, w)
  BY UptoGoesOn
<1>3. Upto(t, k) = u \o w
  BY <1>1, <1>2 DEF Between
<1>4. PICK p : p = parse(Parser, u)
  OBVIOUS
<1>5. /\ p.state = "good"
      /\ Meaning(u) = [method |-> p.request.method, uri |-> p.request.uri, headers |-> p.request.headers]
  BY <1>1, <1>4, WellFormedRead
<1>6. parse(p, w) = p
  BY <1>5, Absorbed DEF Verdicts
<1>7. parse(Parser, u \o w) = p
  BY <1>4, <1>6, ParseConcat
<1> QED
  BY <1>1, <1>3, <1>5, <1>7 DEF ReadAsRequest

(* And so does the other verdict.                                           *)
LEMMA BadStays ==
  ASSUME NEW t \in Seq(Alphabet), NEW n \in Nat, n = Len(t), NEW j \in 0..n, NEW k \in j..n,
         parse(Parser, Upto(t, j)).state = "bad"
  PROVE  parse(Parser, Upto(t, k)).state = "bad"
<1>1. PICK u \in Seq(Alphabet) : u = Upto(t, j)
  BY UptoFacts
<1>2. PICK w \in Seq(Alphabet) : Between(t, j, k, w)
  BY UptoGoesOn
<1>3. Upto(t, k) = u \o w
  BY <1>1, <1>2 DEF Between
<1>4. PICK p : p = parse(Parser, u)
  OBVIOUS
<1>5. parse(p, w) = p
  BY <1>1, <1>4, Absorbed DEF Verdicts
<1>6. parse(Parser, u \o w) = p
  BY <1>4, <1>5, ParseConcat
<1> QED
  BY <1>1, <1>3, <1>4, <1>6

(* The verdict "good" comes only when the first characters make a request.  *)
LEMMA GoodHas ==
  ASSUME NEW t \in Seq(Alphabet), NEW n \in Nat, n = Len(t), NEW k \in 0..n,
         parse(Parser, Upto(t, k)).state = "good"
  PROVE  \E j \in 1..k : WellFormed(Upto(t, j))
<1>1. PICK u \in Seq(Alphabet) : u = Upto(t, k)
  BY UptoFacts
<1>2. PICK a \in Seq(Alphabet), b \in Seq(Alphabet) : u = a \o b /\ WellFormed(a)
  BY <1>1, Sound DEF HasRequest
<1>3. PICK j \in Nat : j = Len(a)
  BY LenProperties
<1>4. PICK l \in Nat : l = Len(b)
  BY LenProperties
<1>5. Joins(u, a, b, j, l)
  BY <1>2, <1>3, <1>4, ConcatAt
<1>6. Len(u) = k
  BY <1>1, UptoFacts
<1>7. j \in 0..k
  BY <1>5, <1>6 DEF Joins
<1>8. a = Upto(t, j)
  <2>1. PICK w \in Seq(Alphabet) : w = Upto(t, j)
    BY <1>7, UptoFacts
  <2>2. Len(w) = j
    BY <1>7, <2>1, UptoFacts
  <2>3. PICK v \in Seq(Alphabet) : u = w \o v
    <3>1. j \in 0..n /\ k \in j..n
      BY <1>7
    <3>2. PICK v \in Seq(Alphabet) : Between(t, j, k, v)
      BY <3>1, UptoGoesOn
    <3> QED
      BY <1>1, <2>1, <3>2 DEF Between
  <2>4. PICK m \in Nat : m = Len(v)
    BY LenProperties
  <2>5. Joins(u, w, v, j, m)
    BY <2>2, <2>3, <2>4, ConcatAt
  <2>6. \A i \in 1..j : a[i] = w[i]
    BY <1>5, <1>6, <1>7, <2>5 DEF Joins
  <2>7. a = w
    BY <1>3, <2>2, <2>6, SeqEqual
  <2> QED
    BY <2>1, <2>7
<1>9. j # 0
  <2>1. ASSUME j = 0 PROVE FALSE
    <3>1. a = <<>>
      BY <1>3, <2>1, EmptySeq
    <3> QED
      BY <1>2, <3>1, NeverEmpty
  <2> QED
    BY <2>1
<1> QED
  BY <1>2, <1>7, <1>8, <1>9

(* A request ends with a newline.                                           *)
LEMMA EndsWithLF ==
  ASSUME NEW t \in Seq(Alphabet), NEW n \in Nat, n = Len(t), NEW k \in 1..n, WellFormed(Upto(t, k))
  PROVE  t[k] = LF
<1>1. PICK u \in Seq(Alphabet), c \in Alphabet : IsAppend(u, c, Upto(t, k)) /\ c = t[k]
  BY UptoPrevious
<1>2. Upto(t, k) = Append(u, c)
  BY <1>1 DEF IsAppend
<1>3. PICK lines \in Lines, rest \in Seq(Alphabet) : Cut(u) = [lines |-> lines, rest |-> rest]
  BY CutTypes
<1> QED
  BY <1>1, <1>2, <1>3, WellFormedAppend

(* Whatever has been read of the text, the parser is where reading it at    *)
(* once leads.                                                              *)
Parsed ==
  /\ text \in Seq(Alphabet) /\ arrived \in 0..Len(text)
  /\ parser = parse(Parser, Upto(text, arrived))

(* The parser has then read what the grammar says.                          *)
LEMMA ParsedReads == Parsed => ParsedAsWritten
<1> SUFFICES ASSUME Parsed PROVE ParsedAsWritten
  OBVIOUS
<1>1. PICK t \in Seq(Alphabet) : t = text
  BY DEF Parsed
<1>2. PICK n \in Nat : n = Len(t) /\ DOMAIN t = 1..n
  BY LenProperties
<1>3. PICK k \in 0..n : k = arrived
  BY <1>1, <1>2 DEF Parsed
<1>4. PICK q : q = parse(Parser, Upto(t, k))
  OBVIOUS
<1>5. parser = q
  BY <1>1, <1>3, <1>4 DEF Parsed
<1>6. PICK S : S = {i \in 1..n : WellFormed(Upto(t, i))}
  OBVIOUS
<1> DEFINE C == {i \in DOMAIN text : text[i] = LF /\ WellFormed(Beginning(i))}
<1>7. C = S
  <2>1. \A i \in 1..n : Beginning(i) = Upto(t, i)
    BY <1>1 DEF Beginning, Upto
  <2> QED
    BY <1>1, <1>2, <1>6, <2>1, EndsWithLF
<1>8. CASE S = {}
  <2>1. q.state # "good"
    BY <1>2, <1>4, <1>6, <1>8, GoodHas
  <2> QED
    BY <1>5, <1>7, <1>8, <2>1 DEF ParsedAsWritten
<1>9. CASE S # {}
  <2>1. PICK f \in S : \A i \in S : ~(i < f)
    <3>1. S \in SUBSET Nat
      BY <1>6
    <3> QED
      BY <1>9, <3>1, Least
  <2>2. f \in 1..n /\ WellFormed(Upto(t, f)) /\ \A i \in S : f <= i
    BY <1>6, <2>1
  <2>3. (CHOOSE i \in C : \A j \in C : i <= j) = f
    <3>1. \A i \in S : (\A j \in S : i <= j) => i = f
      BY <1>6, <2>1, <2>2
    <3>2. f \in S /\ \A j \in S : f <= j
      BY <2>2
    <3> HIDE DEF C
    <3>3. f \in C /\ (\A j \in C : f <= j) /\ \A i \in C : (\A j \in C : i <= j) => i = f
      BY <1>7, <3>1, <3>2
    <3> QED
      BY <3>3, Zenon
  <2>4. q.state # "bad"
    <3>1. CASE f <= k
      <4>1. ReadAsRequest(t, k, f)
        BY <1>2, <2>2, <3>1, ReadOnce
      <4> QED
        BY <1>4, <4>1 DEF ReadAsRequest
    <3>2. CASE ~(f <= k)
      <4>1. ReadAsRequest(t, f, f)
        BY <1>2, <2>2, ReadOnce
      <4>2. parse(Parser, Upto(t, f)).state = "good"
        BY <4>1 DEF ReadAsRequest
      <4>3. f \in k..n
        BY <2>2, <3>2
      <4> QED
        BY <1>2, <1>4, <4>2, <4>3, BadStays
    <3> QED
      BY <3>1, <3>2
  <2>5. q.state = "good" => f <= k
    <3>1. ASSUME q.state = "good" PROVE f <= k
      <4>1. PICK j \in 1..k : WellFormed(Upto(t, j))
        BY <1>2, <1>4, <3>1, GoodHas
      <4>2. j \in S
        BY <1>6, <4>1
      <4> QED
        BY <2>2, <4>1, <4>2
    <3> QED
      BY <3>1
  <2>6. f <= k => /\ q.state = "good"
                  /\ Meaning(Upto(t, f)) = [method |-> q.request.method, uri |-> q.request.uri,
                                            headers |-> q.request.headers]
    <3>1. ASSUME f <= k PROVE ReadAsRequest(t, k, f)
      BY <1>2, <2>2, <3>1, ReadOnce
    <3> QED
      BY <1>4, <3>1 DEF ReadAsRequest
  <2>7. Beginning(f) = Upto(t, f)
    BY <1>1 DEF Beginning, Upto
  <2>8. PICK g : g = CHOOSE i \in C : \A j \in C : i <= j
    OBVIOUS
  <2>9. /\ C # {} /\ parser.state # "bad"
        /\ (parser.state = "good") = (g <= arrived)
        /\ parser.state = "good" =>
             Meaning(Beginning(g)) = [method |-> parser.request.method, uri |-> parser.request.uri,
                                      headers |-> parser.request.headers]
    <3>1. g = f
      BY <2>3, <2>8
    <3> HIDE DEF C
    <3> QED
      BY <1>3, <1>5, <1>7, <1>9, <2>4, <2>5, <2>6, <2>7, <3>1
  <2> QED
    BY <2>8, <2>9, Zenon DEF ParsedAsWritten
<1> QED
  BY <1>8, <1>9

(* It is so before anything has been read.                                  *)
LEMMA InitParsed == Init => Parsed
<1> SUFFICES ASSUME Init PROVE Parsed
  OBVIOUS
<1>1. text \in Seq(Alphabet) /\ arrived = 0 /\ parser = Parser
  BY StreamAssumption DEF Init
<1>2. arrived \in 0..Len(text)
  BY <1>1, LenProperties
<1>3. Upto(text, 0) = <<>>
  BY SubSeqEmpty DEF Upto
<1> QED
  BY <1>1, <1>2, <1>3, ParseEmpty DEF Parsed

(* A chunk goes on from where the last one has left the parser. *)
LEMMA ChunkParsed ==
  ASSUME Parsed, NEW size \in Chunks, handle_read(size)
  PROVE  Parsed'
<1>1. PICK t \in Seq(Alphabet) : t = text
  BY DEF Parsed
<1>2. PICK n \in Nat : n = Len(t)
  BY LenProperties
<1>3. PICK k \in 0..n : k = arrived
  BY <1>1, <1>2 DEF Parsed
<1>4. size \in Nat /\ size > 0 /\ k < n
  BY <1>1, <1>2, <1>3, StreamAssumption DEF handle_read
<1>5. PICK e \in k..n : e = IF k + size < n THEN k + size ELSE n
  BY <1>4
<1>6. PICK w : w = SubSeq(t, k + 1, e)
  OBVIOUS
<1>7. w \in Seq(Alphabet) /\ Upto(t, e) = Upto(t, k) \o w /\ Len(w) = e - k
  <2>1. w \in Seq(Alphabet) /\ Upto(t, e) = Upto(t, k) \o w
    <3>1. PICK v \in Seq(Alphabet) : Between(t, k, e, v)
      BY <1>2, <1>5, UptoGoesOn
    <3> QED
      BY <1>6, <3>1 DEF Between
  <2>2. \A i \in k + 1..e : t[i] \in Alphabet
    BY <1>2, <1>5, ElementOfSeq
  <2>3. Len(w) = e - k
    BY <1>4, <1>5, <1>6, <2>2, SubSeqProperties
  <2> QED
    BY <2>1, <2>3
<1>8. text' = t /\ arrived' = k + Len(w) /\ parser' = parse(parser, w)
  BY <1>1, <1>2, <1>3, <1>5, <1>6 DEF handle_read
<1>9. arrived' = e
  BY <1>7, <1>8
<1>10. PICK u \in Seq(Alphabet) : u = Upto(t, k)
  BY <1>2, UptoFacts
<1>11. parser' = parse(parse(Parser, u), w)
  BY <1>1, <1>3, <1>8, <1>10 DEF Parsed
<1>12. parser' = parse(Parser, u \o w)
  BY <1>7, <1>11, ParseConcat
<1>13. parser' = parse(Parser, Upto(t, e))
  BY <1>7, <1>10, <1>12
<1> QED
  BY <1>2, <1>5, <1>8, <1>9, <1>13 DEF Parsed

(* It stays so with every step.                                             *)
LEMMA StepParsed == Parsed /\ [Next]_vars => Parsed'
<1> SUFFICES ASSUME Parsed, [Next]_vars PROVE Parsed'
  OBVIOUS
<1>1. ASSUME UNCHANGED request PROVE Parsed'
  BY <1>1 DEF Parsed, request
<1>2. CASE Read
  BY <1>2, ChunkParsed DEF Read
<1>3. CASE HandlerStep \/ Terminate
  <2>1. text' = <<>> /\ arrived' = 0 /\ parser' = Parser
    BY <1>3 DEF HandlerStep, HandlerWrites, start, StartFails, StartReturns, ListStreamer,
                HandlerDoes, Terminate
  <2>2. text' \in Seq(Alphabet) /\ arrived' \in 0..Len(text')
    BY <2>1, EmptySeq
  <2>3. Upto(text', arrived') = <<>>
    BY <2>1, SubSeqEmpty DEF Upto
  <2> QED
    BY <2>1, <2>2, <2>3, ParseEmpty DEF Parsed
<1>4. CASE handle_read_raw \/ handle_write
  BY <1>1, <1>4 DEF handle_read_raw, handle_write, Written, WriteFailed
<1>5. CASE image_callback \/ BadImage \/ restream_frame \/ CallbackStep
  BY <1>1, <1>5 DEF image_callback, BadImage, restream_frame, CallbackStep
<1>6. CASE HalfSecond \/ cleanup_inactive_streams \/ ClientStalls \/ ClientLeaves
  BY <1>1, <1>6 DEF HalfSecond, cleanup_inactive_streams, ClientStalls, ClientLeaves
<1>7. CASE UNCHANGED vars
  BY <1>1, <1>7 DEF vars
<1> QED
  BY <1>2, <1>3, <1>4, <1>5, <1>6, <1>7 DEF Next

(* The parser says "good" after the first characters that make a request,   *)
(* with its meaning, however the reads have cut it up, and "bad" only when  *)
(* nothing can make one any more (http_request_parser.cpp).                 *)
THEOREM RequestsRead == Spec => []ParsedAsWritten
<1> QED
  BY InitParsed, StepParsed, ParsedReads, PTL DEF Spec
=============================================================================
