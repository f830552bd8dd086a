-------------------------- MODULE HttpStreamProofs --------------------------
(***************************************************************************)
(* Theorems about HttpStream, for any number of requests and chunks.       *)
(***************************************************************************)
EXTENDS HttpStream, SequenceTheorems, TLAPS

-----------------------------------------------------------------------------
(* Short sequences.                                                         *)

\* One element, and two.
LEMMA Single ==
  ASSUME NEW p
  PROVE  /\ <<p>> # <<>> /\ Len(<<p>>) = 1 /\ Head(<<p>>) = p /\ Tail(<<p>>) = <<>>
         /\ Append(<<>>, p) = <<p>> /\ <<>> \o <<p>> = <<p>> /\ <<p>> \o <<>> = <<p>>
<1>1. <<p>> \in Seq({p}) /\ <<>> \in Seq({p})
  OBVIOUS
<1>2. Append(<<>>, p) = <<>> \o <<p>>
  BY <1>1, AppendIsConcat
<1> QED
  BY <1>1, <1>2

LEMMA Pair ==
  ASSUME NEW p, NEW q
  PROVE  /\ <<p, q>> # <<>> /\ Len(<<p, q>>) = 2 /\ Head(<<p, q>>) = p /\ Tail(<<p, q>>) = <<q>>
         /\ <<p>> \o <<q>> = <<p, q>> /\ Append(<<p>>, q) = <<p, q>>
<1> DEFINE S == {p, q}
<1>1. <<p>> \in Seq(S) /\ <<q>> \in Seq(S) /\ <<p, q>> \in Seq(S)
  OBVIOUS
<1>2. /\ <<p>> \o <<q>> \in Seq(S) /\ Len(<<p>> \o <<q>>) = 2
      /\ (<<p>> \o <<q>>)[1] = p /\ (<<p>> \o <<q>>)[2] = q
  OBVIOUS
<1>3. \A i \in 1..2 : (<<p>> \o <<q>>)[i] = <<p, q>>[i]
  BY <1>2
<1>4. <<p>> \o <<q>> = <<p, q>>
  BY <1>1, <1>2, <1>3, SeqEqual
<1>5. Append(<<p>>, q) = <<p>> \o <<q>>
  BY <1>1, AppendIsConcat
<1>6. <<p, q>> # <<>> /\ Len(<<p, q>>) = 2 /\ Head(<<p, q>>) = p /\ Tail(<<p, q>>) = <<q>>
  OBVIOUS
<1> QED
  BY <1>4, <1>5, <1>6

\* A sequence of one element.
LEMMA OnlyOne ==
  ASSUME NEW S, NEW s \in Seq(S), Len(s) = 1
  PROVE  s = <<Head(s)>> /\ Tail(s) = <<>>
<1>1. s # <<>> /\ s[1] \in S
  OBVIOUS
<1>2. Head(s) = s[1]
  BY <1>1
<1>3. <<s[1]>> \in Seq(S) /\ Len(<<s[1]>>) = 1
  BY <1>1
<1>4. s = <<s[1]>>
  BY <1>3, SeqEqual
<1> QED
  BY <1>2, <1>4, Single

\* What is in front of a sequence.
LEMMA Front ==
  ASSUME NEW S, NEW p \in S, NEW q \in S, NEW b \in Seq(S)
  PROVE  /\ <<p>> \o b # <<>> /\ Head(<<p>> \o b) = p /\ Tail(<<p>> \o b) = b
         /\ <<p, q>> \o b # <<>> /\ Head(<<p, q>> \o b) = p /\ Len(<<p, q>> \o b) > 1
<1>1. <<p>> \in Seq(S) /\ <<p, q>> \in Seq(S)
  OBVIOUS
<1> DEFINE s == <<p>> \o b
           t == <<p, q>> \o b
<1>2. /\ s \in Seq(S) /\ Len(s) = 1 + Len(b) /\ s[1] = p
      /\ \A i \in 1..Len(b) : s[i + 1] = b[i]
  BY <1>1
<1>3. t \in Seq(S) /\ Len(t) = 2 + Len(b) /\ t[1] = p
  BY <1>1
<1>4. Len(b) \in Nat
  BY LenProperties
<1> HIDE DEF s, t
<1>5. s # <<>> /\ Head(s) = p
  BY <1>2, <1>4
<1>6. Tail(s) = b
  <2>1. Tail(s) \in Seq(S) /\ Len(Tail(s)) = Len(b) /\ \A i \in 1..Len(b) : Tail(s)[i] = b[i]
    BY <1>2, <1>4, <1>5, HeadTailProperties
  <2> QED
    BY <2>1, SeqEqual
<1>7. t # <<>> /\ Head(t) = p /\ Len(t) > 1
  BY <1>3, <1>4
<1> QED
  BY <1>5, <1>6, <1>7 DEF s, t

-----------------------------------------------------------------------------
(* Type correctness.                                                        *)

USE BoundAssumption

Last == Len(sent)
Busy == {"auth", "gate", "body", "act", "stat", "open", "stream"}

\* What is on the way up was asked, and a body that is there is whole; a server
\* at work has a request; what is promised belongs to an open file; the client
\* has read an answer to each request but the one it waits for.
Parts ==
  /\ \A i \in 1..Len(up) : /\ up[i].of \in 1..Last
                           /\ up[i].part = "body" => ~sent[up[i].of].cut
  /\ pc \in Busy => cur \in 1..Last
  /\ pc \notin {"open", "stream"} => left = 0
  /\ pc = "open" => left > 0
  /\ text = "whole" => pc = "act" /\ ~sent[cur].cut
  /\ client = "reading" => due > 0
  /\ client \in {"idle", "reading"} => Len(got) = Last
  /\ client = "waiting" => Len(got) = Last - 1

Typed == TypeOK /\ Parts

LEMMA TypeInit == Init => Typed
<1> SUFFICES ASSUME Init PROVE Typed
  OBVIOUS
<1>1. /\ sent \in Seq(Request) /\ up \in Seq(Part) /\ down \in Seq(Part)
      /\ got \in Seq(0..MaxRequests)
      /\ Len(sent) = 0 /\ Len(up) = 0 /\ Len(got) = 0
  BY DEF Init
<1>2. Endless \in Nat /\ MaxSize \in Nat /\ MaxRequests \in Nat
  BY DEF Endless
<1>3. TypeOK
  <2>1. slipped \in BOOLEAN
    BY Zenon DEF Init
  <2> QED
    BY <1>1, <1>2, <2>1 DEF Init, TypeOK
<1>4. Parts
  BY <1>1 DEF Init, Parts, Busy, Last
<1> QED
  BY <1>3, <1>4 DEF Typed

\* A part that is written.
LEMMA PutTyped ==
  ASSUME Typed, NEW p \in Part, Put(p)
  PROVE  down' \in Seq(Part)
BY DEF Typed, TypeOK, Put

LEMMA AnswerTyped ==
  \A n \in 0..MaxRequests, c \in 0..Endless : Answer(n, c) \in Part /\ Chunk(n) \in Part
BY DEF Answer, Chunk, Part, Endless

\* The next request.
LEMMA TypeAsk == ASSUME Typed, NEW r \in Request, Ask(r) PROVE Typed'
<1> DEFINE n == Len(sent) + 1
           body == IF r.body = "none" \/ r.cut THEN <<>> ELSE <<BodyOf(n)>>
<1>1. n \in 1..MaxRequests /\ Len(sent) \in Nat
  BY DEF Ask, Typed, TypeOK
<1>2. sent' \in Seq(Request) /\ Len(sent') = n /\ sent'[n] = r /\ \A i \in 1..Last : sent'[i] = sent[i]
  BY <1>1 DEF Ask, Typed, TypeOK, Last
<1>3. HeadOf(n) \in Part /\ BodyOf(n) \in Part
  BY <1>1 DEF HeadOf, BodyOf, Part, Endless
<1>4. body \in Seq(Part) /\ Len(body) <= 1 /\ (Len(body) = 1 => body[1] = BodyOf(n) /\ ~r.cut)
  BY <1>3
<1>5. /\ <<HeadOf(n)>> \in Seq(Part)
      /\ up \in Seq(Part)
  BY <1>3 DEF Typed, TypeOK
<1> HIDE DEF body
<1>6. up' = up \o <<HeadOf(n)>> \o body
  BY DEF Ask, body
<1>7. /\ up' \in Seq(Part)
      /\ Len(up') = Len(up) + 1 + Len(body)
      /\ \A i \in 1..Len(up) : up'[i] = up[i]
      /\ up'[Len(up) + 1] = HeadOf(n)
      /\ Len(body) = 1 => up'[Len(up) + 2] = body[1]
  BY <1>4, <1>5, <1>6
<1>8. \A i \in 1..Len(up') : up'[i].of \in 1..n /\ (up'[i].part = "body" => ~sent'[up'[i].of].cut)
  <2> SUFFICES ASSUME NEW i \in 1..Len(up')
               PROVE  up'[i].of \in 1..n /\ (up'[i].part = "body" => ~sent'[up'[i].of].cut)
    OBVIOUS
  <2>1. CASE i \in 1..Len(up)
    BY <2>1, <1>1, <1>2, <1>7 DEF Typed, Parts, Last
  <2>2. CASE i = Len(up) + 1
    BY <2>2, <1>1, <1>7 DEF HeadOf
  <2>3. CASE i = Len(up) + 2 /\ Len(body) = 1
    BY <2>3, <1>1, <1>2, <1>4, <1>7 DEF BodyOf
  <2>4. Len(up) \in Nat /\ Len(body) \in Nat
    BY <1>4, <1>5, LenProperties
  <2>5. i \in 1..(Len(up) + 1 + Len(body))
    BY <1>7, Zenon
  <2>6. i \in 1..Len(up) \/ i = Len(up) + 1 \/ (i = Len(up) + 2 /\ Len(body) = 1)
    <3> DEFINE a == Len(up)
               b == Len(body)
    <3>1. a \in Nat /\ b \in Nat /\ b <= 1 /\ i \in 1..(a + 1 + b)
      BY <2>4, <2>5, <1>4, Zenon
    <3> HIDE DEF a, b
    <3>2. i \in 1..a \/ i = a + 1 \/ (i = a + 2 /\ b = 1)
      BY <3>1
    <3> QED
      BY <3>2, Zenon DEF a, b
  <2> QED
    BY <2>1, <2>2, <2>3, <2>6, Zenon
<1>9. TypeOK'
  <2>1. /\ due' = due /\ got' = got /\ pc' = pc /\ cur' = cur /\ text' = text /\ done' = done
        /\ unread' = unread /\ from' = from /\ left' = left /\ rest' = rest /\ size' = size
        /\ slipped' = slipped /\ spilt' = spilt
    BY DEF Ask, file, range, history
  <2>2. /\ cur \in 0..Len(sent) /\ done \subseteq 1..Len(sent) /\ unread \subseteq 1..Len(sent)
        /\ spilt \in 0..Len(sent)
    BY DEF Typed, TypeOK
  <2>3. cur \in 0..n /\ done \subseteq 1..n /\ unread \subseteq 1..n /\ spilt \in 0..n
    BY <2>2, <1>1
  <2>4. /\ cur' \in 0..Len(sent') /\ done' \subseteq 1..Len(sent') /\ unread' \subseteq 1..Len(sent')
        /\ spilt' \in 0..Len(sent')
    BY <2>1, <2>3, <1>2, Zenon
  <2>5. down' \in Seq(Part)
    BY DEF Ask, Typed, TypeOK
  <2>6. client' \in {"idle", "waiting", "reading", "gone"}
    BY DEF Ask
  <2>7. Len(sent') <= MaxRequests
    BY <1>1, <1>2
  <2>8. slipped' \in BOOLEAN
    BY <2>1, Zenon DEF Typed, TypeOK
  <2> QED
    BY <1>2, <1>7, <2>1, <2>4, <2>5, <2>6, <2>7, <2>8, Zenon DEF Typed, TypeOK
<1>10. Parts'
  <2>1. /\ got' = got /\ pc' = pc /\ cur' = cur /\ text' = text /\ left' = left /\ due' = due
        /\ client = "idle" /\ client' \in {"gone", "waiting"}
    BY DEF Ask, file, range, history
  <2>2. pc' \in Busy => cur' \in 1..n
    BY <2>1, <1>1 DEF Typed, Parts, Last
  <2>3. text' = "whole" => pc' = "act" /\ ~sent'[cur'].cut
    BY <2>1, <1>2 DEF Typed, Parts, Last, Busy
  <2>4. Len(got) = n - 1
    BY <2>1, <1>1 DEF Typed, Parts, Last
  <2>5. client' \notin {"idle", "reading"}
    BY <2>1
  <2> HIDE DEF n
  <2> QED
    BY <1>2, <1>8, <2>1, <2>2, <2>3, <2>4, <2>5 DEF Typed, Parts, Last
<1> QED
  BY <1>9, <1>10 DEF Typed

\* The client reads or goes.
LEMMA TypeClient == ASSUME Typed, ReadHead \/ ReadChunk \/ Leave PROVE Typed'
<1>1. /\ sent' = sent /\ up' = up /\ pc' = pc /\ cur' = cur /\ text' = text /\ done' = done
      /\ unread' = unread /\ from' = from /\ left' = left /\ rest' = rest /\ size' = size
      /\ slipped' = slipped /\ spilt' = spilt
  BY DEF ReadHead, ReadChunk, Leave, file, range, history
<1>2. /\ down' \in Seq(Part) /\ due' \in 0..Endless /\ got' \in Seq(0..MaxRequests)
      /\ client' \in {"idle", "waiting", "reading", "gone"}
  <2>1. Len(down) \in Nat /\ Len(got) \in Nat /\ Endless \in Nat
    BY LenProperties DEF Typed, TypeOK, Endless
  <2>2. CASE ReadHead
    <3>1. Head(down) \in Part /\ Tail(down) \in Seq(Part)
      BY <2>2, HeadTailProperties DEF ReadHead, Typed, TypeOK
    <3>2. Head(down).chunks \in 0..Endless /\ Head(down).of \in 0..MaxRequests
      BY <3>1 DEF Part
    <3>3. (IF Head(down).part = "head" THEN Head(down).of ELSE Bogus) \in 0..MaxRequests
      BY <3>2 DEF Bogus
    <3> QED
      BY <2>2, <3>1, <3>2, <3>3, AppendProperties DEF ReadHead, Typed, TypeOK
  <2>3. CASE ReadChunk
    BY <2>1, <2>3, HeadTailProperties DEF ReadChunk, Typed, TypeOK, Parts
  <2>4. CASE Leave
    BY <2>1, <2>4 DEF Leave, Typed, TypeOK
  <2> QED
    BY <2>2, <2>3, <2>4
<1>3. /\ client' = "reading" => due' > 0
      /\ client' \in {"idle", "reading"} => Len(got') = Last
      /\ client' = "waiting" => Len(got') = Last - 1
  <2>1. Len(got) \in Nat /\ Len(sent) \in Nat /\ got \in Seq(0..MaxRequests) /\ down \in Seq(Part)
    BY LenProperties DEF Typed, TypeOK
  <2>2. CASE ReadHead
    <3>1. Head(down) \in Part
      BY <2>2, HeadTailProperties DEF ReadHead, Typed, TypeOK
    <3>2. Head(down).chunks \in Nat
      BY <3>1 DEF Part, Endless
    <3>3. Len(got') = Len(got) + 1 /\ Len(got) = Last - 1
      BY <2>1, <2>2, AppendProperties DEF ReadHead, Typed, Parts
    <3> QED
      BY <2>1, <2>2, <3>2, <3>3 DEF ReadHead, Last
  <2>3. CASE ReadChunk
    BY <2>1, <2>3 DEF ReadChunk, Typed, TypeOK, Parts, Endless
  <2>4. CASE Leave
    BY <2>4 DEF Leave
  <2> QED
    BY <2>2, <2>3, <2>4
<1>4. TypeOK'
  <2>1. slipped' \in BOOLEAN
    BY <1>1, Zenon DEF Typed, TypeOK
  <2> QED
    BY <1>1, <1>2, <2>1, Zenon DEF Typed, TypeOK
<1>5. Parts'
  <2>1. Last' = Last
    BY <1>1, Zenon DEF Last
  <2> QED
    BY <1>1, <1>3, <2>1 DEF Typed, Parts, Busy
<1> QED
  BY <1>4, <1>5 DEF Typed

\* What a step of the server has to keep.
LEMMA TypeFrame ==
  ASSUME Typed, UNCHANGED clientside,
         up' = up \/ (up # <<>> /\ up' = Tail(up)) \/ up' = <<>>,
         down' \in Seq(Part),
         pc' \in {"line", "auth", "gate", "body", "act", "stat", "open", "stream", "closed"},
         cur' \in 0..Last, pc' \in Busy => cur' \in 1..Last,
         text' \in {"none", "cut", "whole"}, text' = "whole" => pc' = "act" /\ ~sent[cur'].cut,
         from' \in 0..MaxSize, left' \in 0..MaxSize, rest' \in 0..MaxSize, size' \in 0..MaxSize,
         pc' \notin {"open", "stream"} => left' = 0, pc' = "open" => left' > 0,
         done' \subseteq 1..Last, unread' \subseteq 1..Last, slipped' \in BOOLEAN,
         spilt' \in 0..Last
  PROVE  Typed'
<1>1. sent' = sent /\ client' = client /\ due' = due /\ got' = got /\ Last' = Last
  BY DEF clientside, Last
<1>2. /\ up' \in Seq(Part)
      /\ \A i \in 1..Len(up') : /\ up'[i].of \in 1..Last
                                /\ up'[i].part = "body" => ~sent[up'[i].of].cut
  <2>0. up \in Seq(Part) /\ Len(up) \in Nat
    BY LenProperties DEF Typed, TypeOK
  <2>1. CASE up' = up
    BY <2>0, <2>1 DEF Typed, Parts
  <2>2. CASE up # <<>> /\ up' = Tail(up)
    <3>1. /\ up' \in Seq(Part) /\ Len(up') = Len(up) - 1
          /\ \A i \in 1..Len(up') : up'[i] = up[i + 1]
      BY <2>0, <2>2, HeadTailProperties
    <3>2. \A i \in 1..Len(up') : i + 1 \in 1..Len(up)
      BY <2>0, <3>1
    <3> QED
      BY <3>1, <3>2 DEF Typed, Parts
  <2>3. CASE up' = <<>>
    BY <2>3
  <2> QED
    BY <2>1, <2>2, <2>3
<1>3. TypeOK'
  BY <1>1, <1>2, Zenon DEF Typed, TypeOK, Last
<1>4. Parts'
  BY <1>1, <1>2, Zenon DEF Typed, Parts
<1> QED
  BY <1>3, <1>4 DEF Typed

\* A step of the server, and of the file.
LEMMA TypeServer == ASSUME Typed, Server \/ \E k \in 0..MaxSize : Change(k) PROVE Typed'
<1> USE DEF vars, clientside, file, range, history
<1>1. /\ up \in Seq(Part) /\ down \in Seq(Part) /\ Last \in Nat /\ Last <= MaxRequests
      /\ cur \in 0..Last /\ cur \in 0..MaxRequests /\ Endless \in Nat
      /\ done \subseteq 1..Last /\ unread \subseteq 1..Last /\ spilt \in 0..Last
      /\ from \in 0..MaxSize /\ left \in 0..MaxSize /\ rest \in 0..MaxSize /\ size \in 0..MaxSize
      /\ text \in {"none", "cut", "whole"}
      /\ pc \in {"line", "auth", "gate", "body", "act", "stat", "open", "stream", "closed"}
  BY LenProperties DEF Typed, TypeOK, Last, Endless
<1>2. slipped \in BOOLEAN
  BY Zenon DEF Typed, TypeOK
<1>3. /\ pc \in Busy => cur \in 1..Last
      /\ pc \notin {"open", "stream"} => left = 0
      /\ pc = "open" => left > 0
      /\ text = "whole" => pc = "act" /\ ~sent[cur].cut
  BY Zenon DEF Typed, Parts
<1>4. \A n \in 0..MaxRequests, c \in 0..Endless :
        Put(Answer(n, c)) \/ Put(Chunk(n)) => down' \in Seq(Part)
  BY AnswerTyped, PutTyped
<1>5. 0 \in 0..Endless /\ Bogus \in 0..MaxRequests /\ 0 \in 0..MaxSize
  BY <1>1 DEF Bogus
<1>6. \A n \in 0..MaxRequests : Send(n) => down' \in Seq(Part) /\ pc' = "line"
  BY <1>4, <1>5 DEF Send
<1>7. CASE ReadLine
  <2>1. Len(up) \in Nat \ {0} /\ up[1] = Head(up) /\ 1 \in 1..Len(up)
    BY <1>1, <1>7, LenProperties, EmptySeq DEF ReadLine
  <2>2. Head(up).of \in 1..Last
    BY <2>1 DEF Typed, Parts
  <2>3. text # "whole" /\ left = 0
    BY <1>3, <1>7 DEF ReadLine
  <2> QED
    BY <1>1, <1>2, <1>7, <2>2, <2>3, TypeFrame DEF ReadLine, Busy
<1>8. CASE Garbled
  <2>1. down' \in Seq(Part)
    BY <1>4, <1>5, <1>8 DEF Garbled
  <2> QED
    BY <1>1, <1>2, <1>3, <1>8, <2>1, TypeFrame DEF Garbled, Busy
<1>9. CASE HangUp
  BY <1>1, <1>2, <1>3, <1>9, TypeFrame DEF HangUp, Busy
<1>10. CASE Refuse
  <2>1. down' \in Seq(Part) /\ pc' = "line" /\ cur \in 1..Last /\ left = 0 /\ text # "whole"
    BY <1>1, <1>3, <1>6, <1>10 DEF Refuse, Busy
  <2>2. unread' \subseteq 1..Last
    BY <1>1, <1>10, <2>1 DEF Refuse, Leaves
  <2> QED
    BY <1>1, <1>2, <1>10, <2>1, <2>2, TypeFrame DEF Refuse, Busy
<1>11. CASE Authorize
  BY <1>1, <1>2, <1>3, <1>11, TypeFrame DEF Authorize, Busy
<1>12. CASE Dispatch
  <2>1. cur \in 1..Last
    BY <1>3, <1>12 DEF Dispatch, Busy
  <2>2. unread' \subseteq 1..Last
    BY <1>1, <1>12, <2>1 DEF Dispatch, Leaves
  <2>3. pc' \in {"act", "stat", "body"} /\ left = 0 /\ text # "whole"
    BY <1>3, <1>12 DEF Dispatch
  <2> QED
    BY <1>1, <1>2, <1>12, <2>1, <2>2, <2>3, TypeFrame DEF Dispatch, Busy
<1>13. CASE ReadBody
  <2>1. cur \in 1..Last /\ left = 0
    BY <1>3, <1>13 DEF ReadBody, Busy
  <2>2. Pending => up # <<>> /\ ~sent[cur].cut
    <3> SUFFICES ASSUME Pending PROVE up # <<>> /\ ~sent[cur].cut
      OBVIOUS
    <3>1. up # <<>> /\ Head(up) = BodyOf(cur)
      BY DEF Pending
    <3>2. Len(up) \in Nat \ {0} /\ up[1] = Head(up) /\ 1 \in 1..Len(up)
      BY <1>1, <3>1, LenProperties, EmptySeq
    <3> QED
      BY <3>1, <3>2 DEF Typed, Parts, BodyOf
  <2>3. text' = "whole" => pc' = "act" /\ ~sent[cur].cut
    BY <1>13, <2>2 DEF ReadBody
  <2>4. up' = up \/ (up # <<>> /\ up' = Tail(up))
    BY <1>13, <2>2 DEF ReadBody
  <2>5. text' \in {"none", "cut", "whole"}
    BY <1>13 DEF ReadBody
  <2> QED
    BY <1>1, <1>2, <1>13, <2>1, <2>3, <2>4, <2>5, TypeFrame DEF ReadBody, Busy
<1>14. CASE CarryOut \/ Decline
  <2>1. /\ down' \in Seq(Part) /\ pc' = "line" /\ cur \in 1..Last /\ left = 0
        /\ text' = "none" /\ done' \subseteq 1..Last
    BY <1>1, <1>3, <1>6, <1>14 DEF CarryOut, Decline, Busy
  <2> QED
    BY <1>1, <1>2, <1>14, <2>1, TypeFrame DEF CarryOut, Decline, Busy
<1>15. CASE NoRange
  <2>1. down' \in Seq(Part) /\ left = 0 /\ text # "whole"
    BY <1>1, <1>3, <1>4, <1>15 DEF NoRange
  <2> QED
    BY <1>1, <1>2, <1>15, <2>1, TypeFrame DEF NoRange, Busy
<1>16. ASSUME NEW k \in 1..MaxSize, NEW n \in 0..(MaxSize - 1), Promise(k, n)
       PROVE  Typed'
  <2>1. k - n \in 1..MaxSize /\ n \in 0..MaxSize /\ k \in 0..MaxSize
    BY <1>16 DEF Promise
  <2>2. down' \in Seq(Part)
    BY <1>1, <1>4, <1>16, <2>1 DEF Promise, Endless
  <2>3. cur \in 1..Last /\ text # "whole"
    BY <1>3, <1>16 DEF Promise, Busy
  <2>4. slipped' \in BOOLEAN
    BY <1>16, Zenon DEF Promise
  <2>5. left' \in 0..MaxSize /\ left' > 0
    BY <1>16, <2>1 DEF Promise
  <2> QED
    BY <1>1, <1>5, <1>16, <2>1, <2>2, <2>3, <2>4, <2>5, TypeFrame DEF Promise, Busy
<1>17. CASE Open
  <2>1. rest' \in 0..MaxSize
    BY <1>1, <1>17 DEF Open
  <2> QED
    BY <1>1, <1>2, <1>3, <1>5, <1>17, <2>1, TypeFrame DEF Open, Busy
<1>18. ASSUME NEW c \in 1..ErrorSize, OpenFails(c)
       PROVE  Typed'
  <2>1. Chunk(cur) \in Part
    BY <1>1, <1>5, AnswerTyped
  <2>2. [i \in 1..c |-> Chunk(cur)] \in Seq(Part)
    BY <2>1
  <2>3. down' \in Seq(Part)
    BY <1>1, <1>18, <2>2 DEF OpenFails
  <2>4. pc' = "line" /\ text # "whole" /\ cur \in 1..Last
    BY <1>3, <1>18 DEF OpenFails, Busy
  <2>5. spilt' \in 0..Last
    BY <1>1, <1>18 DEF OpenFails
  <2> QED
    BY <1>1, <1>2, <1>5, <1>18, <2>3, <2>4, <2>5, TypeFrame DEF OpenFails, Busy
<1>19. CASE Stream
  <2>1. down' \in Seq(Part)
    BY <1>1, <1>4, <1>5, <1>19 DEF Stream
  <2>2. left' \in 0..MaxSize /\ rest' \in 0..MaxSize
    BY <1>1, <1>19 DEF Stream, More
  <2>3. cur \in 1..Last /\ text # "whole"
    BY <1>3, <1>19 DEF Stream, Busy
  <2> QED
    BY <1>1, <1>2, <1>19, <2>1, <2>2, <2>3, TypeFrame DEF Stream, Busy
<1>20. CASE Streamed
  BY <1>1, <1>2, <1>3, <1>5, <1>20, TypeFrame DEF Streamed, Busy
<1>21. ASSUME NEW k \in 0..MaxSize, Change(k)
       PROVE  Typed'
  <2>1. slipped' \in BOOLEAN
    BY <1>21, Zenon DEF Change
  <2> QED
    BY <1>1, <1>3, <1>21, <2>1, TypeFrame DEF Change, Busy
<1> QED
  BY <1>7, <1>8, <1>9, <1>10, <1>11, <1>12, <1>13, <1>14, <1>15, <1>16, <1>17, <1>18, <1>19, <1>20,
     <1>21 DEF Server

LEMMA TypeStep == ASSUME Typed, [Next]_vars PROVE Typed'
<1>1. CASE UNCHANGED vars
  <2>1. sent' = sent /\ up' = up /\ down' = down /\ pc' = pc /\ cur' = cur /\ text' = text
        /\ from' = from /\ left' = left /\ rest' = rest /\ size' = size /\ client' = client
        /\ due' = due /\ got' = got /\ done' = done /\ unread' = unread /\ slipped' = slipped
        /\ spilt' = spilt
    BY <1>1 DEF vars, clientside, file, range, history
  <2> QED
    BY <2>1, Zenon DEF Typed, TypeOK, Parts, Last
<1>2. CASE Next
  BY <1>2, TypeAsk, TypeClient, TypeServer DEF Next, Client, SeesClosed
<1> QED
  BY <1>1, <1>2

\* Every variable keeps to its type (HttpStream).
THEOREM TypeCorrect == Spec => []TypeOK
<1>1. Typed => TypeOK
  BY DEF Typed
<1> QED
  BY TypeInit, TypeStep, <1>1, PTL DEF Spec

-----------------------------------------------------------------------------
(* The steps of the server and of the file.                                 *)

\* What the server may do at each label.
ByLabel ==
  \/ pc = "line" /\ (ReadLine \/ Garbled \/ HangUp)
  \/ pc = "auth" /\ (Refuse \/ Authorize)
  \/ pc = "gate" /\ (Refuse \/ Dispatch)
  \/ pc = "body" /\ ReadBody
  \/ pc = "act" /\ (CarryOut \/ Decline)
  \/ pc = "stat" /\ (Refuse \/ NoRange \/ \E k \in 1..MaxSize, n \in 0..(MaxSize - 1) : Promise(k, n))
  \/ pc = "open" /\ (\/ Open \/ (\E c \in 1..ErrorSize : OpenFails(c))
                     \/ \E k \in 0..MaxSize : Change(k))
  \/ pc = "stream" /\ (Stream \/ Streamed)

Step == Server \/ \E k \in 0..MaxSize : Change(k)

LEMMA Labels == Step => ByLabel
<1>1. ASSUME NEW k \in 1..MaxSize, NEW n \in 0..(MaxSize - 1), Promise(k, n)
      PROVE  ByLabel
  BY <1>1 DEF ByLabel, Promise
<1>2. ASSUME NEW k \in 0..MaxSize, Change(k)
      PROVE  ByLabel
  BY <1>2 DEF ByLabel, Change
<1>3. ASSUME NEW c \in 1..ErrorSize, OpenFails(c)
      PROVE  ByLabel
  BY <1>3 DEF ByLabel, OpenFails
<1>4. /\ (ReadLine \/ Garbled \/ HangUp => pc = "line")
      /\ (Refuse => pc \in {"auth", "gate", "stat"})
      /\ (Authorize => pc = "auth") /\ (Dispatch => pc = "gate") /\ (ReadBody => pc = "body")
      /\ (CarryOut \/ Decline => pc = "act") /\ (NoRange => pc = "stat")
      /\ (Open => pc = "open") /\ (Stream \/ Streamed => pc = "stream")
  BY DEF ReadLine, Garbled, HangUp, Refuse, Authorize, Dispatch, ReadBody, CarryOut, Decline, NoRange,
     Open, Stream, Streamed
<1>5. Refuse => (pc = "auth" /\ Refuse) \/ (pc = "gate" /\ Refuse) \/ (pc = "stat" /\ Refuse)
  BY <1>4
<1> QED
  BY <1>1, <1>2, <1>3, <1>4, <1>5, Zenon DEF Step, ByLabel, Server

\* They leave the client alone.
LEMMA Aside ==
  ASSUME Step
  PROVE  sent' = sent /\ client' = client /\ due' = due /\ got' = got /\ Last' = Last
<1>1. ASSUME NEW k \in 1..MaxSize, NEW n \in 0..(MaxSize - 1), Promise(k, n)
      PROVE  UNCHANGED clientside
  BY <1>1 DEF Promise
<1>2. ASSUME NEW k \in 0..MaxSize, Change(k)
      PROVE  UNCHANGED clientside
  BY <1>2 DEF Change
<1>3. ASSUME NEW c \in 1..ErrorSize, OpenFails(c)
      PROVE  UNCHANGED clientside
  BY <1>3 DEF OpenFails
<1>4. UNCHANGED clientside
  BY <1>1, <1>2, <1>3 DEF Step, Server, ReadLine, Garbled, HangUp, Refuse, Authorize, Dispatch, ReadBody,
     CarryOut, Decline, NoRange, Open, Stream, Streamed
<1> QED
  BY <1>4 DEF clientside, Last

\* A part that is written comes behind what is there; so do several.
LEMMA Behind ==
  ASSUME Typed, NEW p, down' = Append(down, p)
  PROVE  /\ Len(down') = Len(down) + 1 /\ down' # <<>> /\ down'[Len(down')] = p
         /\ \A i \in 1..Len(down) : down'[i] = down[i]
         /\ down # <<>> => Head(down') = Head(down)
         /\ down = <<>> => down' = <<p>>
<1> DEFINE S == Part \cup {p}
<1>1. down \in Seq(S) /\ p \in S /\ Len(down) \in Nat
  BY LenProperties DEF Typed, TypeOK
<1>2. /\ down' \in Seq(S) /\ Len(down') = Len(down) + 1 /\ down'[Len(down) + 1] = p
      /\ \A i \in 1..Len(down) : down'[i] = down[i]
  BY <1>1, AppendProperties
<1> HIDE DEF S
<1>3. down' # <<>> /\ down'[Len(down')] = p
  BY <1>1, <1>2
<1>4. down # <<>> => Head(down') = Head(down)
  BY <1>1, <1>2, <1>3
<1>5. down = <<>> => down' = <<p>>
  BY Single
<1> QED
  BY <1>2, <1>3, <1>4, <1>5

LEMMA BehindMany ==
  ASSUME Typed, NEW c \in Nat, down' = down \o [i \in 1..c |-> Chunk(cur)]
  PROVE  /\ Len(down') = Len(down) + c
         /\ \A i \in 1..Len(down) : down'[i] = down[i]
         /\ \A i \in (Len(down) + 1)..(Len(down) + c) : down'[i].part = "chunk"
         /\ down # <<>> => down' # <<>> /\ Head(down') = Head(down)
<1> DEFINE t == [i \in 1..c |-> Chunk(cur)]
<1>1. down \in Seq(Part) /\ Len(down) \in Nat /\ t \in Seq(Part) /\ Len(t) = c
  <2>1. Chunk(cur) \in Part
    BY LenProperties, AnswerTyped DEF Typed, TypeOK, Endless
  <2> QED
    BY <2>1, LenProperties DEF Typed, TypeOK
<1>2. \A i \in 1..c : t[i] = Chunk(cur)
  OBVIOUS
<1> HIDE DEF t
<1>3. /\ down' \in Seq(Part) /\ Len(down') = Len(down) + c
      /\ \A i \in 1..Len(down) : down'[i] = down[i]
      /\ \A i \in 1..c : down'[Len(down) + i] = t[i]
  <2>1. down' = down \o t
    BY DEF t
  <2>2. /\ down \o t \in Seq(Part) /\ Len(down \o t) = Len(down) + c
        /\ \A i \in 1..(Len(down) + c) :
             (down \o t)[i] = IF i <= Len(down) THEN down[i] ELSE t[i - Len(down)]
    BY <1>1, ConcatProperties
  <2>3. \A i \in 1..Len(down) : (down \o t)[i] = down[i]
    BY <1>1, <2>2
  <2>4. \A i \in 1..c : (down \o t)[Len(down) + i] = t[i]
    BY <1>1, <2>2
  <2> QED
    BY <2>1, <2>2, <2>3, <2>4
<1>4. ASSUME NEW i \in (Len(down) + 1)..(Len(down) + c) PROVE down'[i].part = "chunk"
  <2>1. i - Len(down) \in 1..c /\ Len(down) + (i - Len(down)) = i
    BY <1>1
  <2>2. down'[i] = Chunk(cur)
    BY <1>2, <1>3, <2>1
  <2> QED
    BY <2>2 DEF Chunk
<1>5. down # <<>> => down' # <<>> /\ Head(down') = Head(down)
  BY <1>1, <1>3
<1> QED
  BY <1>3, <1>4, <1>5

\* What is on the way down stays until the client takes it.
LEMMA Kept ==
  ASSUME Typed, Step, client # "gone"
  PROVE  Len(down') >= Len(down) /\ \A i \in 1..Len(down) : down'[i] = down[i]
<1>1. Len(down) \in Nat
  BY LenProperties DEF Typed, TypeOK
<1>2. ASSUME NEW p, Put(p)
      PROVE  Len(down') >= Len(down) /\ \A i \in 1..Len(down) : down'[i] = down[i]
  <2>1. down' = Append(down, p)
    BY <1>2 DEF Put
  <2> QED
    BY <1>1, <2>1, Behind
<1>3. ASSUME down' = down
      PROVE  Len(down') >= Len(down) /\ \A i \in 1..Len(down) : down'[i] = down[i]
  BY <1>1, <1>3
<1>4. CASE ReadLine \/ HangUp \/ Authorize \/ Dispatch \/ ReadBody \/ Open \/ Streamed
  BY <1>3, <1>4 DEF ReadLine, HangUp, Authorize, Dispatch, ReadBody, Open, Streamed
<1>5. CASE Garbled \/ Refuse \/ CarryOut \/ Decline \/ NoRange \/ Stream
  BY <1>2, <1>5 DEF Garbled, Refuse, CarryOut, Decline, NoRange, Stream, Send
<1>6. ASSUME NEW k \in 1..MaxSize, NEW n \in 0..(MaxSize - 1), Promise(k, n)
      PROVE  Len(down') >= Len(down) /\ \A i \in 1..Len(down) : down'[i] = down[i]
  BY <1>2, <1>6 DEF Promise
<1>7. ASSUME NEW k \in 0..MaxSize, Change(k)
      PROVE  Len(down') >= Len(down) /\ \A i \in 1..Len(down) : down'[i] = down[i]
  BY <1>3, <1>7 DEF Change
<1>8. ASSUME NEW c \in 1..ErrorSize, OpenFails(c)
      PROVE  Len(down') >= Len(down) /\ \A i \in 1..Len(down) : down'[i] = down[i]
  <2>1. down' = down \o [i \in 1..c |-> Chunk(cur)] /\ c \in Nat
    BY <1>8 DEF OpenFails
  <2> QED
    BY <1>1, <2>1, BehindMany
<1> QED
  BY <1>4, <1>5, <1>6, <1>7, <1>8 DEF Step, Server

\* The first 500 that is too long is the one that counts.
LEMMA SpiltStays == ASSUME Step, spilt # 0 PROVE spilt' = spilt
<1>1. ASSUME NEW c \in 1..ErrorSize, OpenFails(c) PROVE spilt' = spilt
  BY <1>1 DEF OpenFails
<1>2. ASSUME NEW k \in 1..MaxSize, NEW n \in 0..(MaxSize - 1), Promise(k, n) PROVE spilt' = spilt
  BY <1>2 DEF Promise
<1>3. ASSUME NEW k \in 0..MaxSize, Change(k) PROVE spilt' = spilt
  BY <1>3 DEF Change
<1> QED
  BY <1>1, <1>2, <1>3 DEF Step, Server, file, ReadLine, Garbled, HangUp, Refuse, Authorize, Dispatch,
     ReadBody, CarryOut, Decline, NoRange, Open, Stream, Streamed

-----------------------------------------------------------------------------
(* The file.                                                                *)

\* What is left of the file is what is left of the promise.
Measured == ~slipped => (pc = "open" => size - from = left) /\ (pc = "stream" => rest = left)

LEMMA MeasuredStep == ASSUME Typed, Measured, [Next]_vars PROVE Measured'
<1>1. /\ from \in Nat /\ left \in Nat /\ rest \in Nat /\ size \in Nat /\ MaxSize \in Nat
      /\ pc = "open" => left > 0
  BY DEF Typed, TypeOK, Parts
<1>2. ASSUME pc' \notin {"open", "stream"} PROVE Measured'
  BY <1>2 DEF Measured
<1>3. ASSUME NEW k \in 1..MaxSize, NEW n \in 0..(MaxSize - 1), Promise(k, n) PROVE Measured'
  BY <1>3 DEF Promise, Measured
<1>4. ASSUME NEW k \in 0..MaxSize, Change(k) PROVE Measured'
  BY <1>4 DEF Change, Measured
<1>5. CASE Open
  BY <1>1, <1>5 DEF Open, Measured
<1>6. CASE Stream
  BY <1>1, <1>6 DEF Stream, Measured
<1>7. CASE ReadLine \/ Garbled \/ HangUp \/ Refuse \/ Authorize \/ Dispatch \/ ReadBody
  BY <1>2, <1>7 DEF ReadLine, Garbled, HangUp, Refuse, Send, Authorize, Dispatch, ReadBody
<1>8. CASE CarryOut \/ Decline \/ NoRange \/ Streamed
  BY <1>2, <1>8 DEF CarryOut, Decline, NoRange, Streamed, Send
<1>9. ASSUME NEW c \in 1..ErrorSize, OpenFails(c) PROVE Measured'
  BY <1>2, <1>9 DEF OpenFails
<1>10. CASE ReadHead \/ ReadChunk \/ Leave \/ (\E r \in Request : Ask(r)) \/ UNCHANGED vars
  <2>1. pc' = pc /\ size' = size /\ from' = from /\ left' = left /\ rest' = rest /\ slipped' = slipped
    BY <1>10 DEF ReadHead, ReadChunk, Leave, Ask, file, range, vars
  <2> QED
    BY <2>1 DEF Measured
<1> QED
  BY <1>3, <1>4, <1>5, <1>6, <1>7, <1>8, <1>9, <1>10 DEF Next, Server, Client, SeesClosed

-----------------------------------------------------------------------------
(* Answers in step.                                                         *)

\* What is on the two streams while the client is idle, reads a file, or waits
\* for an answer that is not written yet, or is.
BodyIn(n) == IF sent[n].body = "none" THEN <<>> ELSE <<BodyOf(n)>>
BodyLeft == up = <<>> \/ (up = <<BodyOf(Last)>> /\ Last \in unread)

Idle == down = <<>> /\ left = 0 /\ pc \in {"line", "stream"} /\ BodyLeft

Reading ==
  /\ BodyLeft /\ Len(down) + left <= due /\ pc \in {"line", "open", "stream"}
  /\ pc = "open" => cur = Last /\ down = <<>> /\ due = left

Unanswered ==
  /\ down = <<>> /\ left = 0 /\ Last \notin done
  /\ \/ pc \in {"line", "stream"} /\ up = <<HeadOf(Last)>> \o BodyIn(Last)
     \/ /\ pc \in {"line", "stream"} /\ Last - 1 \in unread
        /\ up = <<BodyOf(Last - 1), HeadOf(Last)>> \o BodyIn(Last)
     \/ pc \in {"auth", "gate", "body"} /\ cur = Last /\ up = BodyIn(Last)
     \/ pc \in {"act", "stat"} /\ cur = Last /\ BodyLeft

Written ==
  /\ down # <<>> /\ Head(down) = Answer(Last, Head(down).chunks)
  /\ Len(down) + left <= Head(down).chunks + 1
  /\ BodyLeft /\ pc \in {"line", "open", "stream"}
  /\ pc = "open" => cur = Last /\ down = <<Answer(Last, left)>>

InOrder == \A i \in 1..Len(got) : got[i] = i

\* While both are there.
Live == client # "gone" /\ pc # "closed" /\ spilt = 0 =>
  /\ InOrder
  /\ client = "idle" => Idle
  /\ client = "reading" => Reading
  /\ client = "waiting" => Unanswered \/ Written

\* Once the server has closed, what is left to read ends with the answer to a
\* body taken for a request.
Nonsense == <<Answer(Bogus, 0)>>
Ended(n) == Len(down) <= n /\ down[Len(down)] = Answer(Bogus, 0)
Closed == client # "gone" /\ pc = "closed" /\ spilt = 0 =>
  /\ client = "idle" => down = <<>> \/ (down = Nonsense /\ InOrder /\ Last \in unread)
  /\ client = "reading" =>
       /\ InOrder /\ Last \in unread
       /\ down = <<>> \/ Ended(due + 1)
  /\ client = "waiting" =>
       \/ down = <<>>
       \/ down = Nonsense /\ InOrder /\ Last \notin done /\ \E k \in unread : k < Last
       \/ /\ Len(down) > 1 /\ Head(down) = Answer(Last, Head(down).chunks)
          /\ Ended(Head(down).chunks + 2) /\ InOrder /\ Last \in unread

\* Once a 500 was longer than its range: more chunks than the client expects.
Chunks(i, j) == Len(down) >= j /\ \A k \in i..j : down[k].part = "chunk"
Spill == client # "gone" /\ spilt # 0 =>
  /\ InOrder
  /\ \/ /\ Last = spilt /\ slipped /\ BodyLeft /\ pc \in {"line", "closed"}
        /\ \/ client = "idle" /\ Chunks(1, 1)
           \/ client = "reading" /\ due # Endless /\ Chunks(1, due + 1)
           \/ /\ client = "waiting" /\ down # <<>> /\ Head(down).chunks # Endless
              /\ Head(down) = Answer(Last, Head(down).chunks) /\ Chunks(2, Head(down).chunks + 2)
     \/ Last = spilt + 1 /\ client = "waiting" /\ Chunks(1, 1)

StreamInv == Live /\ Closed /\ Spill /\ InStep

LEMMA StreamInit == Init => StreamInv
BY DEF Init, StreamInv, Live, Closed, Spill, InStep, InOrder, Idle, BodyLeft

\* The next request.
LEMMA StreamAsk == ASSUME Typed, StreamInv, NEW r \in Request, Ask(r) PROVE StreamInv'
<1> DEFINE n == Last + 1
<1>1. /\ pc' = pc /\ down' = (IF r.cut THEN <<>> ELSE down) /\ left' = left /\ done' = done
      /\ unread' = unread /\ got' = got /\ cur' = cur /\ client = "idle" /\ spilt' = spilt
      /\ client' = IF r.cut THEN "gone" ELSE "waiting"
  BY DEF Ask, file, range, history
<1>2. /\ Last \in Nat /\ sent' = Append(sent, r) /\ sent \in Seq(Request)
      /\ done \subseteq 1..Last /\ unread \subseteq 1..Last
  BY LenProperties DEF Ask, Typed, TypeOK, Last
<1>3. Last' = n /\ sent'[n] = r
  BY <1>2, AppendProperties DEF Last
<1>4. InOrder' <=> InOrder
  BY <1>1 DEF InOrder
<1>5. InStep'
  BY <1>1 DEF StreamInv, InStep
<1>6. CASE r.cut
  BY <1>1, <1>5, <1>6 DEF StreamInv, Live, Closed, Spill
<1>7. CASE ~r.cut
  <2> DEFINE b == IF r.body = "none" THEN <<>> ELSE <<BodyOf(n)>>
  <2>1. BodyIn(Last)' = b
    BY <1>3 DEF BodyIn, BodyOf
  <2>2. up' = up \o <<HeadOf(n)>> \o b
    BY <1>7 DEF Ask, Last
  <2> HIDE DEF b
  <2>3. CASE pc # "closed" /\ spilt = 0
    <3>1. Idle /\ InOrder
      BY <1>1, <2>3 DEF StreamInv, Live
    <3>2. n \notin done
      BY <1>2
    <3>3. Unanswered'
      <4>1. down' = <<>> /\ left' = 0 /\ Last' \notin done' /\ pc' \in {"line", "stream"}
        BY <1>1, <1>3, <1>7, <3>1, <3>2 DEF Idle
      <4>2. CASE up = <<>>
        <5>1. up' = <<HeadOf(n)>> \o b
          BY <2>2, <4>2, Single
        <5>2. up' = <<HeadOf(Last)>>' \o BodyIn(Last)'
          BY <1>1, <1>3, <2>1, <3>1, <5>1 DEF HeadOf
        <5> QED
          BY <4>1, <5>2 DEF Unanswered
      <4>3. CASE up = <<BodyOf(Last)>> /\ Last \in unread
        <5>1. up' = <<BodyOf(Last), HeadOf(n)>> \o b
          BY <2>2, <4>3, Pair
        <5>2. Last' - 1 = Last
          BY <1>2, <1>3
        <5>3. /\ Last' - 1 \in unread'
              /\ up' = <<BodyOf(Last' - 1), HeadOf(Last')>> \o BodyIn(Last)'
          BY <1>1, <1>3, <2>1, <4>3, <5>1, <5>2
        <5> QED
          BY <4>1, <5>3 DEF Unanswered, BodyOf, HeadOf
      <4> QED
        BY <3>1, <4>2, <4>3 DEF Idle, BodyLeft
    <3> QED
      BY <1>1, <1>4, <1>5, <1>7, <2>3, <3>1, <3>3 DEF StreamInv, Live, Closed, Spill
  <2>4. CASE pc = "closed" /\ spilt = 0
    <3>1. down = <<>> \/ (down = Nonsense /\ InOrder /\ Last \in unread)
      BY <1>1, <2>4 DEF StreamInv, Closed
    <3>2. down' = down /\ Nonsense' = Nonsense
      BY <1>1, <1>7 DEF Nonsense, Answer
    <3>3. Last \in unread => Last' \notin done' /\ \E k \in unread' : k < Last'
      BY <1>1, <1>2, <1>3
    <3> QED
      BY <1>1, <1>4, <1>5, <1>7, <2>4, <3>1, <3>2, <3>3 DEF StreamInv, Live, Closed, Spill
  <2>5. CASE spilt # 0
    <3>1. Last = spilt /\ Chunks(1, 1) /\ InOrder
      BY <1>1, <2>5 DEF StreamInv, Spill
    <3>2. Chunks(1, 1)' /\ Last' = spilt' + 1
      BY <1>1, <1>3, <1>7, <3>1 DEF Chunks
    <3> QED
      BY <1>1, <1>4, <1>5, <1>7, <2>5, <3>1, <3>2 DEF StreamInv, Live, Closed, Spill
  <2> QED
    BY <2>3, <2>4, <2>5
<1> QED
  BY <1>6, <1>7

\* The client reads an answer.
LEMMA StreamHead == ASSUME Typed, StreamInv, ReadHead PROVE StreamInv'
<1> DEFINE p == Head(down)
<1>1. /\ pc' = pc /\ up' = up /\ left' = left /\ done' = done /\ unread' = unread /\ cur' = cur
      /\ sent' = sent /\ Last' = Last /\ client = "waiting" /\ down # <<>> /\ down' = Tail(down)
      /\ due' = p.chunks /\ got' = Append(got, IF p.part = "head" THEN p.of ELSE Bogus)
      /\ client' = IF p.part = "chunk" THEN "gone" ELSE IF p.chunks = 0 THEN "idle" ELSE "reading"
      /\ spilt' = spilt /\ slipped' = slipped
  BY DEF ReadHead, file, range, history, Last
<1>2. /\ Last \in Nat /\ Last <= MaxRequests /\ got \in Seq(0..MaxRequests) /\ Len(got) = Last - 1
      /\ Len(got) \in Nat /\ down \in Seq(Part) /\ Len(down) \in Nat /\ left \in Nat /\ p \in Part
      /\ pc = "open" => left > 0
  BY <1>1, LenProperties, HeadTailProperties DEF Typed, TypeOK, Parts, Last
<1>3. /\ down' \in Seq(Part) /\ Len(down') \in Nat /\ Len(down') = Len(down) - 1
      /\ \A i \in 1..Len(down') : down'[i] = down[i + 1]
      /\ p.chunks \in Nat
  <2>1. p.chunks \in Nat
    BY <1>2 DEF Part, Endless
  <2> QED
    BY <1>1, <1>2, <2>1, LenProperties, HeadTailProperties
<1>4. \A x \in 0..MaxRequests : got' = Append(got, x) =>
        /\ Len(got') = Last /\ got'[Last] = x /\ \A i \in 1..(Last - 1) : got'[i] = got[i]
  BY <1>2, AppendProperties
<1>5. ASSUME got' = Append(got, Last), InOrder
      PROVE  InOrder' /\ InStep'
  <2>1. Last \in 0..MaxRequests
    BY <1>2
  <2>2. Len(got') = Last /\ got'[Last] = Last /\ \A i \in 1..(Last - 1) : got'[i] = got[i]
    BY <1>4, <1>5, <2>1
  <2>3. \A i \in 1..Last : i = Last \/ i \in 1..(Last - 1)
    BY <1>2
  <2>4. InOrder'
    BY <1>2, <1>5, <2>2, <2>3 DEF InOrder
  <2> QED
    BY <2>4 DEF InOrder, InStep
\* The nonsense that an earlier request is to blame for.
<1>6. ASSUME got' = Append(got, Bogus), InOrder,
             \/ Last \notin done /\ pc = "closed" /\ \E k \in unread : k < Last
             \/ Last - 1 = spilt /\ spilt # 0 /\ client' = "gone"
      PROVE  InStep'
  <2>1. Bogus \in 0..MaxRequests
    BY DEF Bogus
  <2>2. Len(got') = Last /\ got'[Last] = Bogus /\ \A i \in 1..(Last - 1) : got'[i] = got[i]
    BY <1>4, <1>6, <2>1
  <2> SUFFICES ASSUME NEW i \in 1..Last
               PROVE  \/ got'[i] = i
                      \/ /\ got'[i] = Bogus /\ i = Last
                         /\ \/ (\E k \in unread' : k < i) /\ i \notin done' /\ pc' = "closed"
                            \/ i - 1 = spilt' /\ spilt' # 0 /\ client' = "gone"
    BY <2>2 DEF InStep
  <2>3. CASE i \in 1..(Last - 1)
    BY <1>2, <1>6, <2>2, <2>3 DEF InOrder
  <2>4. CASE i = Last
    BY <1>1, <1>6, <2>2, <2>4
  <2> QED
    BY <1>2, <2>3, <2>4
<1>7. CASE pc # "closed" /\ spilt = 0
  <2>1. Written /\ InOrder
    BY <1>1, <1>7 DEF StreamInv, Live, Unanswered
  <2>2. p = Answer(Last, p.chunks)
    BY <2>1 DEF Written
  <2>3. p.part = "head" /\ p.of = Last
    BY <2>2 DEF Answer
  <2>4. InOrder' /\ InStep'
    BY <1>1, <1>5, <2>1, <2>3
  <2>5. /\ Len(down) + left <= p.chunks + 1 /\ pc \in {"line", "open", "stream"}
        /\ pc = "open" => cur = Last /\ down = <<Answer(Last, left)>>
    BY <2>1 DEF Written
  <2>6. BodyLeft'
    BY <1>1, <2>1 DEF Written, BodyLeft, BodyOf
  <2>7. CASE p.chunks = 0
    <3>1. Len(down') = 0 /\ left = 0
      BY <1>2, <1>3, <2>5, <2>7
    <3>2. down' = <<>> /\ pc # "open"
      BY <1>2, <1>3, <3>1, EmptySeq
    <3>3. Idle'
      BY <1>1, <2>5, <2>6, <3>1, <3>2 DEF Idle
    <3> QED
      BY <1>1, <1>7, <2>3, <2>4, <2>7, <3>3 DEF StreamInv, Live, Closed, Spill
  <2>8. CASE p.chunks # 0
    <3>1. Len(down') + left <= p.chunks
      BY <1>2, <1>3, <2>5
    <3>2. pc = "open" => cur = Last /\ down' = <<>> /\ due' = left
      <4> SUFFICES ASSUME pc = "open" PROVE cur = Last /\ down' = <<>> /\ due' = left
        OBVIOUS
      <4>1. p = Answer(Last, left) /\ down' = <<>> /\ cur = Last
        BY <1>1, <2>5, Single
      <4> QED
        BY <1>1, <4>1 DEF Answer
    <3>3. Reading'
      BY <1>1, <2>5, <2>6, <3>1, <3>2 DEF Reading
    <3> QED
      BY <1>1, <1>7, <2>3, <2>4, <2>8, <3>3 DEF StreamInv, Live, Closed, Spill
  <2> QED
    BY <2>7, <2>8
<1>8. CASE pc = "closed" /\ spilt = 0
  <2>1. CASE down = Nonsense /\ InOrder /\ Last \notin done /\ \E k \in unread : k < Last
    <3>1. p = Answer(Bogus, 0) /\ down' = <<>>
      BY <1>1, <2>1, Single DEF Nonsense
    <3>2. p.part = "head" /\ p.of = Bogus /\ p.chunks = 0
      BY <3>1 DEF Answer
    <3>3. InStep'
      BY <1>1, <1>6, <1>8, <2>1, <3>2
    <3> QED
      BY <1>1, <1>8, <3>1, <3>2, <3>3 DEF StreamInv, Live, Closed, Spill
  <2>2. CASE /\ Len(down) > 1 /\ Head(down) = Answer(Last, Head(down).chunks)
             /\ Ended(Head(down).chunks + 2) /\ InOrder /\ Last \in unread
    <3>1. p.part = "head" /\ p.of = Last
      BY <2>2 DEF Answer
    <3>2. InOrder' /\ InStep'
      BY <1>1, <1>5, <2>2, <3>1
    <3>3. Len(down') > 0 /\ Len(down') <= p.chunks + 1 /\ down'[Len(down')] = Answer(Bogus, 0)
      <4>1. Len(down) <= p.chunks + 2 /\ down[Len(down)] = Answer(Bogus, 0)
        BY <2>2 DEF Ended
      <4>2. Len(down') \in 1..Len(down') /\ Len(down') + 1 = Len(down)
        BY <1>2, <1>3, <2>2
      <4> QED
        BY <1>2, <1>3, <2>2, <4>1, <4>2
    <3>4. CASE p.chunks = 0
      <4>1. Len(down') = 1
        BY <1>3, <3>3, <3>4
      <4>2. down' = <<down'[1]>> /\ down'[1] = Answer(Bogus, 0)
        BY <1>3, <3>3, <4>1, OnlyOne
      <4>3. down' = Nonsense'
        BY <4>2 DEF Nonsense, Answer
      <4> QED
        BY <1>1, <1>8, <2>2, <3>1, <3>2, <3>4, <4>3 DEF StreamInv, Live, Closed, Spill
    <3>5. CASE p.chunks # 0
      <4>1. Ended(due + 1)'
        BY <1>1, <3>3 DEF Ended, Answer
      <4>2. client' = "reading"
        BY <1>1, <3>1, <3>5
      <4> QED
        BY <1>1, <1>8, <2>2, <3>2, <4>1, <4>2 DEF StreamInv, Live, Closed, Spill
    <3> QED
      BY <3>4, <3>5
  <2> QED
    BY <1>1, <1>8, <2>1, <2>2 DEF StreamInv, Closed
<1>9. CASE spilt # 0
  <2>1. CASE Last = spilt
    <3>1. /\ slipped /\ BodyLeft /\ pc \in {"line", "closed"} /\ InOrder /\ p.chunks # Endless
          /\ p = Answer(Last, p.chunks) /\ Chunks(2, p.chunks + 2)
      <4>1. Last # spilt + 1
        BY <1>2, <2>1
      <4> QED
        BY <1>1, <1>9, <2>1, <4>1 DEF StreamInv, Spill
    <3>2. p.part = "head" /\ p.of = Last
      BY <3>1 DEF Answer
    <3>3. InOrder' /\ InStep'
      BY <1>1, <1>5, <3>1, <3>2
    <3>4. BodyLeft' /\ Endless' = Endless
      BY <1>1, <3>1 DEF BodyLeft, BodyOf, Endless
    <3>5. Len(down') >= p.chunks + 1 /\ \A i \in 1..(p.chunks + 1) : down'[i].part = "chunk"
      <4>1. Len(down) >= p.chunks + 2 /\ \A i \in 2..(p.chunks + 2) : down[i].part = "chunk"
        BY <3>1 DEF Chunks
      <4>2. \A i \in 1..(p.chunks + 1) : i \in 1..Len(down') /\ i + 1 \in 2..(p.chunks + 2)
        BY <1>2, <1>3, <4>1
      <4>3. Len(down') >= p.chunks + 1
        BY <1>2, <1>3, <4>1
      <4> QED
        BY <1>3, <4>1, <4>2, <4>3
    <3>6. CASE p.chunks = 0
      <4>1. Chunks(1, 1)'
        BY <3>5, <3>6 DEF Chunks
      <4>2. client' = "idle"
        BY <1>1, <3>2, <3>6
      <4> QED
        BY <1>1, <1>9, <2>1, <3>1, <3>3, <3>4, <4>1, <4>2 DEF StreamInv, Live, Closed, Spill
    <3>7. CASE p.chunks # 0
      <4>1. Chunks(1, due + 1)' /\ due' # Endless'
        BY <1>1, <3>1, <3>4, <3>5 DEF Chunks
      <4>2. client' = "reading"
        BY <1>1, <3>2, <3>7
      <4> QED
        BY <1>1, <1>9, <2>1, <3>1, <3>3, <3>4, <4>1, <4>2 DEF StreamInv, Live, Closed, Spill
    <3> QED
      BY <3>6, <3>7
  <2>2. CASE Last = spilt + 1
    <3>1. Last # spilt /\ InOrder /\ Chunks(1, 1) /\ spilt \in Nat
      <4>1. spilt \in Nat
        BY DEF Typed, TypeOK
      <4>2. Last # spilt
        BY <2>2, <4>1
      <4> QED
        BY <1>1, <1>9, <4>1, <4>2 DEF StreamInv, Spill
    <3>2. p = down[1] /\ p.part = "chunk"
      BY <1>1, <1>2, <3>1 DEF Chunks
    <3>3. client' = "gone" /\ got' = Append(got, Bogus) /\ Last - 1 = spilt
      BY <1>1, <2>2, <3>1, <3>2
    <3>4. InStep'
      BY <1>6, <1>9, <3>1, <3>3
    <3> QED
      BY <3>3, <3>4 DEF StreamInv, Live, Closed, Spill
  <2> QED
    BY <1>1, <1>9, <2>1, <2>2 DEF StreamInv, Spill
<1> QED
  BY <1>7, <1>8, <1>9

\* It reads a chunk, or goes.
LEMMA StreamChunk == ASSUME Typed, StreamInv, ReadChunk \/ Leave PROVE StreamInv'
<1>1. /\ pc' = pc /\ up' = up /\ left' = left /\ done' = done /\ unread' = unread /\ cur' = cur
      /\ sent' = sent /\ Last' = Last /\ got' = got /\ spilt' = spilt /\ slipped' = slipped
      /\ client # "gone" /\ Endless' = Endless
  BY DEF ReadChunk, Leave, file, range, history, Last, Endless
<1>2. InStep' /\ (InOrder => InOrder')
  BY <1>1 DEF StreamInv, InStep, InOrder
<1>3. CASE Leave
  BY <1>2, <1>3 DEF Leave, StreamInv, Live, Closed, Spill
<1>4. CASE ReadChunk
  <2>1. /\ client = "reading" /\ down # <<>> /\ down' = Tail(down)
        /\ due' = (IF due = Endless THEN due ELSE due - 1)
        /\ client' = IF due' = 0 THEN "idle" ELSE "reading"
    BY <1>4 DEF ReadChunk
  <2>2. /\ down \in Seq(Part) /\ Len(down) \in Nat /\ left \in Nat /\ due \in Nat /\ due > 0
        /\ pc = "open" => left > 0
    BY <2>1, LenProperties DEF Typed, TypeOK, Parts, Endless
  <2>3. /\ down' \in Seq(Part) /\ Len(down') \in Nat /\ Len(down') = Len(down) - 1
        /\ \A i \in 1..Len(down') : down'[i] = down[i + 1]
    BY <2>1, <2>2, LenProperties, HeadTailProperties
  <2>4. CASE pc # "closed" /\ spilt = 0
    <3>1. InOrder /\ Reading
      BY <2>1, <2>4 DEF StreamInv, Live
    <3>2. Len(down') + left <= due' /\ due' \in Nat /\ pc # "open"
      BY <2>1, <2>2, <2>3, <3>1 DEF Reading
    <3>3. BodyLeft'
      BY <1>1, <3>1 DEF Reading, BodyLeft, BodyOf
    <3>4. Reading'
      BY <1>1, <3>1, <3>2, <3>3 DEF Reading
    <3>5. ASSUME due' = 0 PROVE Idle'
      <4>1. Len(down') = 0 /\ left = 0
        BY <2>2, <2>3, <3>2, <3>5
      <4>2. down' = <<>>
        BY <2>3, <4>1, EmptySeq
      <4> QED
        BY <1>1, <3>1, <3>2, <3>3, <4>1, <4>2 DEF Idle, Reading
    <3> QED
      BY <1>1, <1>2, <2>1, <2>4, <3>1, <3>4, <3>5 DEF StreamInv, Live, Closed, Spill
  <2>5. CASE pc = "closed" /\ spilt = 0
    <3>1. InOrder /\ Last \in unread /\ Len(down) <= due + 1 /\ down[Len(down)] = Answer(Bogus, 0)
      BY <2>1, <2>5 DEF StreamInv, Closed, Ended
    <3>2. Len(down') <= due' + 1 /\ due' \in Nat
      BY <2>1, <2>2, <2>3, <3>1
    <3>3. down' # <<>> => down'[Len(down')] = Answer(Bogus, 0)
      <4> SUFFICES ASSUME down' # <<>> PROVE down'[Len(down')] = Answer(Bogus, 0)
        OBVIOUS
      <4>1. Len(down') \in 1..Len(down') /\ Len(down') + 1 = Len(down)
        BY <2>2, <2>3, EmptySeq
      <4> QED
        BY <2>3, <3>1, <4>1
    <3>4. down' = <<>> \/ Ended(due + 1)'
      BY <3>2, <3>3 DEF Ended, Answer
    <3>5. ASSUME due' = 0, down' # <<>> PROVE down' = Nonsense'
      <4>1. Len(down') = 1
        BY <2>3, <3>2, <3>5, EmptySeq
      <4>2. down' = <<down'[1]>> /\ down'[1] = Answer(Bogus, 0)
        BY <2>3, <3>3, <3>5, <4>1, OnlyOne
      <4> QED
        BY <4>2 DEF Nonsense, Answer
    <3> QED
      BY <1>1, <1>2, <2>1, <2>5, <3>1, <3>4, <3>5 DEF StreamInv, Live, Closed, Spill
  <2>6. CASE spilt # 0
    <3>1. /\ Last = spilt /\ slipped /\ BodyLeft /\ pc \in {"line", "closed"} /\ due # Endless
          /\ Chunks(1, due + 1) /\ InOrder
      BY <2>1, <2>6 DEF StreamInv, Spill
    <3>2. due' = due - 1 /\ due' \in Nat /\ due' # Endless
      <4>1. due \in 0..Endless /\ Endless \in Nat
        BY DEF Typed, TypeOK, Endless
      <4> QED
        BY <2>1, <2>2, <3>1, <4>1
    <3>3. Len(down') >= due' + 1 /\ \A i \in 1..(due' + 1) : down'[i].part = "chunk"
      <4>1. Len(down) >= due + 1 /\ \A i \in 1..(due + 1) : down[i].part = "chunk"
        BY <3>1 DEF Chunks
      <4>2. \A i \in 1..(due' + 1) : i \in 1..Len(down') /\ i + 1 \in 1..(due + 1)
        BY <2>2, <2>3, <3>2, <4>1
      <4>3. Len(down') >= due' + 1
        BY <2>2, <2>3, <3>2, <4>1
      <4> QED
        BY <2>3, <4>1, <4>2, <4>3
    <3>4. Chunks(1, due + 1)' /\ (due' = 0 => Chunks(1, 1)')
      BY <3>3 DEF Chunks
    <3>5. BodyLeft'
      BY <1>1, <3>1 DEF BodyLeft, BodyOf
    <3> QED
      BY <1>1, <1>2, <2>1, <2>6, <3>1, <3>2, <3>4, <3>5 DEF StreamInv, Live, Closed, Spill
  <2> QED
    BY <2>4, <2>5, <2>6
<1> QED
  BY <1>3, <1>4

\* A body in front of the stream is no request.
LEMMA BodyFirst == ASSUME up = <<BodyOf(Last)>> PROVE up # <<>> /\ Head(up).part = "body"
BY Single DEF BodyOf

\* At the end of an answer the server reads nothing, or a body for a request.
LEMMA AtLine ==
  ASSUME BodyLeft, pc = "line", client # "gone", Step
  PROVE  Garbled /\ Last \in unread
<1>1. ReadLine \/ Garbled \/ HangUp
  BY Labels DEF ByLabel
<1>2. ~ReadLine /\ ~HangUp
  BY BodyFirst DEF BodyLeft, ReadLine, HangUp
<1> QED
  BY <1>1, <1>2 DEF Garbled, BodyLeft

\* The file has gone, which it had not when it was measured: the 500 is as long as
\* what was promised at most, or longer.
LEMMA Fails ==
  ASSUME Typed, Measured, pc = "open", spilt = 0, cur = Last, client # "gone", BodyLeft,
         NEW c \in 1..ErrorSize, OpenFails(c)
  PROVE  /\ pc' = "line" /\ left' = 0 /\ BodyLeft' /\ Last' = Last /\ slipped'
         /\ down' = down \o [i \in 1..c |-> Chunk(cur)] /\ c \in Nat
         /\ spilt' = IF c > left THEN Last ELSE 0
<1>1. /\ from \in Nat /\ left \in Nat /\ size \in Nat /\ left > 0
  BY DEF Typed, TypeOK, Parts
<1>2. size = 0 /\ slipped' = slipped
  BY DEF OpenFails
<1>3. slipped
  BY <1>1, <1>2 DEF Measured
<1>4. sent' = sent /\ unread' = unread /\ up' = up
  BY DEF OpenFails, clientside, history
<1>5. BodyLeft' /\ Last' = Last
  BY <1>4 DEF BodyLeft, BodyOf, Last
<1> QED
  BY <1>2, <1>3, <1>5 DEF OpenFails

\* While the client is idle, and while it reads.
LEMMA StepIdle == ASSUME Typed, Idle, client = "idle", spilt = 0, Step PROVE
  /\ spilt' = 0
  /\ \/ pc' # "closed" /\ Idle'
     \/ pc' = "closed" /\ down' = Nonsense /\ Last \in unread'
<1>1. pc \in {"line", "stream"} /\ down = <<>> /\ left = 0 /\ Last' = Last /\ BodyLeft
  BY Aside DEF Idle
<1>2. CASE pc = "line"
  <2>1. Garbled /\ Last \in unread
    BY <1>1, <1>2, AtLine
  <2>2. down' = Nonsense /\ pc' = "closed" /\ Last \in unread' /\ spilt' = spilt
    BY <1>1, <2>1, Single DEF Garbled, Put, Nonsense, history, file
  <2> QED
    BY <2>2
<1>3. CASE pc = "stream"
  <2>1. Stream \/ Streamed
    BY <1>3, Labels DEF ByLabel
  <2>2. Streamed
    BY <1>1, <2>1 DEF Stream, More
  <2>3. down' = down /\ left' = 0 /\ up' = up /\ unread' = unread /\ pc' = "line" /\ spilt' = spilt
    BY <2>2 DEF Streamed, history
  <2>4. Idle'
    BY <1>1, <2>3 DEF Idle, BodyLeft, BodyOf
  <2> QED
    BY <2>3, <2>4
<1> QED
  BY <1>1, <1>2, <1>3

LEMMA StepReading ==
  ASSUME Typed, Measured, Reading, client = "reading", spilt = 0, Step
  PROVE  \/ spilt' = 0 /\ pc' # "closed" /\ Reading'
         \/ spilt' = 0 /\ pc' = "closed" /\ Last' \in unread' /\ Ended(due + 1)'
         \/ /\ spilt' # 0 /\ Last' = spilt' /\ slipped' /\ BodyLeft' /\ pc' = "line"
            /\ due' # Endless' /\ Chunks(1, due + 1)'
<1> USE DEF clientside, file, range, history
<1>1. /\ pc \in {"line", "open", "stream"} /\ BodyLeft /\ Len(down) + left <= due /\ due' = due
      /\ down \in Seq(Part) /\ Len(down) \in Nat /\ left \in Nat /\ due \in Nat /\ Last' = Last
      /\ pc = "open" => left > 0 /\ cur = Last /\ down = <<>> /\ due = left
      /\ left \in 0..MaxSize
  BY Aside, LenProperties DEF Reading, Typed, TypeOK, Parts, Endless
<1>2. ASSUME NEW p, Put(p)
      PROVE  Len(down') = Len(down) + 1 /\ down'[Len(down')] = p
  <2>1. down' = Append(down, p)
    BY <1>2 DEF Put
  <2> QED
    BY <2>1, Behind
<1>3. ASSUME up' = up, unread' = unread PROVE BodyLeft'
  BY <1>1, <1>3 DEF BodyLeft, BodyOf
<1>4. CASE pc = "line"
  <2>1. Garbled /\ Last \in unread
    BY <1>1, <1>4, AtLine
  <2>2. pc' = "closed" /\ unread' = unread /\ spilt' = spilt /\ Put(Answer(Bogus, 0))
    BY <2>1 DEF Garbled
  <2>3. Len(down') <= due + 1 /\ down'[Len(down')] = Answer(Bogus, 0)
    BY <1>1, <1>2, <2>2
  <2>4. Ended(due + 1)'
    BY <1>1, <2>3 DEF Ended, Answer
  <2> QED
    BY <1>1, <2>1, <2>2, <2>4
<1>5. ASSUME NEW c \in 1..ErrorSize, OpenFails(c), pc = "open"
      PROVE  \/ spilt' = 0 /\ pc' # "closed" /\ Reading'
             \/ /\ spilt' # 0 /\ Last' = spilt' /\ slipped' /\ BodyLeft' /\ pc' = "line"
                /\ due' # Endless' /\ Chunks(1, due + 1)'
  <2>1. /\ pc' = "line" /\ left' = 0 /\ BodyLeft' /\ slipped' /\ c \in Nat
        /\ down' = down \o [i \in 1..c |-> Chunk(cur)]
        /\ spilt' = IF c > left THEN Last ELSE 0
    BY <1>1, <1>5, Fails
  <2>2. Len(down) = 0
    BY <1>1, <1>5
  <2>3. Len(down') = c /\ \A i \in 1..c : down'[i].part = "chunk"
    BY <2>1, <2>2, BehindMany
  <2>4. CASE c > left
    <3>1. spilt' # 0
      BY <1>1, <1>5, <2>1, <2>4 DEF Typed, Parts, Busy
    <3>2. due' # Endless'
      BY <1>1, <1>5 DEF Endless
    <3>3. Chunks(1, due + 1)'
      BY <1>1, <1>5, <2>1, <2>3, <2>4 DEF Chunks
    <3> QED
      BY <1>1, <2>1, <2>4, <3>1, <3>2, <3>3
  <2>5. CASE ~(c > left)
    <3>1. Len(down') + left' <= due'
      BY <1>1, <1>5, <2>1, <2>3, <2>5
    <3> QED
      BY <2>1, <2>5, <3>1 DEF Reading
  <2> QED
    BY <2>4, <2>5
<1>6. CASE Stream
  <2>1. /\ left' = left - 1 /\ up' = up /\ pc' = pc /\ pc = "stream" /\ Len(down') = Len(down) + 1
        /\ unread' = unread /\ spilt' = spilt
    BY <1>2, <1>6 DEF Stream
  <2>2. Len(down') + left' <= due'
    BY <1>1, <2>1
  <2> QED
    BY <1>1, <1>3, <2>1, <2>2 DEF Reading
<1>7. ASSUME NEW k \in 0..MaxSize, Change(k), pc = "open"
      PROVE  spilt' = 0 /\ pc' # "closed" /\ Reading'
  BY <1>1, <1>3, <1>7 DEF Change, Reading
<1>8. CASE Open
  BY <1>1, <1>3, <1>8 DEF Open, Reading
<1>9. CASE Streamed
  BY <1>1, <1>3, <1>9 DEF Streamed, Reading
<1> QED
  BY <1>1, <1>4, <1>5, <1>6, <1>7, <1>8, <1>9, Labels DEF ByLabel

\* While it waits for an answer that is not written.
LEMMA StepUnanswered ==
  ASSUME Typed, Unanswered, client = "waiting", Step
  PROVE  /\ spilt' = spilt
         /\ \/ pc' # "closed" /\ (Unanswered' \/ Written')
            \/ /\ pc' = "closed" /\ down' = Nonsense
               /\ Last' \notin done' /\ \E k \in unread' : k < Last'
<1> USE DEF clientside, file, range, history
<1>1. /\ down = <<>> /\ left = 0 /\ Last \notin done /\ Last' = Last /\ sent' = sent
      /\ Last \in Nat
  BY Aside, LenProperties DEF Unanswered, Typed, TypeOK, Last
<1>2. \A p : Put(p) => down' = <<p>>
  BY <1>1, Single DEF Put
<1>3. BodyIn(Last) \in Seq(Part) /\ BodyIn(Last)' = BodyIn(Last)
  <2>1. client = "waiting" => Last \in 0..MaxRequests
    BY LenProperties DEF Typed, TypeOK, Last
  <2>2. BodyOf(Last) \in Part
    BY <2>1 DEF BodyOf, Part, Endless
  <2> QED
    BY <1>1, <2>2 DEF BodyIn, BodyOf
<1>4. HeadOf(Last) \in Part /\ (Last - 1 \in unread => BodyOf(Last - 1) \in Part)
  <2>1. Last \in 0..MaxRequests /\ (Last - 1 \in unread => Last - 1 \in 0..MaxRequests)
    BY LenProperties DEF Typed, TypeOK, Last
  <2> QED
    BY <2>1 DEF HeadOf, BodyOf, Part, Endless
<1>5. ASSUME NEW c \in Nat, Put(Answer(Last, c)), left' <= c, left' \in Nat,
             pc' \in {"line", "open", "stream"}, pc' = "open" => cur' = Last /\ left' = c,
             up' = <<>> \/ (up' = <<BodyOf(Last)>> /\ Last \in unread')
      PROVE  Written'
  <2>1. down' = <<Answer(Last, c)>>
    BY <1>2, <1>5
  <2>2. down' # <<>> /\ Len(down') = 1 /\ Head(down') = Answer(Last, c)
    BY <2>1, Single
  <2>3. Head(down').chunks = c
    BY <2>2 DEF Answer
  <2>4. Answer(Last, Head(down).chunks)' = Answer(Last, c) /\ BodyOf(Last)' = BodyOf(Last)
    BY <1>1, <2>3 DEF Answer, BodyOf
  <2>5. Len(down') + left' <= Head(down').chunks + 1
    <3>1. \A x, y \in Nat : x <= y => 1 + x <= y + 1
      OBVIOUS
    <3>2. left' \in Nat /\ c \in Nat /\ left' <= c
      BY <1>5, Zenon
    <3>3. 1 + left' <= c + 1
      BY <3>1, <3>2, Zenon
    <3> QED
      BY <2>2, <2>3, <3>3, Zenon
  <2>6. BodyLeft'
    BY <1>1, <1>5, <2>4 DEF BodyLeft
  <2>7. pc' = "open" => cur' = Last' /\ down' = <<Answer(Last, left)>>'
    BY <1>1, <1>5, <2>1 DEF Answer
  <2> QED
    BY <1>5, <2>2, <2>4, <2>5, <2>6, <2>7 DEF Written
<1>6. CASE /\ pc \in {"line", "stream"}
           /\ \/ up = <<HeadOf(Last)>> \o BodyIn(Last)
              \/ /\ Last - 1 \in unread
                 /\ up = <<BodyOf(Last - 1), HeadOf(Last)>> \o BodyIn(Last)
  <2>1. CASE Streamed
    <3>1. /\ down' = <<>> /\ left' = 0 /\ Last' \notin done' /\ pc' = "line" /\ spilt' = spilt
          /\ up' = up /\ unread' = unread
      BY <1>1, <2>1 DEF Streamed
    <3>2. /\ HeadOf(Last)' = HeadOf(Last) /\ BodyOf(Last - 1)' = BodyOf(Last - 1)
      BY <1>1 DEF HeadOf, BodyOf
    <3> QED
      BY <1>1, <1>3, <1>6, <3>1, <3>2 DEF Unanswered
  <2>2. CASE ReadLine
    <3>1. up # <<>> /\ Head(up) = HeadOf(Last) /\ Tail(up) = BodyIn(Last)
      <4>1. ASSUME Last - 1 \in unread, up = <<BodyOf(Last - 1), HeadOf(Last)>> \o BodyIn(Last)
            PROVE  FALSE
        <5>1. Head(up) = BodyOf(Last - 1)
          BY <1>3, <1>4, <4>1, Front
        <5> QED
          BY <2>2, <5>1 DEF ReadLine, BodyOf
      <4> QED
        BY <1>3, <1>4, <1>6, <4>1, Front
    <3>2. Head(up).part = "head" /\ Head(up).of = Last
      BY <3>1 DEF HeadOf
    <3>3. /\ down' = <<>> /\ left' = 0 /\ Last' \notin done' /\ pc' = "auth" /\ cur' = Last'
          /\ up' = BodyIn(Last)' /\ spilt' = spilt
      BY <1>1, <1>3, <3>1, <3>2, <2>2 DEF ReadLine
    <3> QED
      BY <3>3 DEF Unanswered
  <2>3. CASE Garbled
    <3>1. Last - 1 \in unread
      <4>1. up = <<HeadOf(Last)>> \o BodyIn(Last) => Head(up) = HeadOf(Last)
        BY <1>3, <1>4, Front
      <4> QED
        BY <1>6, <2>3, <4>1 DEF Garbled, HeadOf
    <3>2. pc' = "closed" /\ down' = Nonsense /\ done' = done /\ unread' = unread /\ spilt' = spilt
      BY <1>2, <2>3 DEF Garbled, Nonsense
    <3>3. Last - 1 < Last
      BY <1>1
    <3> QED
      BY <1>1, <3>1, <3>2, <3>3
  <2> QED
    BY <1>1, <1>6, <2>1, <2>2, <2>3, Labels DEF ByLabel, HangUp, Stream, More
<1>7. CASE pc \in {"auth", "gate", "body"} /\ cur = Last /\ up = BodyIn(Last)
  <2>1. HasBody => up = <<BodyOf(Last)>>
    BY <1>7 DEF HasBody, BodyIn
  <2>2. ~HasBody => up = <<>>
    BY <1>7 DEF HasBody, BodyIn
  <2>3. CASE Refuse
    <3>1. Put(Answer(Last, 0)) /\ pc' = "line" /\ left' = 0 /\ up' = up /\ spilt' = spilt
      BY <1>1, <1>7, <2>3 DEF Refuse, Send
    <3>2. HasBody => Last \in unread'
      BY <1>7, <2>3 DEF Refuse, Leaves
    <3>3. Written'
      BY <1>5, <2>1, <2>2, <3>1, <3>2
    <3> QED
      BY <3>1, <3>3
  <2>4. CASE Authorize
    <3>1. /\ down' = <<>> /\ left' = 0 /\ Last' \notin done' /\ pc' = "gate" /\ cur' = Last'
          /\ up' = BodyIn(Last)' /\ spilt' = spilt
      BY <1>1, <1>3, <1>7, <2>4 DEF Authorize
    <3> QED
      BY <3>1 DEF Unanswered
  <2>5. CASE Dispatch
    <3>1. /\ down' = <<>> /\ left' = 0 /\ Last' \notin done' /\ cur' = Last' /\ up' = up
          /\ spilt' = spilt
      BY <1>1, <1>7, <2>5 DEF Dispatch
    <3>2. \/ pc' = "body"
          \/ pc' \in {"act", "stat"} /\ (HasBody => Last \in unread')
      BY <1>7, <2>5 DEF Dispatch, Leaves
    <3>3. pc' # "body" => BodyLeft'
      BY <1>1, <2>1, <2>2, <3>1, <3>2 DEF BodyLeft, BodyOf
    <3>4. (pc' = "body" /\ up' = BodyIn(Last)') \/ (pc' \in {"act", "stat"} /\ BodyLeft')
      BY <1>3, <1>7, <3>1, <3>2, <3>3
    <3> QED
      BY <3>1, <3>4 DEF Unanswered
  <2>6. CASE ReadBody
    <3>1. /\ down' = <<>> /\ left' = 0 /\ Last' \notin done' /\ cur' = Last' /\ pc' = "act"
          /\ spilt' = spilt
      BY <1>1, <1>7, <2>6 DEF ReadBody
    <3>2. up' = <<>>
      <4>1. CASE HasBody
        BY <1>7, <2>1, <2>6, <4>1, Single DEF ReadBody, Pending
      <4>2. CASE ~HasBody
        BY <2>2, <2>6, <4>2 DEF ReadBody, Pending
      <4> QED
        BY <4>1, <4>2
    <3> QED
      BY <3>1, <3>2 DEF Unanswered, BodyLeft
  <2> QED
    BY <1>7, <2>3, <2>4, <2>5, <2>6, Labels DEF ByLabel
<1>8. CASE pc \in {"act", "stat"} /\ cur = Last /\ BodyLeft
  <2>0. up = <<>> \/ (up = <<BodyOf(Last)>> /\ Last \in unread)
    BY <1>8 DEF BodyLeft
  <2>1. CASE Refuse \/ CarryOut \/ Decline
    <3>1. Put(Answer(Last, 0)) /\ pc' = "line" /\ left' = 0 /\ up' = up /\ spilt' = spilt
      BY <1>1, <1>8, <2>1 DEF Refuse, CarryOut, Decline, Send
    <3>2. unread \subseteq unread'
      BY <2>1 DEF Refuse, CarryOut, Decline, Leaves
    <3> QED
      BY <1>5, <2>0, <3>1, <3>2
  <2>2. CASE NoRange
    <3>1. /\ Put(Answer(Last, Endless)) /\ pc' = "line" /\ left' = 0 /\ up' = up /\ Endless \in Nat
          /\ unread' = unread /\ spilt' = spilt
      BY <1>1, <1>8, <2>2 DEF NoRange, Endless
    <3> QED
      BY <1>5, <2>0, <3>1
  <2>3. ASSUME NEW k \in 1..MaxSize, NEW n \in 0..(MaxSize - 1), Promise(k, n)
        PROVE  spilt' = spilt /\ pc' # "closed" /\ Written'
    <3>1. /\ Put(Answer(Last, k - n)) /\ pc' = "open" /\ left' = k - n /\ up' = up /\ k - n \in Nat
          /\ unread' = unread /\ spilt' = spilt /\ cur' = Last
      BY <1>1, <1>8, <2>3 DEF Promise
    <3> QED
      BY <1>5, <2>0, <3>1
  <2> QED
    BY <1>8, <2>1, <2>2, <2>3, Labels DEF ByLabel
<1> QED
  BY <1>6, <1>7, <1>8 DEF Unanswered

\* While the answer is on its way.
LEMMA StepWritten ==
  ASSUME Typed, Measured, Written, client = "waiting", spilt = 0, Step
  PROVE  \/ spilt' = 0 /\ pc' # "closed" /\ Written'
         \/ /\ spilt' = 0 /\ pc' = "closed" /\ Last' \in unread' /\ Len(down') > 1
            /\ Head(down') = Answer(Last', Head(down').chunks) /\ Ended(Head(down).chunks + 2)'
         \/ /\ spilt' # 0 /\ Last' = spilt' /\ slipped' /\ BodyLeft' /\ pc' = "line"
            /\ down' # <<>> /\ Head(down').chunks # Endless'
            /\ Head(down') = Answer(Last', Head(down').chunks) /\ Chunks(2, Head(down).chunks + 2)'
<1> USE DEF clientside, file, range, history
<1> DEFINE c == Head(down).chunks
<1>1. /\ down # <<>> /\ Head(down) = Answer(Last, c) /\ Len(down) + left <= c + 1
      /\ pc \in {"line", "open", "stream"} /\ Last' = Last /\ BodyLeft
      /\ pc = "open" => cur = Last /\ down = <<Answer(Last, left)>>
  BY Aside DEF Written
<1>2. /\ down \in Seq(Part) /\ Len(down) \in Nat \ {0} /\ left \in Nat /\ c \in Nat
      /\ pc = "open" => left > 0
      /\ left \in 0..MaxSize
  <2>1. Head(down) \in Part
    BY <1>1, HeadTailProperties DEF Typed, TypeOK
  <2>2. c \in Nat
    BY <2>1 DEF Part, Endless
  <2> QED
    BY <1>1, <2>2, LenProperties, EmptySeq DEF Typed, TypeOK, Parts
<1>3. ASSUME NEW p, Put(p)
      PROVE  /\ down' # <<>> /\ Head(down') = Head(down) /\ Len(down') = Len(down) + 1
             /\ down'[Len(down')] = p
  <2>1. down' = Append(down, p)
    BY <1>3 DEF Put
  <2> QED
    BY <1>1, <2>1, Behind
<1>4. ASSUME down' # <<>>, Head(down') = Head(down), Len(down') + left' <= c + 1,
             pc' \in {"line", "open", "stream"}, up' = up, unread' = unread,
             pc' = "open" => cur' = cur /\ down' = down /\ left' = left /\ pc = "open"
      PROVE  pc' # "closed" /\ Written'
  <2>1. Head(down') = Answer(Last, Head(down).chunks)'
    BY <1>1, <1>4 DEF Answer
  <2>2. BodyLeft'
    BY <1>1, <1>4 DEF BodyLeft, BodyOf
  <2>3. pc' = "open" => cur' = Last' /\ down' = <<Answer(Last, left)>>'
    BY <1>1, <1>4 DEF Answer
  <2> QED
    BY <1>4, <2>1, <2>2, <2>3 DEF Written
<1>5. CASE pc = "line"
  <2>1. Garbled /\ Last \in unread
    BY <1>1, <1>5, AtLine
  <2>2. pc' = "closed" /\ unread' = unread /\ spilt' = spilt /\ Put(Answer(Bogus, 0))
    BY <2>1 DEF Garbled
  <2>3. /\ Head(down') = Answer(Last, c) /\ Len(down') > 1 /\ Len(down') <= c + 2
        /\ down'[Len(down')] = Answer(Bogus, 0)
    BY <1>1, <1>2, <1>3, <2>2
  <2>4. Head(down').chunks = c
    BY <2>3 DEF Answer
  <2>5. Ended(Head(down).chunks + 2)'
    BY <2>3, <2>4 DEF Ended, Answer
  <2> QED
    BY <1>1, <2>1, <2>2, <2>3, <2>4, <2>5
<1>6. ASSUME NEW n \in 1..ErrorSize, OpenFails(n), pc = "open"
      PROVE  \/ spilt' = 0 /\ pc' # "closed" /\ Written'
             \/ /\ spilt' # 0 /\ Last' = spilt' /\ slipped' /\ BodyLeft' /\ pc' = "line"
                /\ down' # <<>> /\ Head(down').chunks # Endless'
                /\ Head(down') = Answer(Last', Head(down').chunks) /\ Chunks(2, Head(down).chunks + 2)'
  <2>1. /\ pc' = "line" /\ left' = 0 /\ BodyLeft' /\ slipped' /\ n \in Nat
        /\ down' = down \o [i \in 1..n |-> Chunk(cur)]
        /\ spilt' = IF n > left THEN Last ELSE 0
    BY <1>1, <1>6, Fails
  <2>2. Len(down) = 1 /\ c = left
    <3>1. Len(down) = 1 /\ Head(down) = Answer(Last, left)
      BY <1>1, <1>6, Single
    <3> QED
      BY <3>1 DEF Answer
  <2>3. /\ Len(down') = n + 1 /\ \A i \in 2..(n + 1) : down'[i].part = "chunk"
        /\ down' # <<>> /\ Head(down') = Head(down)
    <3>1. /\ Len(down') = Len(down) + n
          /\ \A i \in (Len(down) + 1)..(Len(down) + n) : down'[i].part = "chunk"
          /\ down' # <<>> /\ Head(down') = Head(down)
      BY <1>1, <2>1, BehindMany
    <3>2. Len(down) + n = n + 1 /\ Len(down) + 1 = 2
      BY <2>1, <2>2
    <3> QED
      BY <3>1, <3>2
  <2>4. Head(down').chunks = left /\ Head(down') = Answer(Last', Head(down').chunks)
    BY <1>1, <2>2, <2>3
  <2>5. CASE n > left
    <3>1. spilt' # 0
      BY <1>1, <1>6, <2>1, <2>5 DEF Typed, Parts, Busy
    <3>2. Head(down').chunks # Endless'
      BY <1>2, <2>4 DEF Endless
    <3>3. Chunks(2, Head(down).chunks + 2)'
      BY <1>2, <2>3, <2>4, <2>5 DEF Chunks
    <3> QED
      BY <1>1, <2>1, <2>3, <2>4, <2>5, <3>1, <3>2, <3>3
  <2>6. CASE ~(n > left)
    <3>1. Len(down') + left' <= c + 1
      BY <1>2, <2>1, <2>2, <2>3, <2>6
    <3> QED
      BY <1>4, <2>1, <2>3, <2>6, <3>1, <1>6 DEF OpenFails
  <2> QED
    BY <2>5, <2>6
<1>7. CASE Stream
  <2>1. /\ left' = left - 1 /\ up' = up /\ unread' = unread /\ pc' = "stream" /\ Put(Chunk(cur))
        /\ spilt' = spilt
    BY <1>1, <1>7 DEF Stream
  <2>2. Len(down') = Len(down) + 1 /\ Head(down') = Head(down) /\ down' # <<>>
    BY <1>3, <2>1
  <2>3. Len(down') + left' <= c + 1
    BY <1>1, <1>2, <2>1, <2>2
  <2> QED
    BY <1>4, <2>1, <2>2, <2>3
<1>8. ASSUME NEW k \in 0..MaxSize, Change(k), pc = "open"
      PROVE  spilt' = 0 /\ pc' # "closed" /\ Written'
  <2>1. /\ down' = down /\ up' = up /\ left' = left /\ pc' = pc /\ cur' = cur /\ unread' = unread
        /\ spilt' = spilt
    BY <1>8 DEF Change
  <2> QED
    BY <1>1, <1>4, <1>8, <2>1
<1>9. CASE Open \/ Streamed
  <2>1. /\ down' = down /\ up' = up /\ pc' \in {"line", "stream"} /\ left' \in {left, 0}
        /\ unread' = unread /\ spilt' = spilt
    BY <1>9 DEF Open, Streamed
  <2>2. Len(down') + left' <= c + 1
    BY <1>1, <1>2, <2>1
  <2> QED
    BY <1>1, <1>4, <2>1, <2>2
<1> QED
  BY <1>1, <1>5, <1>6, <1>7, <1>8, <1>9, Labels DEF ByLabel

\* Once there is more than the client expects, nothing makes it less.
LEMMA StepSpill ==
  ASSUME Typed, Spill, spilt # 0, client # "gone", pc # "closed", Step
  PROVE  Spill'
<1>1. /\ client' = client /\ due' = due /\ got' = got /\ Last' = Last /\ Endless' = Endless
      /\ Len(down) \in Nat /\ spilt \in Nat /\ down \in Seq(Part)
  BY Aside, LenProperties DEF Endless, Typed, TypeOK
<1>2. spilt' = spilt
  BY SpiltStays
<1>3. Len(down') >= Len(down) /\ (\A i \in 1..Len(down) : down'[i] = down[i]) /\ Len(down') \in Nat
  <2>1. Len(down') \in Nat
    BY TypeStep, LenProperties DEF Typed, TypeOK, Step, Next
  <2> QED
    BY <2>1, Kept
<1>4. ASSUME NEW i \in Nat \ {0}, NEW j \in Nat, Chunks(i, j)
      PROVE  Len(down') >= j /\ \A k \in i..j : down'[k].part = "chunk"
  <2>1. Len(down) >= j /\ \A k \in i..j : down[k].part = "chunk"
    BY <1>4 DEF Chunks
  <2>2. \A k \in i..j : k \in 1..Len(down)
    BY <1>1, <1>4, <2>1
  <2> QED
    BY <1>1, <1>3, <2>1, <2>2
<1>5. InOrder /\ InOrder'
  BY <1>1 DEF Spill, InOrder
<1>6. CASE Last = spilt + 1
  <2>1. client = "waiting" /\ Chunks(1, 1)
    BY <1>1, <1>6 DEF Spill
  <2>2. Chunks(1, 1)'
    BY <1>4, <2>1 DEF Chunks
  <2> QED
    BY <1>1, <1>2, <1>5, <1>6, <2>1, <2>2 DEF Spill
<1>7. CASE Last = spilt
  <2>1. /\ slipped /\ BodyLeft /\ pc = "line"
        /\ \/ client = "idle" /\ Chunks(1, 1)
           \/ client = "reading" /\ due # Endless /\ Chunks(1, due + 1)
           \/ /\ client = "waiting" /\ down # <<>> /\ Head(down).chunks # Endless
              /\ Head(down) = Answer(Last, Head(down).chunks) /\ Chunks(2, Head(down).chunks + 2)
    BY <1>1, <1>7 DEF Spill
  <2>2. Garbled
    BY <2>1, AtLine
  <2>3. slipped' = slipped /\ pc' = "closed" /\ up' = <<>> /\ down' = Append(down, Answer(Bogus, 0))
    BY <2>2 DEF Garbled, file, Put
  <2>4. BodyLeft'
    BY <2>3 DEF BodyLeft
  <2>5. CASE client = "idle" /\ Chunks(1, 1)
    <3>1. Chunks(1, 1)'
      BY <1>4, <2>5 DEF Chunks
    <3> QED
      BY <1>1, <1>2, <1>5, <1>7, <2>1, <2>3, <2>4, <2>5, <3>1 DEF Spill
  <2>6. CASE client = "reading" /\ due # Endless /\ Chunks(1, due + 1)
    <3>1. due + 1 \in Nat
      BY DEF Typed, TypeOK, Endless
    <3>2. Chunks(1, due + 1)'
      BY <1>1, <1>4, <2>6, <3>1 DEF Chunks
    <3> QED
      BY <1>1, <1>2, <1>5, <1>7, <2>1, <2>3, <2>4, <2>6, <3>2 DEF Spill
  <2>7. CASE /\ client = "waiting" /\ down # <<>> /\ Head(down).chunks # Endless
             /\ Head(down) = Answer(Last, Head(down).chunks) /\ Chunks(2, Head(down).chunks + 2)
    <3>1. Head(down) \in Part
      BY <1>1, <2>7, HeadTailProperties
    <3>2. Head(down).chunks + 2 \in Nat
      BY <3>1 DEF Part, Endless
    <3>3. down' # <<>> /\ Head(down') = Head(down)
      BY <2>3, <2>7, Behind
    <3>4. Chunks(2, Head(down).chunks + 2)'
      <4>1. LET j == Head(down).chunks + 2
            IN  Len(down') >= j /\ \A k \in 2..j : down'[k].part = "chunk"
        BY <1>4, <2>7, <3>2
      <4> QED
        BY <3>3, <4>1 DEF Chunks
    <3>5. Answer(Last, Head(down).chunks)' = Answer(Last, Head(down).chunks)
      BY <1>1, <3>3 DEF Answer
    <3> QED
      BY <1>1, <1>2, <1>5, <1>7, <2>1, <2>3, <2>4, <2>7, <3>3, <3>4, <3>5 DEF Spill
  <2> QED
    BY <2>1, <2>5, <2>6, <2>7
<1> QED
  BY <1>6, <1>7 DEF Spill

LEMMA StreamServer == ASSUME Typed, Measured, StreamInv, Step PROVE StreamInv'
<1>1. client' = client /\ got' = got
  BY Aside
<1>2. pc # "closed"
  BY Labels DEF ByLabel
<1>3. CASE client = "gone"
  <2>1. InStep'
    <3>1. spilt # 0 => spilt' = spilt
      BY SpiltStays
    <3> QED
      BY <1>1, <1>2, <3>1 DEF StreamInv, InStep
  <2> QED
    BY <1>1, <1>3, <2>1 DEF StreamInv, Live, Closed, Spill
<1>4. CASE client # "gone" /\ spilt # 0
  <2>1. Spill' /\ spilt' # 0
    <3>1. Spill'
      BY <1>2, <1>4, StepSpill DEF StreamInv
    <3>2. spilt' = spilt
      BY <1>4, SpiltStays
    <3> QED
      BY <1>4, <3>1, <3>2
  <2>2. InOrder'
    BY <1>1, <1>4, <2>1 DEF Spill
  <2> QED
    BY <1>1, <1>4, <2>1, <2>2 DEF StreamInv, Live, Closed, InStep, InOrder
<1>5. CASE client # "gone" /\ spilt = 0
  <2>1. InOrder /\ InOrder' /\ InStep'
    BY <1>1, <1>2, <1>5 DEF StreamInv, Live, InStep, InOrder
  <2>2. Nonsense' = Nonsense /\ \A n : Answer(n, 0)' = Answer(n, 0)
    BY DEF Nonsense, Answer
  <2>3. CASE client = "idle"
    <3>1. Idle
      BY <1>2, <1>5, <2>3 DEF StreamInv, Live
    <3>2. /\ spilt' = 0
          /\ \/ pc' # "closed" /\ Idle'
             \/ pc' = "closed" /\ down' = Nonsense /\ Last' \in unread'
      BY <1>5, <2>3, <3>1, StepIdle, Aside
    <3> QED
      BY <1>1, <2>1, <2>2, <2>3, <3>2 DEF StreamInv, Live, Closed, Spill
  <2>4. CASE client = "reading"
    <3>1. Reading
      BY <1>2, <1>5, <2>4 DEF StreamInv, Live
    <3>2. \/ spilt' = 0 /\ pc' # "closed" /\ Reading'
          \/ spilt' = 0 /\ pc' = "closed" /\ Last' \in unread' /\ Ended(due + 1)'
          \/ /\ spilt' # 0 /\ Last' = spilt' /\ slipped' /\ BodyLeft' /\ pc' = "line"
             /\ due' # Endless' /\ Chunks(1, due + 1)'
      BY <1>5, <2>4, <3>1, StepReading
    <3> QED
      BY <1>1, <2>1, <2>4, <3>2 DEF StreamInv, Live, Closed, Spill
  <2>5. CASE client = "waiting" /\ Unanswered
    <3>1. /\ spilt' = spilt
          /\ \/ pc' # "closed" /\ (Unanswered' \/ Written')
             \/ /\ pc' = "closed" /\ down' = Nonsense
                /\ Last' \notin done' /\ \E k \in unread' : k < Last'
      BY <2>5, StepUnanswered
    <3> QED
      BY <1>1, <1>5, <2>1, <2>2, <2>5, <3>1 DEF StreamInv, Live, Closed, Spill
  <2>6. CASE client = "waiting" /\ Written
    <3>1. \/ spilt' = 0 /\ pc' # "closed" /\ Written'
          \/ /\ spilt' = 0 /\ pc' = "closed" /\ Last' \in unread' /\ Len(down') > 1
             /\ Head(down') = Answer(Last', Head(down').chunks) /\ Ended(Head(down).chunks + 2)'
          \/ /\ spilt' # 0 /\ Last' = spilt' /\ slipped' /\ BodyLeft' /\ pc' = "line"
             /\ down' # <<>> /\ Head(down').chunks # Endless'
             /\ Head(down') = Answer(Last', Head(down').chunks) /\ Chunks(2, Head(down).chunks + 2)'
      BY <1>5, <2>6, StepWritten
    <3>2. Answer(Last, Head(down).chunks)' = Answer(Last', Head(down').chunks)
      BY DEF Answer
    <3> QED
      BY <1>1, <2>1, <2>6, <3>1, <3>2 DEF StreamInv, Live, Closed, Spill
  <2> QED
    BY <1>2, <1>5, <2>3, <2>4, <2>5, <2>6 DEF StreamInv, Live, Typed, TypeOK
<1> QED
  BY <1>3, <1>4, <1>5

LEMMA StreamStep == ASSUME Typed, Measured, StreamInv, [Next]_vars PROVE StreamInv'
<1>1. CASE UNCHANGED vars
  BY <1>1 DEF vars, clientside, file, range, history, StreamInv, Live, Closed, Spill, InStep, InOrder,
     Idle, Reading, Unanswered, Written, BodyIn, BodyLeft, Last, Nonsense, Ended, Chunks, Answer, BodyOf,
     HeadOf, Bogus, Endless
<1>2. CASE Next
  <2>1. Server \/ (\E k \in 0..MaxSize : Change(k)) => StreamInv'
    BY StreamServer DEF Step
  <2> QED
    BY <1>2, <2>1, StreamAsk, StreamHead, StreamChunk DEF Next, Client, SeesClosed
<1> QED
  BY <1>1, <1>2

\* What the client reads as the answer to its n-th request is that, but for one
\* request after a body left on the stream, or after a 500 longer than its range
\* (HttpStream).
THEOREM InStepCorrect == Spec => []InStep
<1>1. Init => Typed /\ Measured /\ StreamInv
  <2>1. Init => Measured
    BY DEF Init, Measured
  <2> QED
    BY <2>1, TypeInit, StreamInit
<1>2. Typed /\ Measured /\ StreamInv /\ [Next]_vars => (Typed /\ Measured /\ StreamInv)'
  BY TypeStep, MeasuredStep, StreamStep
<1>3. StreamInv => InStep
  BY DEF StreamInv
<1> QED
  BY <1>1, <1>2, <1>3, PTL DEF Spec

-----------------------------------------------------------------------------
(* Content-Length, and the kernel of Answered: what liveness rests on, and   *)
(* holds at any moment.                                                      *)

\* The server can do nothing until the client sends or goes: it reads a line and
\* there is none, or what is left of a body has no end of line, or it reads a
\* body and there is none. Elsewhere one of its steps is possible.
ServerWaits ==
  \/ pc = "line" /\ up = <<>>
  \/ pc = "line" /\ Len(up) = 1 /\ Head(up).part = "body" /\ sent[Head(up).of].body = "line"
  \/ pc = "body" /\ HasBody /\ up = <<>>

\* Client and server never wait for each other, but for the end of a 416 and for
\* the rest of a file that changed between being measured and being opened
\* (_send_file): the loop of the connection has no other way to hang.
NoMutualWait ==
  client \in {"waiting", "reading"} /\ down = <<>> /\ ServerWaits =>
    client = "reading" /\ (due = Endless \/ slipped)

\* What is promised is on the stream or to be sent, and once the server has
\* closed, its nonsense behind it.
Extra == IF pc = "closed" THEN 1 ELSE 0
Whole ==
  client # "gone" /\ ~slipped =>
    /\ client = "reading" /\ due # Endless => due + Extra <= Len(down) + left
    /\ client = "waiting" /\ down # <<>> /\ Head(down).chunks # Endless
         /\ Head(down).part = "head" /\ Head(down).of # Bogus
         => Head(down).chunks + 1 + Extra <= Len(down) + left

LEMMA WholeInit == Init => Whole
BY DEF Init, Whole

\* After a 500 longer than its range there is nothing to keep.
LEMMA WholeSpilt == ASSUME Typed', Spill', spilt' # 0 PROVE Whole'
<1> SUFFICES ASSUME client' # "gone", ~slipped'
             PROVE  /\ client' # "reading"
                    /\ client' = "waiting" /\ down' # <<>> => Head(down').part # "head"
  BY DEF Whole
<1>1. Last' = spilt' + 1 /\ client' = "waiting" /\ Chunks(1, 1)'
  BY DEF Spill
<1>2. down'[1].part = "chunk" /\ down' \in Seq(Part)
  BY <1>1 DEF Chunks, Typed, TypeOK
<1> QED
  BY <1>1, <1>2

LEMMA WholeClient ==
  ASSUME Typed, StreamInv, Whole, spilt = 0,
         ReadHead \/ ReadChunk \/ Leave \/ \E r \in Request : Ask(r)
  PROVE  Whole'
<1>1. pc' = pc /\ left' = left /\ slipped' = slipped /\ Extra' = Extra /\ Extra \in {0, 1}
  BY DEF ReadHead, ReadChunk, Leave, Ask, file, range, Extra
<1>2. left \in Nat /\ down \in Seq(Part) /\ Len(down) \in Nat /\ Endless' = Endless
  BY LenProperties DEF Typed, TypeOK, Endless
<1>3. CASE ReadHead
  <2>1. /\ client = "waiting" /\ down # <<>> /\ down' = Tail(down) /\ due' = Head(down).chunks
        /\ client' \in {"gone", "idle", "reading"}
        /\ client' = "reading" => Head(down).chunks # 0 /\ Head(down).part # "chunk"
    BY <1>3 DEF ReadHead
  <2>2. Len(down') = Len(down) - 1 /\ Head(down) \in Part
    BY <1>2, <2>1, HeadTailProperties
  <2>3. Head(down).chunks \in Nat
    BY <2>2 DEF Part, Endless
  <2>4. ASSUME client' = "reading" PROVE Head(down).part = "head" /\ Head(down).of # Bogus
    <3>1. Last \in Nat /\ Last # Bogus
      <4>1. Len(got) = Last - 1 /\ Len(got) \in Nat /\ Last \in Nat
        BY <2>1, LenProperties DEF Typed, TypeOK, Parts, Last
      <4> QED
        BY <4>1 DEF Bogus
    <3>2. down # Nonsense
      <4>1. down = Nonsense => Head(down) = Answer(Bogus, 0)
        BY Single DEF Nonsense
      <4> QED
        BY <2>1, <2>4, <4>1 DEF Answer
    <3>3. Head(down) = Answer(Last, Head(down).chunks)
      BY <2>1, <3>2 DEF StreamInv, Live, Closed, Unanswered, Written
    <3> QED
      BY <3>1, <3>3 DEF Answer
  <2>5. ASSUME client' = "reading", ~slipped', due' # Endless'
        PROVE  due' + Extra' <= Len(down') + left'
    <3>1. Head(down).chunks + 1 + Extra <= Len(down) + left
      BY <1>1, <1>2, <2>1, <2>4, <2>5 DEF Whole
    <3> QED
      BY <1>1, <1>2, <2>1, <2>2, <2>3, <3>1
  <2> QED
    BY <2>1, <2>5 DEF Whole
<1>4. CASE ReadChunk
  <2>1. /\ client = "reading" /\ down # <<>> /\ down' = Tail(down) /\ client' \in {"idle", "reading"}
        /\ due' = IF due = Endless THEN due ELSE due - 1
    BY <1>4 DEF ReadChunk
  <2>2. Len(down') = Len(down) - 1 /\ due \in Nat
    BY <1>2, <2>1, HeadTailProperties DEF Typed, TypeOK, Endless
  <2>3. ASSUME ~slipped', due' # Endless'
        PROVE  due' + Extra' <= Len(down') + left'
    <3>1. due' = due - 1 /\ due + Extra <= Len(down) + left
      BY <1>1, <1>2, <2>1, <2>3 DEF Whole
    <3> QED
      BY <1>1, <1>2, <2>2, <3>1
  <2> QED
    BY <2>1, <2>3 DEF Whole
<1>5. CASE Leave
  BY <1>5 DEF Leave, Whole
<1>6. ASSUME NEW r \in Request, Ask(r) PROVE Whole'
  <2>1. client = "idle" /\ client' \in {"gone", "waiting"} /\ (client' = "waiting" => down' = down)
    BY <1>6 DEF Ask
  <2>2. down = <<>> \/ down = Nonsense
    BY <2>1 DEF StreamInv, Live, Closed, Idle
  <2>3. down = Nonsense => Head(down).of = Bogus
    BY Single DEF Nonsense, Answer
  <2> QED
    BY <2>1, <2>2, <2>3 DEF Whole, Bogus
<1> QED
  BY <1>3, <1>4, <1>5, <1>6

LEMMA WholeServer == ASSUME Typed, StreamInv, Measured, Whole, spilt = 0, spilt' = 0, Step PROVE Whole'
<1>1. client' = client /\ due' = due /\ pc # "closed" /\ Extra = 0 /\ Extra' \in {0, 1}
  BY Aside, Labels DEF ByLabel, Extra
<1>2. /\ from \in Nat /\ left \in Nat /\ rest \in Nat /\ size \in Nat /\ due \in Nat
      /\ down \in Seq(Part) /\ Len(down) \in Nat /\ Endless' = Endless /\ Endless \in Nat
      /\ pc = "open" => left > 0
  BY LenProperties DEF Typed, TypeOK, Parts, Endless
<1>3. CASE client = "gone" \/ client = "idle"
  BY <1>1, <1>3 DEF Whole
<1>4. \A p : client # "gone" /\ Put(p) => down' = Append(down, p)
  BY DEF Put
<1>5. Len(down') \in Nat /\ left' \in Nat
  BY TypeStep, LenProperties DEF Typed, TypeOK, Step, Next
\* The number of parts stays or grows by as much as the server has less to send.
<1>6. ASSUME ~slipped', client \in {"reading", "waiting"}, down # <<>> \/ client = "reading"
      PROVE  /\ ~slipped /\ Len(down) + left + Extra' <= Len(down') + left'
             /\ down # <<>> => down' # <<>> /\ Head(down') = Head(down)
  <2>1. /\ pc \in {"line", "open", "stream"} /\ BodyLeft
        /\ pc = "open" => cur = Last
    BY <1>1, <1>6 DEF StreamInv, Live, Reading, Unanswered, Written
  <2>2. CASE pc = "line"
    <3>1. Garbled
      BY <1>6, <2>1, <2>2, AtLine
    <3>2. /\ down' = Append(down, Answer(Bogus, 0)) /\ left' = left /\ slipped' = slipped
          /\ pc' = "closed"
      BY <1>4, <1>6, <3>1 DEF Garbled, file, range
    <3> QED
      BY <1>2, <1>6, <3>2, Behind DEF Extra
  <2>3. CASE Open
    BY <1>2, <1>6, <2>3 DEF Open, Extra
  <2>4. ASSUME NEW c \in 1..ErrorSize, OpenFails(c), pc = "open" PROVE FALSE
    BY <1>6, <2>1, <2>4, Fails
  <2>5. CASE Stream
    <3>1. down' = Append(down, Chunk(cur)) /\ left' = left - 1 /\ slipped' = slipped /\ pc' = "stream"
      BY <1>4, <1>6, <2>5 DEF Stream
    <3> QED
      BY <1>2, <1>6, <3>1, Behind DEF Extra
  <2>6. CASE Streamed
    <3>1. ~More /\ down' = down /\ left' = 0 /\ slipped' = slipped /\ pc = "stream" /\ pc' = "line"
      BY <1>6, <2>6 DEF Streamed
    <3>2. left = 0
      BY <1>2, <1>6, <3>1 DEF More, Measured
    <3> QED
      BY <1>2, <1>6, <3>1, <3>2 DEF Extra
  <2>7. ASSUME NEW k \in 0..MaxSize, Change(k) PROVE FALSE
    BY <1>6, <2>7 DEF Change
  <2> QED
    BY <2>1, <2>2, <2>3, <2>4, <2>5, <2>6, <2>7, Labels DEF ByLabel
<1>7. CASE client = "reading"
  <2>1. ASSUME ~slipped', due' # Endless' PROVE due' + Extra' <= Len(down') + left'
    <3>1. ~slipped /\ Len(down) + left + Extra' <= Len(down') + left'
      BY <1>6, <1>7, <2>1
    <3>2. due + Extra <= Len(down) + left
      BY <1>1, <1>2, <1>7, <2>1, <3>1 DEF Whole
    <3> QED
      BY <1>1, <1>2, <1>5, <3>1, <3>2
  <2> QED
    BY <1>1, <1>7, <2>1 DEF Whole
<1>8. CASE client = "waiting" /\ down # <<>>
  <2>1. ASSUME ~slipped', Head(down').chunks # Endless', Head(down').part = "head",
               Head(down').of # Bogus
        PROVE  Head(down').chunks + 1 + Extra' <= Len(down') + left'
    <3>1. /\ ~slipped /\ Len(down) + left + Extra' <= Len(down') + left' /\ Head(down') = Head(down)
      BY <1>6, <1>8, <2>1
    <3>2. Head(down) \in Part
      BY <1>2, <1>8, HeadTailProperties
    <3>3. Head(down).chunks \in Nat
      BY <3>2 DEF Part, Endless
    <3>4. Head(down).chunks + 1 + Extra <= Len(down) + left
      BY <1>1, <1>2, <1>8, <2>1, <3>1 DEF Whole
    <3> QED
      BY <1>1, <1>2, <1>5, <3>1, <3>3, <3>4
  <2> QED
    BY <1>1, <1>8, <2>1 DEF Whole, Bogus
\* An answer is written: its head, and what it promises is to be sent.
<1>9. CASE client = "waiting" /\ down = <<>>
  <2>1. left = 0 /\ pc # "open"
    BY <1>1, <1>2, <1>9 DEF StreamInv, Live, Unanswered, Written
  <2>2. ASSUME NEW n, NEW c \in Nat, Put(Answer(n, c)), c = left' \/ c = Endless, pc' # "closed"
        PROVE  Whole'
    <3>1. down' = <<Answer(n, c)>>
      BY <1>4, <1>9, <2>2, Single
    <3>2. Len(down') = 1 /\ Head(down').chunks = c
      BY <3>1, Single DEF Answer
    <3> QED
      BY <1>1, <1>2, <1>9, <2>2, <3>2 DEF Whole, Extra
  <2>3. ASSUME down' = <<>> PROVE Whole'
    BY <1>1, <1>9, <2>3 DEF Whole
  <2>4. CASE ReadLine \/ HangUp \/ Authorize \/ Dispatch \/ ReadBody \/ Open \/ Streamed
    BY <1>9, <2>3, <2>4 DEF ReadLine, HangUp, Authorize, Dispatch, ReadBody, Open, Streamed
  <2>5. CASE Garbled
    <3>1. down' = <<Answer(Bogus, 0)>>
      BY <1>4, <1>9, <2>5, Single DEF Garbled
    <3>2. Head(down').of = Bogus
      BY <3>1, Single DEF Answer
    <3> QED
      BY <1>1, <1>9, <3>2 DEF Whole, Bogus
  <2>6. CASE Refuse \/ CarryOut \/ Decline
    BY <2>1, <2>2, <2>6 DEF Refuse, CarryOut, Decline, Send, file, range
  <2>7. CASE NoRange
    BY <1>2, <2>2, <2>7 DEF NoRange
  <2>8. ~Stream
    BY <2>1 DEF Stream, More
  <2>9. ASSUME NEW k \in 1..MaxSize, NEW n \in 0..(MaxSize - 1), Promise(k, n) PROVE Whole'
    <3>1. left' = k - n /\ Put(Answer(cur, k - n)) /\ k - n \in Nat /\ pc' = "open"
      BY <2>9 DEF Promise
    <3> QED
      BY <2>2, <3>1
  <2> QED
    BY <2>1, <2>4, <2>5, <2>6, <2>7, <2>8, <2>9, Labels DEF ByLabel
<1> QED
  BY <1>3, <1>7, <1>8, <1>9 DEF Typed, TypeOK

LEMMA WholeStep ==
  ASSUME Typed, StreamInv, Measured, Whole, [Next]_vars
  PROVE  Whole'
<1>1. CASE UNCHANGED vars
  BY <1>1 DEF vars, clientside, file, range, history, Whole, Extra, Endless, Bogus
<1>2. CASE Next
  <2>1. CASE spilt' # 0
    BY <1>2, <2>1, TypeStep, StreamStep, WholeSpilt DEF StreamInv
  <2>2. CASE spilt' = 0
    <3>1. Server \/ (\E k \in 0..MaxSize : Change(k)) => Step
      BY DEF Step
    <3>2. ReadHead \/ ReadChunk \/ Leave \/ (\E r \in Request : Ask(r)) => spilt' = spilt
      BY DEF ReadHead, ReadChunk, Leave, Ask, file
    <3>3. spilt = 0
      BY <1>2, <2>2, <3>1, <3>2, SpiltStays DEF Next, Client, SeesClosed
    <3> QED
      BY <1>2, <2>2, <3>1, <3>3, WholeServer, WholeClient DEF Next, Client, SeesClosed
  <2> QED
    BY <2>1, <2>2
<1> QED
  BY <1>1, <1>2

LEMMA WholeLength == ASSUME Typed, StreamInv, Whole PROVE LengthKept
<1> SUFFICES ASSUME client = "reading", due # Endless, ~slipped
             PROVE  Len(down) + left = due + Extra
  BY DEF LengthKept, Extra
<1>1. /\ due \in Nat /\ Len(down) \in Nat /\ left \in Nat /\ Extra \in {0, 1}
      /\ pc = "closed" => left = 0
  BY LenProperties DEF Typed, TypeOK, Parts, Endless, Extra
<1>2. due + Extra <= Len(down) + left
  BY DEF Whole
<1>3. spilt = 0
  <2>1. Len(got) = Last /\ spilt \in Nat
    BY DEF Typed, TypeOK, Parts
  <2> QED
    BY <2>1 DEF StreamInv, Spill
<1>4. Len(down) + left <= due + Extra
  <2>1. CASE pc = "closed"
    <3>1. down = <<>> \/ Len(down) <= due + 1
      BY <1>3, <2>1 DEF StreamInv, Closed, Ended
    <3> QED
      BY <1>1, <2>1, <3>1 DEF Extra
  <2>2. CASE pc # "closed"
    BY <1>1, <1>3, <2>2 DEF StreamInv, Live, Reading, Extra
  <2> QED
    BY <2>1, <2>2
<1> QED
  BY <1>1, <1>2, <1>4

LEMMA WholeWaits == ASSUME Typed, StreamInv, Whole PROVE NoMutualWait
<1> SUFFICES ASSUME client \in {"waiting", "reading"}, down = <<>>, ServerWaits
             PROVE  client = "reading" /\ (due = Endless \/ slipped)
  BY DEF NoMutualWait
<1>1. pc \in {"line", "body"}
  BY DEF ServerWaits
<1>2. CASE client = "reading"
  <2>1. left = 0 /\ Len(down) = 0 /\ due > 0 /\ due \in Nat
    BY <1>1, <1>2 DEF Typed, TypeOK, Parts, Endless
  <2> QED
    BY <1>1, <1>2, <2>1, WholeLength DEF LengthKept
<1>3. CASE client = "waiting"
  <2>0. spilt = 0
    BY <1>3 DEF StreamInv, Spill, Chunks
  <2>1. Unanswered
    BY <1>1, <1>3, <2>0 DEF StreamInv, Live, Written
  <2> DEFINE S == {HeadOf(Last), BodyOf(Last), BodyOf(Last - 1)}
             b == BodyIn(Last)
  <2>2. b \in Seq(S) /\ (HasBody /\ cur = Last => b # <<>>)
    <3>1. b = IF sent[Last].body = "none" THEN <<>> ELSE <<BodyOf(Last)>>
      BY DEF BodyIn
    <3>2. BodyOf(Last) \in S /\ <<BodyOf(Last)>> # <<>>
      BY Single
    <3> HIDE DEF S, b
    <3>3. <<BodyOf(Last)>> \in Seq(S) /\ <<>> \in Seq(S)
      BY <3>2
    <3> QED
      BY <3>1, <3>2, <3>3 DEF HasBody
  <2>3. HeadOf(Last) \in S /\ BodyOf(Last - 1) \in S /\ HeadOf(Last).part = "head"
    BY DEF HeadOf
  <2>4. \/ pc = "line" /\ up = <<HeadOf(Last)>> \o b
        \/ pc = "line" /\ up = <<BodyOf(Last - 1), HeadOf(Last)>> \o b
        \/ pc = "body" /\ cur = Last /\ up = b
    BY <1>1, <2>1 DEF Unanswered
  <2> HIDE DEF S, b
  <2>5. CASE pc = "line" /\ up = <<HeadOf(Last)>> \o b
    <3>1. up # <<>> /\ Head(up) = HeadOf(Last)
      BY <2>2, <2>3, <2>5, Front
    <3> QED
      BY <2>3, <2>5, <3>1 DEF ServerWaits
  <2>6. CASE pc = "line" /\ up = <<BodyOf(Last - 1), HeadOf(Last)>> \o b
    <3>1. up # <<>> /\ Len(up) > 1
      BY <2>2, <2>3, <2>6, Front
    <3> QED
      BY <2>6, <3>1 DEF ServerWaits
  <2>7. CASE pc = "body" /\ cur = Last /\ up = b
    BY <2>2, <2>7 DEF ServerWaits
  <2> QED
    BY <2>4, <2>5, <2>6, <2>7
<1> QED
  BY <1>2, <1>3

\* Nobody waits for ever while the thread of the connection and the client go on:
\* the only states in which both can do nothing but wait are the end of a 416 and
\* a file that has changed.
THEOREM NoMutualWaitCorrect == Spec => []NoMutualWait
<1>1. Init => Typed /\ Measured /\ StreamInv /\ Whole
  <2>1. Init => Measured
    BY DEF Init, Measured
  <2> QED
    BY <2>1, TypeInit, StreamInit, WholeInit
<1>2. Typed /\ Measured /\ StreamInv /\ Whole /\ [Next]_vars
        => (Typed /\ Measured /\ StreamInv /\ Whole)'
  BY TypeStep, MeasuredStep, StreamStep, WholeStep
<1> QED
  BY <1>1, <1>2, WholeWaits, PTL DEF Spec

\* The Content-Length of a file is kept as long as the file is what it was when
\* it was measured, whatever range was asked for and however slowly it is read
\* (HttpStream).
THEOREM LengthKeptCorrect == Spec => []LengthKept
<1>1. Init => Typed /\ Measured /\ StreamInv /\ Whole
  <2>1. Init => Measured
    BY DEF Init, Measured
  <2> QED
    BY <2>1, TypeInit, StreamInit, WholeInit
<1>2. Typed /\ Measured /\ StreamInv /\ Whole /\ [Next]_vars
        => (Typed /\ Measured /\ StreamInv /\ Whole)'
  BY TypeStep, MeasuredStep, StreamStep, WholeStep
<1> QED
  BY <1>1, <1>2, WholeLength, PTL DEF Spec
=============================================================================
