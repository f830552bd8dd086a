------------------------------ MODULE HttpStream ------------------------------
(***************************************************************************)
(* One keep-alive connection to the HTTP server of sunnyconf: what         *)
(* _Handler of src/daemon/server.py reads from it and writes to it.        *)
(*                                                                         *)
(* The connection is two streams. A request is a head and perhaps a body,  *)
(* which the handler has to take off the stream itself; an answer is a     *)
(* head that promises a number of chunks, and the chunks. The client sends *)
(* a request once it has read the answer to the one before, and may go at  *)
(* any moment. Short answers (JSON, thumbnails) are one piece, the head; a *)
(* video file is sent in chunks and may be removed or built anew by other  *)
(* threads meanwhile (VideoCache). A body is a JSON object on one line or  *)
(* on several.                                                             *)
(***************************************************************************)
EXTENDS Integers, Sequences

CONSTANTS
  MaxRequests,  \* bound: requests on the connection
  MaxSize,      \* chunks of the largest file
  ErrorSize     \* chunks that an answer 500 is at most as long as

ASSUME BoundAssumption ==
  MaxRequests \in Nat /\ MaxSize \in Nat \ {0} /\ ErrorSize \in Nat \ {0}

VARIABLES
  sent,         \* the requests sent so far
  up,           \* what the server has still to read: heads and bodies
  down,         \* what the client has still to read: heads and chunks
  pc,           \* the server: line, auth, gate, body, act, stat, open, stream, closed
  cur,          \* the request it works on
  text,         \* the body it has read: none, cut or whole
  from, left,   \* the range: its first chunk, and the chunks promised, not sent
  rest,         \* the chunks of the opened file from there on
  size,         \* the chunks of the file between being measured and opened; 0: it has gone
  client,       \* idle, waiting, reading or gone
  due,          \* the chunks it has still to read; Endless: until the server closes
  \* history, which no action reads:
  got,          \* whose answers the client has read; Bogus: of no request of its own
  done,         \* the requests that had an effect
  unread,       \* the requests whose body the handler left on the stream
  slipped,      \* the file has changed between being measured and being opened
  spilt         \* the first whose 500 was longer than its promised range; 0: none

range == <<from, left, rest>>
file == <<range, size, slipped, spilt>>
clientside == <<sent, client, due, got>>
history == <<done, unread>>
vars == <<clientside, up, down, pc, cur, text, file, history>>

Bogus == 0
Endless == MaxSize + 1

\* Where a request goes. GET, DELETE and OPTIONS ("get", and "file" for a video)
\* read no body. A gated one (PUT /params, POST /restore) may be refused before its
\* body is read; one that reads (PUT /maps, POST clip) reads at once.
Endpoint == {"get", "file", "reads", "gated", "pair", "action", "unknown"}
Request == {r \in [to : Endpoint, body : {"none", "line", "lines"}, cut : BOOLEAN] :
              r.body = "none" => ~r.cut}

Part == [of : 0..MaxRequests, part : {"head", "body", "chunk"}, chunks : 0..Endless]
Answer(n, c) == [of |-> n, part |-> "head", chunks |-> c]
Chunk(n) == [of |-> n, part |-> "chunk", chunks |-> 0]
HeadOf(n) == [of |-> n, part |-> "head", chunks |-> 0]
BodyOf(n) == [of |-> n, part |-> "body", chunks |-> 0]

Init ==
  /\ sent = <<>> /\ up = <<>> /\ down = <<>>
  /\ pc = "line" /\ cur = 0 /\ text = "none"
  /\ from = 0 /\ left = 0 /\ rest = 0 /\ size = 0
  /\ client = "idle" /\ due = 0
  /\ got = <<>> /\ done = {} /\ unread = {} /\ slipped = FALSE /\ spilt = 0

Goes == sent[cur].to
HasBody == sent[cur].body # "none"
\* The body of the current request is next on the stream.
Pending == up # <<>> /\ Head(up) = BodyOf(cur)
\* It will not come any more.
BodyCut == HasBody /\ up = <<>> /\ client = "gone"

\* What is written to a client that has gone is lost.
Put(p) == down' = IF client = "gone" THEN <<>> ELSE Append(down, p)

\* One answer in one piece, and on to the next request.
Send(n) == Put(Answer(n, 0)) /\ pc' = "line"

-----------------------------------------------------------------------------
(* The client.                                                              *)

\* A request is sent, whole, or cut short by the client going away.
Ask(r) ==
  /\ client = "idle" /\ Len(sent) < MaxRequests
  /\ sent' = Append(sent, r)
  /\ LET n == Len(sent) + 1
     IN  up' = up \o <<HeadOf(n)>> \o (IF r.body = "none" \/ r.cut THEN <<>> ELSE <<BodyOf(n)>>)
  /\ client' = IF r.cut THEN "gone" ELSE "waiting"
  /\ down' = IF r.cut THEN <<>> ELSE down
  /\ UNCHANGED <<due, got, pc, cur, text, file, history>>

\* The head of an answer, which the client takes for the answer to its last
\* request whatever it is. Chunks no head has promised are nonsense to it.
ReadHead ==
  /\ client = "waiting" /\ down # <<>>
  /\ LET p == Head(down)
     IN  /\ got' = Append(got, IF p.part = "head" THEN p.of ELSE Bogus)
         /\ due' = p.chunks
         /\ client' = IF p.part = "chunk" THEN "gone"
                      ELSE IF p.chunks = 0 THEN "idle" ELSE "reading"
  /\ down' = Tail(down)
  /\ UNCHANGED <<sent, up, pc, cur, text, file, history>>

\* Within a body everything counts as content, an answer to an error too.
ReadChunk ==
  /\ client = "reading" /\ down # <<>>
  /\ due' = IF due = Endless THEN due ELSE due - 1
  /\ client' = IF due' = 0 THEN "idle" ELSE "reading"
  /\ down' = Tail(down)
  /\ UNCHANGED <<sent, up, got, pc, cur, text, file, history>>

\* The client goes, by its own will or because the server has closed.
Leave ==
  /\ client # "gone" /\ client' = "gone" /\ due' = 0
  /\ down' = <<>>
  /\ UNCHANGED <<sent, up, got, pc, cur, text, file, history>>

SeesClosed == pc = "closed" /\ down = <<>> /\ Leave

-----------------------------------------------------------------------------
(* The server: the request line.                                            *)

ReadLine ==
  /\ pc = "line" /\ up # <<>> /\ Head(up).part = "head"
  /\ cur' = Head(up).of /\ up' = Tail(up)
  /\ pc' = "auth"
  /\ UNCHANGED <<clientside, down, text, file, history>>

\* Left-over bytes of a body where a request line should be: the base handler
\* answers 400 or 501 and closes. A body of several lines is a line by itself;
\* one of a single line ends with the head of the next request.
Garbled ==
  /\ pc = "line" /\ up # <<>> /\ Head(up).part = "body"
  /\ \/ sent[Head(up).of].body = "lines"
     \/ Len(up) > 1 \/ client = "gone"
  /\ Put(Answer(Bogus, 0)) /\ pc' = "closed" /\ up' = <<>>
  /\ UNCHANGED <<clientside, cur, text, file, history>>

\* The client has gone and everything it sent is read.
HangUp ==
  /\ pc = "line" /\ up = <<>> /\ client = "gone"
  /\ pc' = "closed"
  /\ UNCHANGED <<clientside, up, down, cur, text, file, history>>

-----------------------------------------------------------------------------
(* The server: the answer.                                                  *)

Leaves == unread' = IF HasBody THEN unread \cup {cur} ELSE unread

\* Answers that leave the body unread: no token (all but the open path /pair);
\* no such path; the car, the limiter or a key that may not be written, in the
\* handlers that look at these first; an exception there; no such file.
Refuse ==
  /\ \/ pc = "auth" /\ Goes # "pair"
     \/ pc = "gate" /\ Goes \in {"gated", "pair", "unknown"}
     \/ pc = "stat"
  /\ Send(cur) /\ Leaves
  /\ UNCHANGED <<clientside, up, cur, text, file, done>>

Authorize ==
  /\ pc = "auth" /\ pc' = "gate"
  /\ UNCHANGED <<clientside, up, down, cur, text, file, history>>

\* Mutant of Dispatch: actions do not drain their body.
DispatchUndrained ==
  /\ pc = "gate" /\ Goes # "unknown"
  /\ pc' = CASE Goes \in {"get", "action"} -> "act" [] Goes = "file" -> "stat" [] OTHER -> "body"
  /\ IF Goes \in {"get", "file"} THEN Leaves ELSE UNCHANGED unread
  /\ UNCHANGED <<clientside, up, down, cur, text, file, done>>

\* Not refused: on to the answer or the file, which leave a body where it is, or
\* to the body.
Dispatch ==
  /\ pc = "gate" /\ Goes # "unknown"
  /\ pc' = CASE Goes = "get" -> "act" [] Goes = "file" -> "stat" [] OTHER -> "body"
  /\ IF Goes \in {"get", "file"} THEN Leaves ELSE UNCHANGED unread
  /\ UNCHANGED <<clientside, up, down, cur, text, file, done>>

\* _body_json, or the drain of an action: Content-Length bytes, or what comes
\* before the client has gone.
ReadBody ==
  /\ pc = "body" /\ (Pending \/ ~HasBody \/ BodyCut)
  /\ text' = IF Pending THEN "whole" ELSE IF HasBody THEN "cut" ELSE "none"
  /\ up' = IF Pending THEN Tail(up) ELSE up
  /\ pc' = "act"
  /\ UNCHANGED <<clientside, down, cur, file, history>>

\* What does not parse is {}, and lacks the key that each of these asks for
\* (server.py 718, 809, 1051, 1092, 1221, 1254).
Carries == Goes \in {"reads", "gated", "pair"} => text = "whole"

CarryOut ==
  /\ pc = "act" /\ Carries
  /\ Send(cur) /\ done' = done \cup {cur} /\ text' = "none"
  /\ UNCHANGED <<clientside, up, cur, file, unread>>

\* 400, 401, 404, 409 or 500, with what there is of the body read. A pin that is
\* wrong, or has not arrived, is counted (_pair).
Decline ==
  /\ pc = "act"
  /\ Send(cur) /\ text' = "none"
  /\ done' = done \/ (Goes = "pair" /\ done' = done \cup {cur})
  /\ UNCHANGED <<clientside, up, cur, file, unread>>

-----------------------------------------------------------------------------
(* The server: _send_file.                                                  *)

\* A range past the end: 416 with no Content-Length, which the client can only
\* read until the server closes.
NoRange ==
  /\ pc = "stat"
  /\ Put(Answer(cur, Endless)) /\ pc' = "line"
  /\ UNCHANGED <<clientside, up, cur, text, file, history>>

\* Mutant of Promise: Content-Length is the size of the file.
PromiseAll(k, n) ==
  /\ pc = "stat" /\ n < k
  /\ size' = k /\ from' = n /\ left' = k - n /\ rest' = 0 /\ slipped' = FALSE
  /\ Put(Answer(cur, k)) /\ pc' = "open"
  /\ UNCHANGED <<clientside, up, cur, text, spilt, history>>

\* A file of k chunks is measured and the rest of it from chunk n on promised.
Promise(k, n) ==
  /\ pc = "stat" /\ n < k
  /\ size' = k /\ from' = n /\ left' = k - n /\ rest' = 0 /\ slipped' = FALSE
  /\ Put(Answer(cur, k - n)) /\ pc' = "open"
  /\ UNCHANGED <<clientside, up, cur, text, spilt, history>>

\* The trim or a delete removes it, or it is built anew, shorter or longer. Once
\* it is open it stays what it was.
Change(k) ==
  /\ pc = "open" /\ k # size /\ size' = k /\ slipped' = TRUE
  /\ UNCHANGED <<clientside, up, down, pc, cur, text, range, spilt, history>>

Open ==
  /\ pc = "open" /\ size > 0
  /\ rest' = (IF size > from THEN size - from ELSE 0) /\ pc' = "stream"
  /\ from' = 0 /\ size' = 0
  /\ UNCHANGED <<clientside, up, down, cur, text, left, slipped, spilt, history>>

\* It has gone: the exception is answered 500, in the middle of the answer. Head
\* and body of that are c chunks, fewer or more than were promised.
OpenFails(c) ==
  /\ pc = "open" /\ size = 0
  /\ down' = IF client = "gone" THEN <<>> ELSE down \o [i \in 1..c |-> Chunk(cur)]
  /\ spilt' = IF c > left /\ spilt = 0 THEN cur ELSE spilt
  /\ pc' = "line" /\ from' = 0 /\ left' = 0
  /\ UNCHANGED <<clientside, up, cur, text, rest, size, slipped, history>>

\* Mutant of More: the file is sent to its end, whatever was promised.
MoreToSend == rest > 0

More == left > 0 /\ rest > 0

Stream ==
  /\ pc = "stream" /\ More
  /\ Put(Chunk(cur)) /\ left' = left - 1 /\ rest' = rest - 1
  /\ UNCHANGED <<clientside, up, pc, cur, text, from, size, slipped, spilt, history>>

\* All is sent, the file ends too soon, or the player has dropped the connection.
Streamed ==
  /\ pc = "stream" /\ (~More \/ client = "gone")
  /\ pc' = "line" /\ left' = 0 /\ rest' = 0
  /\ UNCHANGED <<clientside, up, down, cur, text, from, size, slipped, spilt, history>>

-----------------------------------------------------------------------------
Server ==
  \/ ReadLine \/ Garbled \/ HangUp \/ Refuse \/ Authorize \/ Dispatch \/ ReadBody
  \/ CarryOut \/ Decline \/ NoRange \/ Open \/ Stream \/ Streamed
  \/ \E c \in 1..ErrorSize : OpenFails(c)
  \/ \E k \in 1..MaxSize, n \in 0..(MaxSize - 1) : Promise(k, n)
Client == ReadHead \/ ReadChunk \/ SeesClosed

Next ==
  \/ Server \/ Client \/ Leave
  \/ \E r \in Request : Ask(r)
  \/ \E k \in 0..MaxSize : Change(k)

\* The thread of the connection and the client's reading go on; nobody has to
\* ask, to leave or to change a file.
Spec == Init /\ [][Next]_vars
FairSpec == Spec /\ WF_vars(Server) /\ WF_vars(Client)

-----------------------------------------------------------------------------
(* Properties.                                                              *)

TypeOK ==
  /\ sent \in Seq(Request) /\ Len(sent) <= MaxRequests
  /\ up \in Seq(Part) /\ down \in Seq(Part)
  /\ pc \in {"line", "auth", "gate", "body", "act", "stat", "open", "stream", "closed"}
  /\ cur \in 0..Len(sent) /\ text \in {"none", "cut", "whole"}
  /\ from \in 0..MaxSize /\ left \in 0..MaxSize /\ rest \in 0..MaxSize /\ size \in 0..MaxSize
  /\ client \in {"idle", "waiting", "reading", "gone"} /\ due \in 0..Endless
  /\ got \in Seq(0..MaxRequests) /\ done \subseteq 1..Len(sent) /\ unread \subseteq 1..Len(sent)
  /\ slipped \in BOOLEAN /\ spilt \in 0..Len(sent)

\* What the client reads as the answer to its n-th request is the answer to its
\* n-th request, through every mix of endpoints, bodies, ranges and files that
\* change; nothing is taken for another request or runs twice (_action,
\* _body_json, _send_file, authorized). Two exceptions: a body left on the stream
\* costs the client one later request, which has no effect, and the connection
\* (refusals; do_GET and do_DELETE, which read none); and so does a 500 that is
\* longer than the range it comes in (do_GET), but that request may be carried out.
InStep ==
  \A i \in 1..Len(got) :
    \/ got[i] = i
    \/ /\ got[i] = Bogus /\ i = Len(got)
       /\ \/ (\E k \in unread : k < i) /\ i \notin done /\ pc = "closed"
          \/ i - 1 = spilt /\ spilt # 0 /\ client = "gone"

\* Content-Length is kept: what the client has still to read of an answer is what
\* is on the stream and what the server has still to send of the range, and one
\* piece of nonsense once the server has closed over a body left unread -- but for
\* a 416, and a file that changed between being measured and being opened
\* (_send_file: stat, the range, open, seek and the loop are steps of their own).
LengthKept ==
  client = "reading" /\ due # Endless /\ ~slipped =>
    Len(down) + left = due + (IF pc = "closed" THEN 1 ELSE 0)

\* Every request is answered in full, or the connection ends, except that a
\* client waits in vain for the end of a 416 and for the rest of a file that
\* was removed or cut between being measured and being opened (_send_file).
Answered ==
  /\ client = "waiting" ~> client # "waiting"
  /\ client = "reading" ~> (client # "reading" \/ due = Endless \/ slipped)

===============================================================================
