------------------------------- MODULE Download -------------------------------
(***************************************************************************)
(* One delivery of an import: the file is fetched from a web address and   *)
(* streamed into S3 (apps/workers fetch-url.ts, import-from-url.ts;        *)
(* packages/storage client.ts putStream).  ImportJobs has this as Fetch    *)
(* and Put.  A file is the sequence 1, 2, ... of its bytes, with units as  *)
(* big as the bounds need.                                                 *)
(***************************************************************************)
EXTENDS Naturals, Sequences

CONSTANTS Hosts, Private,  \* the addresses, and those that are not to be reached: names of private networks
                           \* and IPv4 literals (one of IPv6 is written in brackets, which isIP does not know:
                           \* the code asks it like any other)
          MaxRedirects,
          MaxBytes,        \* how big a file of each kind may be
          Lengths,         \* how long a body is
          MaxChunk,        \* how much arrives at once
          Sniffed,         \* the bytes that tell what a file is
          PartBytes,       \* the bytes of a part
          None

VARIABLES pull,    \* what the worker does, where it is asking, after how many redirects
          answer,  \* the body: its kind, its length, and the length that was declared
          read,    \* how much of the body arrived
          first,   \* what peek read and replay has not given back yet
          buffer,  \* what putStream holds
          taken,   \* how many bytes putStream took
          parts,   \* how long the parts are that were sent
          joined,  \* what S3 has of them, in order
          session, \* the multipart session: "none", "open", "over", or "left": not known, or not aborted
          object   \* the object under the key, or None

vars == <<pull, answer, read, first, buffer, taken, parts, joined, session, object>>

body == <<answer, read, first>>
store == <<buffer, taken, parts, joined, session, object>>

NoAnswer == [kind |-> None, length |-> 0, declared |-> None]
Kinds == DOMAIN MaxBytes

Init ==
  /\ pull \in [at : {"open"}, host : Hosts, hops : {0}]
  /\ answer = NoAnswer /\ read = 0 /\ first = <<>>
  /\ buffer = <<>> /\ taken = 0 /\ parts = <<>> /\ joined = <<>> /\ session = "none" /\ object = None

Goes(at) == pull' = [pull EXCEPT !.at = at]

-----------------------------------------------------------------------------
\* open: a request for an address, and what becomes of it.

\* Refused, also where a redirect leads to: the resolver and the check of a literal together.
Refused(h) == h \in Private

Refuse ==
  /\ pull.at = "open" /\ Refused(pull.host) /\ Goes("refused")
  /\ UNCHANGED <<body, store>>

Redirect ==
  /\ pull.at = "open" /\ ~Refused(pull.host)
  /\ IF pull.hops >= MaxRedirects THEN Goes("refused")
     ELSE \E h \in Hosts : pull' = [at |-> "open", host |-> h, hops |-> pull.hops + 1]
  /\ UNCHANGED <<body, store>>

\* A status other than 200.
StatusRefused ==
  /\ pull.at = "open" /\ ~Refused(pull.host) /\ Goes("refused")
  /\ UNCHANGED <<body, store>>

Answers ==
  /\ pull.at = "open" /\ ~Refused(pull.host)
  /\ \E n \in Lengths, k \in Kinds \cup {None} :
       \E declared \in {None} \cup ({n} \ {0}) :
         answer' = [kind |-> IF n = 0 THEN None ELSE k, length |-> n, declared |-> declared]
  /\ Goes("peek")
  /\ UNCHANGED <<read, first, store>>

\* The address cannot be reached, the connection breaks or goes silent: the job is tried again, once
\* putStream has aborted what it began.
Breaks ==
  /\ \/ pull.at \in {"open", "peek"} /\ Goes("failed")
     \/ pull.at = "put" /\ first = <<>> /\ read < answer.length /\ Goes("abort")
  /\ UNCHANGED <<body, store>>

-----------------------------------------------------------------------------
\* peek: the first bytes, which say what the file is.

Chunk(n) == [i \in 1..n |-> read + i]
Chunks == {n \in 1..MaxChunk : read + n <= answer.length}

Peek ==
  /\ pull.at = "peek" /\ Len(first) < Sniffed
  /\ \E n \in Chunks : first' = first \o Chunk(n) /\ read' = read + n
  /\ UNCHANGED <<pull, answer, store>>

Sniff ==
  /\ pull.at = "peek" /\ (Len(first) >= Sniffed \/ read = answer.length)
  /\ IF \/ answer.kind = None
        \/ answer.declared # None /\ answer.declared > MaxBytes[answer.kind]
     THEN Goes("refused") ELSE Goes("put")
  /\ UNCHANGED <<body, store>>

-----------------------------------------------------------------------------
\* putStream.

\* (Mutant: what was taken before this chunk is compared.)
TooLargeLate(n) == taken > MaxBytes[answer.kind]

\* More than the file may have, with n bytes more.
TooLarge(n) == taken + n > MaxBytes[answer.kind]

Takes(chunk) ==
  /\ taken' = taken + Len(chunk)
  /\ IF TooLarge(Len(chunk)) THEN Goes("abort-large") /\ UNCHANGED buffer
     ELSE /\ buffer' = buffer \o chunk
          /\ Goes(IF Len(buffer') >= PartBytes THEN "flush" ELSE "put")

\* (Mutant: replay goes on where peek stopped.)
ReplayNothing == <<>>

\* replay: what was peeked at comes first.
Replay == first

TakePeeked ==
  /\ pull.at = "put" /\ first # <<>>
  /\ Takes(Replay) /\ first' = <<>>
  /\ UNCHANGED <<answer, read, parts, joined, session, object>>

TakeChunk ==
  /\ pull.at = "put" /\ first = <<>>
  /\ \E n \in Chunks : Takes(Chunk(n)) /\ read' = read + n
  /\ UNCHANGED <<answer, first, parts, joined, session, object>>

\* flush: the session is started by the first part.  It may be started and its id be lost.
StartSession ==
  /\ pull.at \in {"flush", "last"} /\ session = "none"
  /\ \/ session' = "open" /\ UNCHANGED pull
     \/ Goes("abort") /\ session' \in {"none", "left"}
  /\ UNCHANGED <<body, buffer, taken, parts, joined, object>>

SendPart ==
  /\ pull.at \in {"flush", "last"} /\ session = "open"
  /\ \/ /\ parts' = Append(parts, Len(buffer)) /\ joined' = joined \o buffer /\ buffer' = <<>>
        /\ Goes(IF pull.at = "last" THEN "complete" ELSE "put")
     \/ Goes("abort") /\ UNCHANGED <<parts, joined, buffer>>
  /\ UNCHANGED <<body, taken, session, object>>

EndOfBody ==
  /\ pull.at = "put" /\ first = <<>> /\ read = answer.length
  /\ Goes(CASE session = "none" -> "single" [] session # "none" /\ buffer # <<>> -> "last" [] OTHER -> "complete")
  /\ UNCHANGED <<body, store>>

\* One PUT.  A call that fails may have done what it was for.
PutSingle ==
  /\ pull.at = "single"
  /\ \/ object' = buffer /\ \E at \in {"stored", "failed"} : Goes(at)
     \/ Goes("failed") /\ UNCHANGED object
  /\ UNCHANGED <<body, buffer, taken, parts, joined, session>>

Complete ==
  /\ pull.at = "complete"
  /\ \/ /\ object' = joined /\ session' = "over"
        /\ \E at \in {"stored", "abort"} : Goes(at)
     \/ Goes("abort") /\ UNCHANGED <<object, session>>
  /\ UNCHANGED <<body, buffer, taken, parts, joined>>

\* The catch: the session goes, unless that fails too, and the error is passed on.
Abort ==
  /\ pull.at \in {"abort", "abort-large"}
  /\ session' \in IF session = "open" THEN {"over", "left"} ELSE {session}
  /\ Goes(IF pull.at = "abort-large" THEN "refused" ELSE "failed")
  /\ UNCHANGED <<body, buffer, taken, parts, joined, object>>

\* The worker dies.
Crash ==
  /\ pull.at \notin {"stored", "refused", "failed", "dead"} /\ Goes("dead")
  /\ UNCHANGED <<body, store>>

Next == \/ Refuse \/ Redirect \/ StatusRefused \/ Answers \/ Breaks \/ Peek \/ Sniff
        \/ TakePeeked \/ TakeChunk \/ StartSession \/ SendPart \/ EndOfBody \/ PutSingle \/ Complete
        \/ Abort \/ Crash

Spec == Init /\ [][Next]_vars

-----------------------------------------------------------------------------
\* Properties.

\* Every variable holds a value of its kind.
TypeOK ==
  /\ pull.host \in Hosts /\ pull.hops \in 0..MaxRedirects
  /\ answer.kind \in Kinds \cup {None} /\ answer.length \in Lengths \cup {0}
  /\ read \in 0..answer.length /\ Len(first) <= read /\ Len(buffer) <= taken
  /\ session \in {"none", "open", "over", "left"}

\* What is stored and goes on to be registered is the whole file, in order, no bigger than its kind may
\* be, in parts that S3 takes; of a file that is refused nothing is left, but for a session that could
\* not be aborted (client.ts:255-256: "leaves nothing behind"; import-from-url.ts peek).
StoredWhole ==
  /\ pull.at = "stored" =>
       /\ object = [i \in 1..answer.length |-> i] /\ taken = answer.length
       /\ answer.length <= MaxBytes[answer.kind] /\ session # "open"
       /\ \A i \in 1..(Len(parts) - 1) : parts[i] >= PartBytes
  /\ pull.at = "refused" => object = None /\ session # "open"
=============================================================================
