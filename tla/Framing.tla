------------------------------- MODULE Framing -------------------------------
(***************************************************************************)
(* Messages on a byte stream.  The session, the inbox and the directory    *)
(* protocols put a big-endian length before each (library/codec.rs) and    *)
(* read within a limit that depends on what is expected next; the control  *)
(* socket ends each with a newline (wires/host/control.rs).                *)
(*                                                                         *)
(* Bytes are bytes: a digit of a prefix, the tag that opens a body and its *)
(* contents are of one alphabet, so a reader that lost its place would     *)
(* read a length out of a body.  The digits of a prefix are in base 2.     *)
(***************************************************************************)
EXTENDS Integers, Sequences, SequencesExt

CONSTANTS
  Small, Large, \* the limits: before a peer is known, and after
  Lengths,      \* bodies a writer makes, by length
  Messages,     \* bound: how many it writes
  Buffer        \* what a buffered reader of lines takes at once (8 KiB)

\* A prefix has three digits, and says Largest at most (u32::MAX).
Prefix == 3
Largest == 7

LimitAssumption ==
  /\ Small \in Nat /\ Large \in Nat /\ Small <= Large /\ Large <= Largest
  /\ Lengths \subseteq Nat /\ Messages \in Nat /\ Buffer \in Nat \ {0}

NewLine == 2

\* A reader's limits, frame by frame, the last for all that follow: the host of
\* a session (the Hello, the Invoke, what is on stdin), an inbox, a directory's
\* requests (a publish's items last), a subscriber's, a directory's answers and
\* beats, and a line of the control socket.
Limits == [session   |-> <<Small, Small, Large>>,
           inbox     |-> <<Small, Large>>,
           requests  |-> <<Small, Small, Large>>,
           subscribe |-> <<Small>>,
           answers   |-> <<Large>>,
           lines     |-> <<Large>>]
Protocols == DOMAIN Limits
Limit(p, n) == Limits[p][IF n <= Len(Limits[p]) THEN n ELSE Len(Limits[p])]

\* Only what is quiet by nature is read with no deadline: an admitted call's
\* frames, a subscription's beats.
Quiet(p, n) == (p = "session" /\ n > 2) \/ p = "answers"

-----------------------------------------------------------------------------
(* codec.rs *)

BigEndian(n) == <<(n \div 4) % 2, (n \div 2) % 2, n % 2>>
FromBigEndian(s) == 4 * s[1] + 2 * s[2] + s[3]

LengthPrefixed(body) == BigEndian(Len(body)) \o body
HasPrefix(buf) == Len(buf) >= Prefix
PrefixLen(buf) == FromBigEndian(SubSeq(buf, 1, Prefix))
Whole(buf) == HasPrefix(buf) /\ Len(buf) >= Prefix + PrefixLen(buf)
Body(buf) == SubSeq(buf, Prefix + 1, Len(buf))

\* A tag, then its contents: empty for the frame that opens a stream, of one
\* length for an exit code, else JSON or text.
Tags == {0, 1}
Opens(body) == body = <<0>>
Malformed(body) == body = << >> \/ (Head(body) = 0 /\ ~Opens(body))

-----------------------------------------------------------------------------
VARIABLES
  proto,   \* which protocol
  sent,    \* the messages written, the one that was cut included
  stream,  \* bytes written and not read
  ending,  \* the writer's end: "open", "finished", "cut", "reset"
  buf,     \* what is read of the message being read
  got,     \* the messages read
  result   \* "reading", or why the reader stopped

vars == <<proto, sent, stream, ending, buf, got, result>>

Init ==
  /\ proto \in Protocols
  /\ sent = << >> /\ stream = << >> /\ ending = "open"
  /\ buf = << >> /\ got = << >> /\ result = "reading"

Bodies == UNION {{[i \in 1 .. n |-> IF i = 1 THEN t ELSE c] : t \in Tags, c \in {0, 1}} : n \in Lengths}

\* An encoder's own checks.  A session's frame is only as long as its prefix can
\* say; the others refuse what no reader of theirs would take.
Encodes(p, body) ==
  CASE p = "lines" -> TRUE
    [] p = "session" -> Len(body) <= Largest
    [] OTHER -> Len(body) <= Large
Encode(p, body) == IF p = "lines" THEN Append(body, NewLine) ELSE LengthPrefixed(body)

Write(body) ==
  /\ ending = "open" /\ Len(sent) < Messages
  /\ Encodes(proto, body)
  /\ sent' = Append(sent, body)
  /\ stream' = stream \o Encode(proto, body)
  /\ UNCHANGED <<proto, ending, buf, got, result>>

\* The writer ends between messages: it has no more, one that it cannot encode,
\* or it is gone; its stream is finished as it is dropped.
Finish ==
  /\ ending = "open"
  /\ ending' = "finished"
  /\ UNCHANGED <<proto, sent, stream, buf, got, result>>

\* It ends while it writes, after n bytes of the message, and the stream with it.
Cut(body, n) ==
  /\ ending = "open" /\ Len(sent) < Messages
  /\ Encodes(proto, body) /\ n < Len(Encode(proto, body))
  /\ sent' = Append(sent, body)
  /\ stream' = stream \o SubSeq(Encode(proto, body), 1, n)
  /\ ending' = "cut"
  /\ UNCHANGED <<proto, buf, got, result>>

\* The connection is lost.
Reset ==
  /\ ending # "reset"
  /\ ending' = "reset"
  /\ stream' = << >>
  /\ UNCHANGED <<proto, sent, buf, got, result>>

-----------------------------------------------------------------------------
(* A reader of frames: read_frame_within, read_capped. *)

Framed == proto # "lines"
Cap == Limit(proto, Len(got) + 1)
TooLarge == Framed /\ HasPrefix(buf) /\ PrefixLen(buf) > Cap

\* No further than the end of the prefix, then of the body.
\* Mutant of Wanted: all that has arrived is taken.
WantedAll == Len(stream)
Wanted == (IF HasPrefix(buf) THEN Prefix + PrefixLen(buf) ELSE Prefix) - Len(buf)

AtEnd == ending \in {"finished", "cut"} /\ stream = << >>

Stop(why) ==
  /\ result' = why
  /\ UNCHANGED <<proto, sent, stream, ending, buf, got>>

Read(n) ==
  /\ Framed /\ result = "reading"
  /\ ~Whole(buf) /\ ~TooLarge
  /\ n <= Wanted
  /\ buf' = buf \o SubSeq(stream, 1, n)
  /\ stream' = SubSeq(stream, n + 1, Len(stream))
  /\ UNCHANGED <<proto, sent, ending, got, result>>

Refuse ==
  /\ result = "reading" /\ TooLarge
  /\ Stop("too large")

Decode ==
  /\ Framed /\ result = "reading" /\ Whole(buf) /\ ~TooLarge
  /\ IF Malformed(Body(buf)) THEN Stop("malformed")
     ELSE /\ got' = Append(got, Body(buf))
          /\ buf' = << >>
          /\ UNCHANGED <<proto, sent, stream, ending, result>>

\* The end is clean unless a whole prefix was read.
Ends ==
  /\ Framed /\ result = "reading" /\ AtEnd
  /\ ~Whole(buf) /\ ~TooLarge
  /\ Stop(IF HasPrefix(buf) THEN "truncated" ELSE "end")

Fails ==
  /\ result = "reading" /\ ending = "reset"
  /\ Stop("lost")

\* A reader that waited too long does not read on.
TimesOut ==
  /\ result = "reading" /\ ~Quiet(proto, Len(got) + 1)
  /\ Stop("timed out")

-----------------------------------------------------------------------------
(* A reader of lines: read_capped_line, over its buffer of n bytes. *)

ReadLine(n) ==
  LET chunk == SubSeq(stream, 1, n)
      at == SelectInSeq(chunk, LAMBDA b : b = NewLine)
  IN
  /\ ~Framed /\ result = "reading"
  /\ IF at > 0 THEN /\ got' = Append(got, buf \o SubSeq(chunk, 1, at - 1))
                    /\ buf' = << >>
                    /\ stream' = SubSeq(stream, at + 1, Len(stream))
                    /\ UNCHANGED result
     ELSE /\ buf' = buf \o chunk
          /\ stream' = SubSeq(stream, n + 1, Len(stream))
          /\ result' = IF Len(buf') > Cap THEN "too large" ELSE result
          /\ UNCHANGED got
  /\ UNCHANGED <<proto, sent, ending>>

\* A last line needs no newline.
LinesEnd ==
  /\ ~Framed /\ result = "reading" /\ AtEnd
  /\ result' = "end"
  /\ got' = IF buf = << >> THEN got ELSE Append(got, buf)
  /\ buf' = << >>
  /\ UNCHANGED <<proto, sent, stream, ending>>

-----------------------------------------------------------------------------
Next ==
  \/ \E body \in Bodies : Write(body) \/ (\E n \in 0 .. Len(body) + Prefix : Cut(body, n))
  \/ Finish \/ Reset
  \/ \E n \in 1 .. Len(stream) : Read(n)
  \/ Refuse \/ Decode \/ Ends \/ Fails \/ TimesOut
  \/ \E n \in 1 .. (IF Len(stream) < Buffer THEN Len(stream) ELSE Buffer) : ReadLine(n)
  \/ LinesEnd

Spec == Init /\ [][Next]_vars

-----------------------------------------------------------------------------
TypeOK ==
  /\ ending \in {"open", "finished", "cut", "reset"}
  /\ Len(sent) <= Messages /\ Len(got) <= Messages

\* However the bytes arrive, the messages read are those written, in order and
\* each within the limit of its place; a reader that stops of itself has cause:
\* the next message is over the limit or is no message, and at an end nothing
\* that was written whole is left (codec.rs:37-64, transport.rs:281-321,
\* inbox.rs:123-150, wire.rs:43-94, control.rs:312-345).
MessagesAsWritten ==
  /\ Len(got) <= Len(sent)
  /\ \A i \in DOMAIN got :
       /\ \/ got[i] = sent[i]
          \/ ~Framed /\ result = "end" /\ i = Len(sent) /\ IsPrefix(got[i], sent[i])
       /\ Len(got[i]) <= Limit(proto, i) + (IF Framed THEN 0 ELSE Buffer - 1)
  /\ result = "too large" => Len(sent[Len(got) + 1]) > Cap
  /\ result = "malformed" => Malformed(sent[Len(got) + 1])
  /\ result = "end" => Len(got) >= Len(sent) - (IF ending = "finished" THEN 0 ELSE 1)
  /\ Framed => Len(buf) <= Prefix + Cap
=============================================================================
