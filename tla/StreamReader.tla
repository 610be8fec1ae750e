---------------------------- MODULE StreamReader ----------------------------
(***************************************************************************)
(* A streamed answer, from the bytes the upstream sends to the frames the  *)
(* client gets: the generator of OpenAICompatProvider.stream, the peek of  *)
(* the executor at its first chunk, and streamResponse.  A byte is a       *)
(* record of the line it belongs to; what a line says is one symbol, and a *)
(* character beyond ASCII is two bytes, "lead" and "trail".  All streams   *)
(* of the process decode with one TextDecoder.                             *)
(***************************************************************************)
EXTENDS Naturals, SequencesExt

CONSTANTS
    StreamId,   \* the streamed requests of the process
    Texts     \* the texts an upstream may send: sequences of kinds of lines

(* Kinds of lines, with the symbols of their bytes.                        *)
Symbols ==
    [plain |-> <<"data", "json", "nl">>, wide |-> <<"data", "lead", "trail", "nl">>,
     comment |-> <<"lead", "trail", "nl">>, bad |-> <<"data", "broken", "nl">>,
     done |-> <<"data", "[DONE]", "nl">>, unended |-> <<"data", "json">>]

(* Only the last line can lack its newline.                                *)
ASSUME TextsAssumption ==
    /\ Texts \subseteq Seq(DOMAIN Symbols)
    /\ \A t \in Texts : \A n \in 1..Len(t) : t[n] = "unended" => n = Len(t)

VARIABLES
    decoder,  \* what ENCODER holds back: nothing, or the lead of a character
    text,     \* what the upstream of a stream sends
    bytes,    \* the part of it that is not read yet
    buf,      \* decoded, not yet cut into lines
    phase,    \* fetching, pulling (a chunk is asked for), yielded (one was given), ended
    error,    \* errorKind is set
    verdict,  \* what execute made of it: none, ok or failed
    frames    \* what the client got

streamVars == <<decoder, text, bytes, buf, phase, error, verdict, frames>>

Line(t, s, n) == [j \in 1..Len(Symbols[t[n]]) |-> [of |-> {<<s, n>>}, is |-> Symbols[t[n]][j]]]
Bytes(t, s) == FlattenSeq([n \in 1..Len(t) |-> Line(t, s, n)])

StreamInit ==
    /\ decoder = <<>>
    /\ text \in [StreamId -> Texts]
    /\ bytes = [s \in StreamId |-> Bytes(text[s], s)]
    /\ buf = [s \in StreamId |-> <<>>]
    /\ phase = [s \in StreamId |-> "fetching"]
    /\ error = [s \in StreamId |-> FALSE]
    /\ verdict = [s \in StreamId |-> "none"]
    /\ frames = [s \in StreamId |-> <<>>]

-----------------------------------------------------------------------------
(* TextDecoder.decode with stream: true.  A trail completes the lead       *)
(* before it, whoever's it is; either of them alone becomes U+FFFD; a lead *)
(* at the end is held back.                                                *)
IsAt(q, j, symbol) == j \in DOMAIN q /\ q[j].is = symbol

Character(q, j) ==
    IF q[j].is = "lead"
        THEN IF IsAt(q, j + 1, "trail") THEN <<[of |-> q[j].of \cup q[j + 1].of, is |-> "char"]>>
             ELSE IF j = Len(q) THEN <<>> ELSE <<[of |-> q[j].of, is |-> "U+FFFD"]>>
    ELSE IF q[j].is = "trail"
        THEN IF IsAt(q, j - 1, "lead") THEN <<>> ELSE <<[of |-> q[j].of, is |-> "U+FFFD"]>>
    ELSE <<q[j]>>

Decoded(q) == FlattenSeq([j \in 1..Len(q) |-> Character(q, j)])
(* A bug for comparison: a decoder that keeps nothing for the next bytes.  *)
HeldNever(q) == <<>>
Held(q) == IF IsAt(q, Len(q), "lead") THEN <<Last(q)>> ELSE <<>>

(* The first line of a buffer and what follows it.                         *)
LineEnds(q) == {j \in 1..Len(q) : q[j].is = "nl"}
HasLine(q) == LineEnds(q) # {}
LineEnd(q) == CHOOSE j \in LineEnds(q) : \A l \in LineEnds(q) : j <= l
FirstLine(q) == SubSeq(q, 1, LineEnd(q) - 1)
AfterLine(q) == SubSeq(q, LineEnd(q) + 1, Len(q))

IsData(line) == line # <<>> /\ line[1].is = "data"
Payload(line) == Tail(line)
Says(line, symbol) == \E j \in 1..Len(line) : line[j].is = symbol

-----------------------------------------------------------------------------
(* execute reads outcome() once, when peekFirst has its first chunk or     *)
(* has found none; what goes wrong later is not read by anyone.            *)
Judged(s, wrong) == IF verdict[s] # "none" THEN verdict[s] ELSE IF wrong THEN "failed" ELSE "ok"

Done == <<[of |-> {}, is |-> "[DONE]"]>>

(* The generator returns, with or without an error.  A client whose answer *)
(* has begun gets [DONE] either way: streamResponse's catch is for an      *)
(* iterator that throws, and this one does not.                            *)
Return(s, wrong) ==
    /\ phase' = [phase EXCEPT ![s] = "ended"]
    /\ error' = [error EXCEPT ![s] = wrong]
    /\ verdict' = [verdict EXCEPT ![s] = Judged(s, wrong)]
    /\ frames' = IF Judged(s, wrong) = "ok"
                     THEN [frames EXCEPT ![s] = Append(@, Done)] ELSE frames

(* The request is answered with an error status, or fetch rejects.         *)
Refuse(s) ==
    /\ phase[s] = "fetching"
    /\ Return(s, TRUE)
    /\ UNCHANGED <<decoder, text, bytes, buf>>

Accept(s) ==
    /\ phase[s] = "fetching"
    /\ phase' = [phase EXCEPT ![s] = "pulling"]
    /\ UNCHANGED <<decoder, text, bytes, buf, error, verdict, frames>>

(* reader.read() gives the next bytes, as many as have come.               *)
ReadBytes(s) ==
    /\ phase[s] = "pulling" /\ ~HasLine(buf[s]) /\ bytes[s] # <<>>
    /\ \E k \in 1..Len(bytes[s]) :
          LET q == decoder \o SubSeq(bytes[s], 1, k) IN
          /\ decoder' = Held(q)
          /\ buf' = [buf EXCEPT ![s] = @ \o Decoded(q)]
          /\ bytes' = [bytes EXCEPT ![s] = SubSeq(@, k + 1, Len(@))]
    /\ UNCHANGED <<text, phase, error, verdict, frames>>

(* The upstream has ended: what is in the buffer without a newline is      *)
(* dropped.                                                                *)
End(s) ==
    /\ phase[s] = "pulling" /\ ~HasLine(buf[s]) /\ bytes[s] = <<>>
    /\ Return(s, error[s])
    /\ UNCHANGED <<decoder, text, bytes, buf>>

(* The connection breaks, or the timer of the request aborts it.           *)
Break(s) ==
    /\ phase[s] = "pulling" /\ ~HasLine(buf[s])
    /\ Return(s, TRUE)
    /\ UNCHANGED <<decoder, text, bytes, buf>>

(* One round of the inner loop, for a line that is ...                     *)
Cut(s) ==
    /\ phase[s] = "pulling" /\ HasLine(buf[s])
    /\ buf' = [buf EXCEPT ![s] = AfterLine(@)]
    /\ UNCHANGED <<decoder, text, bytes>>

(* ... not of the form data: ...                                           *)
Skip(s) ==
    /\ Cut(s) /\ ~IsData(FirstLine(buf[s]))
    /\ UNCHANGED <<phase, error, verdict, frames>>

(* ... the last, or not JSON ...                                           *)
Finish(s) == Cut(s) /\ Says(FirstLine(buf[s]), "[DONE]") /\ IsData(FirstLine(buf[s])) /\ Return(s, error[s])
Corrupt(s) == Cut(s) /\ Says(FirstLine(buf[s]), "broken") /\ IsData(FirstLine(buf[s])) /\ Return(s, TRUE)

(* ... or a chunk.  U+FFFD is a character like any other to JSON.parse.    *)
Yield(s) ==
    LET line == FirstLine(buf[s]) IN
    /\ Cut(s) /\ IsData(line) /\ ~Says(line, "[DONE]") /\ ~Says(line, "broken")
    /\ phase' = [phase EXCEPT ![s] = "yielded"]
    /\ verdict' = [verdict EXCEPT ![s] = Judged(s, error[s])]
    /\ frames' = [frames EXCEPT ![s] = Append(@, Payload(line))]
    /\ UNCHANGED error

(* streamResponse asks for the next chunk.                                 *)
Pull(s) ==
    /\ phase[s] = "yielded"
    /\ phase' = [phase EXCEPT ![s] = "pulling"]
    /\ UNCHANGED <<decoder, text, bytes, buf, error, verdict, frames>>

StreamStep(s) ==
    \/ Refuse(s) \/ Accept(s) \/ ReadBytes(s) \/ End(s) \/ Break(s)
    \/ Skip(s) \/ Finish(s) \/ Corrupt(s) \/ Yield(s) \/ Pull(s)
StreamNext == \E s \in StreamId : StreamStep(s)
StreamSpec == StreamInit /\ [][StreamNext]_streamVars

-----------------------------------------------------------------------------
(* What a stream is to deliver: its chunks up to the end it announces or   *)
(* the line that cannot be read, each decoded by itself.                   *)
Readable(t, n) == \A l \in 1..n : t[l] \notin {"done", "bad", "unended"}
Told(t, s, n) ==
    IF Readable(t, n) /\ t[n] # "comment"
        THEN <<Payload(FirstLine(Decoded(Line(t, s, n))))>> ELSE <<>>
Due(s) == FlattenSeq([n \in 1..Len(text[s]) |-> Told(text[s], s, n)])

ButDone(frame) == IF frame = Done THEN <<>> ELSE <<frame>>
Chunks(s) == FlattenSeq([j \in 1..Len(frames[s]) |-> ButDone(frames[s][j])])

(* What a client has read is the beginning of what its upstream sent: no   *)
(* chunk is torn, missed or another request's.  It is false of two         *)
(* streams, which decode with one TextDecoder: what one has sent of a      *)
(* character is put before the next bytes of the other.                    *)
NeverTorn == \A s \in StreamId : IsPrefix(Chunks(s), Due(s))

(* However the bytes of one stream are cut: nothing is torn; a request that*)
(* goes on to its next candidate has told its client nothing; and a stream *)
(* that ends as its upstream meant it to has delivered every chunk.        *)
StreamsWhole ==
    /\ NeverTorn
    /\ \A s \in StreamId :
          /\ verdict[s] = "failed" => frames[s] = <<>>
          /\ phase[s] = "ended" /\ ~error[s] => Chunks(s) = Due(s)

(* A client whose answer breaks off is told so.  It is false of this code: *)
(* it reads [DONE].                                                        *)
PartialIsTold == \A s \in StreamId : phase[s] = "ended" /\ error[s] => ~Contains(frames[s], Done)

=============================================================================
