------------------------------ MODULE Creadline ------------------------------
(***************************************************************************)
(* creadline_r (src/creadline.c): one line per call from a byte stream,    *)
(* read in blocks into a line buffer that doubles when another block would *)
(* not fit. What is behind the newline stays in the caller's buffer, which *)
(* holds one block, and begins the next line.                              *)
(*                                                                         *)
(* Bytes are "nl", "cr", "nul" and any others. A NUL byte is where every   *)
(* string function of C stops: the search for the newline (strnpos) and    *)
(* the two copies (strncpy, which fills the rest with NULs).               *)
(***************************************************************************)
EXTENDS Naturals, Sequences, SequencesExt

CONSTANTS
  Bytes,   \* the bytes peers send
  Block,   \* CREADLINE_BLOCK_SIZE
  MaxSize  \* __MAX_LINEBUF_SIZE__

ASSUME BytesAssumption == {"nl", "cr", "nul"} \subseteq Bytes
ASSUME SizesAssumption ==
  Block \in Nat /\ MaxSize \in Nat /\ 1 <= Block /\ Block <= MaxSize

VARIABLES
  wire,    \* bytes the socket holds
  eof,     \* has the peer closed its end?
  buffer,  \* buffer->buf up to buffer->nbytes
  linebuf, \* linebuf up to linebuf_nbytes
  size,    \* linebuf_size
  nl_pos,  \* the place of the newline in linebuf, counted from 1, 0 for none
  call,    \* where the call is: "none", "room", "read", "split"
  ret      \* the outcome of the last call

stream == <<wire, eof>>
crl    == <<buffer, linebuf, size, nl_pos, call, ret>>

\* A call returns a line, an empty stream (dst is NULL) or an error.
NoLine     == [kind |-> "none", line |-> <<>>]
Line(s)    == [kind |-> "line", line |-> s]
EndOfFile  == [kind |-> "eof", line |-> <<>>]
Error      == [kind |-> "error", line |-> <<>>]

----------------------------------------------------------------------------
(* The string functions.                                                   *)

Nuls(s) == {i \in DOMAIN s : s[i] = "nul"}

\* strnpos for the newline: the first one with no NUL before it.
Strnpos(s) ==
  LET at == {i \in DOMAIN s : s[i] = "nl" /\ \A j \in Nuls(s) : j > i}
  IN  IF at = {} THEN 0 ELSE CHOOSE i \in at : \A j \in at : i <= j

\* strncpy of the whole of s: behind a NUL there are only NULs.
Strncpy(s) == [i \in DOMAIN s |-> IF \E j \in Nuls(s) : j < i THEN "nul" ELSE s[i]]

----------------------------------------------------------------------------
(* One call, from its begin to its return.                                 *)

Return(r) ==
  /\ call' = "none"
  /\ ret' = r
  /\ linebuf' = <<>>
  /\ size' = 0
  /\ nl_pos' = 0

\* The bytes of the last call are taken up and searched.
Begin ==
  /\ call = "none"
  /\ linebuf' = Strncpy(buffer)
  /\ buffer' = <<>>
  /\ size' = Block
  /\ nl_pos' = Strnpos(linebuf')
  /\ call' = IF nl_pos' = 0 THEN "room" ELSE "split"
  /\ ret' = NoLine
  /\ UNCHANGED stream

\* No memory to begin with: the caller's bytes stay where they are.
BeginFails ==
  /\ call = "none"
  /\ Return(Error)
  /\ UNCHANGED <<stream, buffer>>

\* The test that another block fits forgets what is in the buffer.
Fits_Slip == Block <= size
Fits == Len(linebuf) + Block <= size

Room ==
  /\ call = "room"
  /\ Fits
  /\ call' = "read"
  /\ UNCHANGED <<stream, buffer, linebuf, size, nl_pos, ret>>

Grow ==
  /\ call = "room"
  /\ ~Fits
  /\ 2 * size <= MaxSize
  /\ size' = 2 * size
  /\ call' = "read"
  /\ UNCHANGED <<stream, buffer, linebuf, nl_pos, ret>>

\* The line is too long, or realloc() fails: the line so far is lost.
GrowFails ==
  /\ call = "room"
  /\ ~Fits
  /\ Return(Error)
  /\ UNCHANGED <<stream, buffer>>

\* read() takes up to a block of what has come. Only the new bytes are
\* searched.
Read ==
  /\ call = "read"
  /\ \E n \in 1 .. Block :
       /\ n <= Len(wire)
       /\ LET new == SubSeq(wire, 1, n)
          IN  /\ linebuf' = linebuf \o new
              /\ nl_pos' = IF Strnpos(new) = 0 THEN 0 ELSE Len(linebuf) + Strnpos(new)
       /\ wire' = SubSeq(wire, n + 1, Len(wire))
  /\ call' = IF nl_pos' = 0 THEN "room" ELSE "split"
  /\ UNCHANGED <<eof, buffer, size, ret>>

\* A signal: the loop begins again.
ReadInterrupted ==
  /\ call = "read"
  /\ call' = "room"
  /\ UNCHANGED <<stream, buffer, linebuf, size, nl_pos, ret>>

\* The end of the stream, in the middle of a line or not.
ReadEnds ==
  /\ call = "read"
  /\ wire = <<>>
  /\ eof
  /\ Return(IF linebuf = <<>> THEN EndOfFile ELSE Error)
  /\ UNCHANGED <<stream, buffer>>

\* The connection is reset.
ReadFails ==
  /\ call = "read"
  /\ eof
  /\ Return(Error)
  /\ UNCHANGED <<stream, buffer>>

\* The byte after the newline is left out.
Rest_Slip == Strncpy(SubSeq(linebuf, nl_pos + 2, Len(linebuf)))

\* What follows the newline, as it arrives in the caller's buffer.
Rest == Strncpy(SubSeq(linebuf, nl_pos + 1, Len(linebuf)))

\* The bytes of the line: up to the newline and a carriage return before it.
BeforeNewline ==
  SubSeq(linebuf, 1,
         IF nl_pos > 1 /\ linebuf[nl_pos - 1] = "cr" THEN nl_pos - 2 ELSE nl_pos - 1)

Split ==
  /\ call = "split"
  /\ buffer' = Rest
  /\ Return(Line(BeforeNewline))
  /\ UNCHANGED stream

----------------------------------------------------------------------------

CrlInit ==
  /\ buffer = <<>>
  /\ linebuf = <<>>
  /\ size = 0
  /\ nl_pos = 0
  /\ call = "none"
  /\ ret = NoLine

\* A call under way.
CrlStep ==
  Room \/ Grow \/ GrowFails \/ Read \/ ReadInterrupted \/ ReadEnds \/ ReadFails \/ Split

----------------------------------------------------------------------------
(* Properties.                                                             *)

CrlTypeOK ==
  /\ wire \in Seq(Bytes)
  /\ eof \in BOOLEAN
  /\ buffer \in Seq(Bytes)
  /\ linebuf \in Seq(Bytes)
  /\ size \in Nat
  /\ nl_pos \in Nat
  /\ call \in {"none", "room", "read", "split"}
  /\ ret \in [kind : {"none", "line", "eof", "error"}, line : Seq(Bytes)]

\* No copy and no read() goes beyond its memory: the line buffer never holds
\* more than its size, a read() of a block fits behind what it holds, the
\* rest of a line fits the caller's one block, and the newline found is one.
BuffersFit ==
  /\ call # "none" => Len(linebuf) <= size /\ size <= MaxSize
  /\ call = "read" => Len(linebuf) + Block <= size
  /\ Len(buffer) < Block
  /\ call = "split" => nl_pos \in DOMAIN linebuf /\ linebuf[nl_pos] = "nl"

=============================================================================
