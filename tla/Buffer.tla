------------------------------- MODULE Buffer -------------------------------
(***************************************************************************)
(* The Buffer of a connection: src/code/MiniReactor/src/net/Buffer.cpp. A  *)
(* buffer is an array data with the readable units between readerIndex and *)
(* writerIndex; the units before them are room to move into when the room  *)
(* behind them does not suffice. A unit is a number; one that can not be   *)
(* read any more counts as 0.                                              *)
(***************************************************************************)
EXTENDS Naturals, Sequences

CONSTANTS CheapPrepend,  \* kCheapPrepend
          InitialSize    \* kInitialSize

ASSUME BufferAssumption == CheapPrepend \in Nat /\ InitialSize \in Nat \ {0}

\* n units nobody can read.
Zeros(n) == [i \in 1 .. n |-> 0]

\* The buffer of so many units in all that holds s from index r on.
Holding(s, r, size) ==
    [data        |-> Zeros(r) \o s \o Zeros(size - r - Len(s)),
     readerIndex |-> r,
     writerIndex |-> r + Len(s)]

EmptyBuffer == Holding(<< >>, CheapPrepend, CheapPrepend + InitialSize)

Size(b)          == Len(b.data)
ReadableBytes(b) == b.writerIndex - b.readerIndex
WritableBytes(b) == Size(b) - b.writerIndex

\* What peek() and readableBytes() show.
Readable(b) == SubSeq(b.data, b.readerIndex + 1, b.writerIndex)

\* Room for n more: by a larger array, or by moving what is there to the
\* front. The defect moves the indices only.
MakeSpaceBy(moved, b, n) ==
    IF WritableBytes(b) + b.readerIndex < n + CheapPrepend
      THEN [b EXCEPT !.data = @ \o Zeros(b.writerIndex + n - Size(b))]
      ELSE moved

MakeSpaceUncopied(b, n) ==
    MakeSpaceBy([b EXCEPT !.readerIndex = CheapPrepend,
                          !.writerIndex = CheapPrepend + ReadableBytes(b)], b, n)

MakeSpace(b, n) == MakeSpaceBy(Holding(Readable(b), CheapPrepend, Size(b)), b, n)

EnsureWritableBytes(b, n) == IF WritableBytes(b) < n THEN MakeSpace(b, n) ELSE b

AppendUnits(b, s) ==
    LET room == EnsureWritableBytes(b, Len(s))
        w    == room.writerIndex
    IN  [room EXCEPT !.data = SubSeq(@, 1, w) \o s \o SubSeq(@, w + Len(s) + 1, Len(@)),
                     !.writerIndex = w + Len(s)]

\* The first n units have been read.
Retrieve(b, n) ==
    IF n = ReadableBytes(b)
      THEN Holding(<< >>, CheapPrepend, Size(b))
      ELSE Holding(SubSeq(Readable(b), n + 1, ReadableBytes(b)), b.readerIndex + n, Size(b))
=============================================================================
