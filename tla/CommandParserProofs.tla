------------------------ MODULE CommandParserProofs ------------------------
(***************************************************************************)
(* For every alphabet, buffer size and buffer content: the parser of       *)
(* ioLoop() never leaves its buffer and executes exactly the frames of the *)
(* received stream.                                                        *)
(***************************************************************************)
EXTENDS CommandParser, TLAPS

----------------------------------------------------------------------------
(* How the end of a stream changes when a byte c is appended.              *)

\* The bytes of the longer stream.
LEMMA Appended ==
    ASSUME NEW s \in Seq(Bytes), NEW c \in Bytes
    PROVE  /\ Append(s, c) \in Seq(Bytes)
           /\ Len(Append(s, c)) = Len(s) + 1
           /\ Append(s, c)[Len(s) + 1] = c
           /\ \A i \in 1..Len(s) : Append(s, c)[i] = s[i] /\ s[i] \in 0..255
           /\ c \in 0..255 /\ Len(s) \in Nat
<1>1. \A i \in 1..Len(s) : s[i] \in Bytes
  OBVIOUS
<1>2. \A b \in Bytes : b \in 0..255
  BY BytesAssumption
<1>3. /\ Append(s, c) \in Seq(Bytes)
      /\ Len(Append(s, c)) = Len(s) + 1
      /\ Append(s, c)[Len(s) + 1] = c
      /\ \A i \in 1..Len(s) : Append(s, c)[i] = s[i]
      /\ Len(s) \in Nat
  OBVIOUS
<1> QED BY <1>1, <1>2, <1>3

\* Only '%' opens a frame.
LEMMA LengthNext ==
    ASSUME NEW s \in Seq(Bytes), NEW c \in Bytes
    PROVE  AwaitsLength(Append(s, c)) <=> c = IO_START
BY Appended DEF AwaitsLength

\* A length letter counts only behind '%'.
LEMMA OpcodeNext ==
    ASSUME NEW s \in Seq(Bytes), NEW c \in Bytes
    PROVE  AwaitsOpcode(Append(s, c)) <=> AwaitsLength(s) /\ IsLower(c)
BY Appended DEF AwaitsOpcode, AwaitsLength

\* A header without digits ends with its opcode.
LEMMA HeaderNext ==
    ASSUME NEW s \in Seq(Bytes), NEW c \in Bytes, NEW i \in 1..(Len(s) + 1)
    PROVE  Begun(Append(s, c), i, 0)
              <=> i = Len(s) - 1 /\ AwaitsOpcode(s) /\ IsLetter(c)
BY Appended DEF Begun, AwaitsOpcode

\* A header with digits grows by a digit.
LEMMA DigitNext ==
    ASSUME NEW s \in Seq(Bytes), NEW c \in Bytes, NEW i \in 1..(Len(s) + 1), NEW k \in Nat
    PROVE  Begun(Append(s, c), i, k + 1) <=> Begun(s, i, k) /\ IsDigit(c)
<1> DEFINE t == Append(s, c)
<1>0. /\ Len(s) \in Nat /\ Len(t) = Len(s) + 1 /\ t[Len(s) + 1] = c
      /\ \A m \in 1..Len(s) : t[m] = s[m]
  BY Appended
<1> HIDE DEF t
<1>1. ASSUME Begun(t, i, k + 1) PROVE Begun(s, i, k) /\ IsDigit(c)
  <2>1. Len(s) = i + 2 + k
    BY <1>0, <1>1 DEF Begun
  <2>2. t[i] = s[i] /\ t[i + 1] = s[i + 1] /\ t[i + 2] = s[i + 2]
    BY <1>0, <2>1
  <2>3. ASSUME NEW j \in 1..k PROVE IsDigit(s[i + 2 + j])
    <3>1. i + 2 + j \in 1..Len(s) /\ j \in 1..(k + 1)
      BY <2>1
    <3>2. IsDigit(t[i + 2 + j])
      BY <1>1, <3>1 DEF Begun
    <3> QED BY <1>0, <3>1, <3>2
  <2>4. k + 1 \in 1..(k + 1) /\ i + 2 + (k + 1) = Len(s) + 1
    BY <2>1
  <2>5. IsDigit(c)
    <3>1. IsDigit(t[i + 2 + (k + 1)])
      BY <1>1, <2>4, Zenon DEF Begun
    <3> QED BY <1>0, <2>4, <3>1
  <2>6. s[i] = IO_START /\ IsLower(s[i + 1]) /\ IsLetter(s[i + 2])
    BY <1>1, <2>2 DEF Begun
  <2> QED BY <2>1, <2>3, <2>5, <2>6 DEF Begun
<1>2. ASSUME Begun(s, i, k), IsDigit(c) PROVE Begun(t, i, k + 1)
  <2>1. Len(s) = i + 2 + k
    BY <1>2 DEF Begun
  <2>2. t[i] = s[i] /\ t[i + 1] = s[i + 1] /\ t[i + 2] = s[i + 2]
    BY <1>0, <2>1
  <2>3. ASSUME NEW j \in 1..(k + 1) PROVE IsDigit(t[i + 2 + j])
    <3>1. CASE j = k + 1
      <4>1. i + 2 + j = Len(s) + 1
        BY <2>1, <3>1
      <4> QED BY <1>0, <1>2, <4>1
    <3>2. CASE j \in 1..k
      <4>1. i + 2 + j \in 1..Len(s)
        BY <2>1, <3>2
      <4>2. IsDigit(s[i + 2 + j])
        BY <1>2, <3>2 DEF Begun
      <4> QED BY <1>0, <4>1, <4>2
    <3>3. j = k + 1 \/ j \in 1..k
      OBVIOUS
    <3> QED BY <3>1, <3>2, <3>3
  <2>4. Len(t) = i + 2 + (k + 1)
    BY <1>0, <2>1
  <2>5. t[i] = IO_START /\ IsLower(t[i + 1]) /\ IsLetter(t[i + 2])
    BY <1>2, <2>2 DEF Begun
  <2> QED BY <2>3, <2>4, <2>5, Zenon DEF Begun
<1> QED BY <1>1, <1>2 DEF t

----------------------------------------------------------------------------
(* The end of a frame.                                                     *)

\* A frame wants at least one digit and at most a buffer full.
LEMMA WantedRange ==
    ASSUME NEW letter \in 0..255
    PROVE  Grammar!DigitsWanted(letter) \in 1..BufferSize
BY BufferAssumption DEF Grammar!DigitsWanted

\* The same for the letter behind a parser's length.
LEMMA WantedType ==
    ASSUME NEW p \in Parser PROVE Wanted(p) \in 1..BufferSize
<1>1. \A l \in 0..25 : 97 + l \in 0..255
  OBVIOUS
<1>2. p.length \in 0..25
  BY DEF Parser
<1> QED BY <1>1, <1>2, WantedRange, Zenon DEF Wanted

\* The test of line 132 is true at the wanted digit and at none before it.
LEMMA CompleteWhenWanted ==
    ASSUME NEW p, p.length \in 0..25, NEW n \in Nat \ {0},
           n <= Grammar!DigitsWanted(97 + p.length)
    PROVE  Complete(p, n) <=> n = Grammar!DigitsWanted(97 + p.length)
BY BufferAssumption DEF Complete, Grammar!DigitsWanted

\* The classes of bytes exclude each other where the parser relies on it.
LEMMA Classes ==
    /\ ~IsLower(IO_START) /\ ~IsLetter(IO_START) /\ ~IsDigit(IO_START)
    /\ \A c \in 0..255 : IsDigit(c) => ~IsLetter(c) /\ ~IsLower(c)
BY DEF IsLower, IsLetter, IsDigit, IO_START

----------------------------------------------------------------------------
(* One byte, field by field.                                               *)

\* The fields of a parser.
LEMMA ParserFields ==
    ASSUME NEW p \in Parser
    PROVE  /\ p.state \in ParserStates /\ p.length \in 0..25 /\ p.code \in 0..255
           /\ p.data \in [Slots -> 0..255] /\ p.index \in 0..BufferSize
BY DEF Parser

\* A byte that does not continue the frame.
LEMMA ResyncFields ==
    ASSUME NEW p \in Parser, NEW c \in 0..255
    PROVE  /\ Resync(p, c) \in Parser /\ Resync(p, c).data = p.data
           /\ c = IO_START => Resync(p, c).state = "LENGTH"
           /\ c # IO_START => Resync(p, c).state = "START"
BY DEF Resync, Parser, ParserStates

\* A length letter.
LEMMA LengthFields ==
    ASSUME NEW p \in Parser, NEW c \in 0..255, IsLower(c)
    PROVE  /\ OnLength(p, c) \in Parser
           /\ OnLength(p, c).state = "OPCODE" /\ OnLength(p, c).length = c - 97
           /\ OnLength(p, c).data = p.data
<1> DEFINE q == [[p EXCEPT !.length = c - 97] EXCEPT !.state = "OPCODE"]
<1>1. OnLength(p, c) = q
  BY Zenon DEF OnLength
<1>2. c - 97 \in 0..25
  BY DEF IsLower
<1>3. q \in Parser /\ q.state = "OPCODE" /\ q.length = c - 97 /\ q.data = p.data
  BY <1>2, ZenonT(60) DEF Parser, ParserStates
<1> QED BY <1>1, <1>3

\* An opcode.
LEMMA OpcodeFields ==
    ASSUME NEW p \in Parser, NEW c \in 0..255, IsLetter(c)
    PROVE  LET q == OnOpcode(p, c)
           IN  /\ q \in Parser
               /\ q.state = "DATA" /\ q.index = 0 /\ q.code = c
               /\ q.length = p.length /\ q.data = p.data
<1> DEFINE r == [[[p EXCEPT !.code = c] EXCEPT !.state = "DATA"] EXCEPT !.index = 0]
<1>1. OnOpcode(p, c) = r
  BY Zenon DEF OnOpcode
<1>2. "DATA" \in ParserStates /\ 0 \in 0..BufferSize
  BY BufferAssumption DEF ParserStates
<1>3. /\ r \in Parser
      /\ r.state = "DATA" /\ r.index = 0 /\ r.code = c
      /\ r.length = p.length /\ r.data = p.data
  BY <1>2, ZenonT(60) DEF Parser
<1> QED BY <1>1, <1>3

\* A digit, which the buffer has room for.
LEMMA DataFields ==
    ASSUME NEW p \in Parser, NEW c \in 0..255, IsDigit(c), p.index < BufferSize
    PROVE  LET q == OnData(p, c)
           IN  /\ q \in Parser
               /\ q.index = p.index + 1 /\ q.code = p.code /\ q.length = p.length
               /\ q.data = [p.data EXCEPT ![p.index] = c - 48]
               /\ Complete(p, p.index + 1) => q.state = "DONE"
               /\ ~Complete(p, p.index + 1) => q.state = "DATA"
<1> DEFINE st == IF Complete(p, p.index + 1) THEN "DONE" ELSE "DATA"
           d == [p.data EXCEPT ![p.index] = c - 48]
           q == [[[p EXCEPT !.data = d] EXCEPT !.index = p.index + 1] EXCEPT !.state = st]
<1>1. OnData(p, c) = q
  <2>1. OnData(p, c) = [p EXCEPT !.data[p.index] = c - 48, !.index = p.index + 1, !.state = st]
    BY Zenon DEF OnData
  <2>2. [p EXCEPT !.data[p.index] = c - 48, !.index = p.index + 1, !.state = st]
          = [p EXCEPT !.data = [@ EXCEPT ![p.index] = c - 48], !.index = p.index + 1, !.state = st]
    OBVIOUS
  <2> QED BY <2>1, <2>2, Zenon
<1>2. c - 48 \in 0..255 /\ p.index + 1 \in 0..BufferSize
  BY BufferAssumption DEF IsDigit, Parser
<1>3. d \in [Slots -> 0..255]
  BY <1>2, ParserFields, ZenonT(60)
<1>4. st \in ParserStates
  BY DEF ParserStates
<1> HIDE DEF d, st
<1>5. /\ q \in Parser
      /\ q.index = p.index + 1 /\ q.code = p.code /\ q.length = p.length
      /\ q.data = d /\ q.state = st
  BY <1>2, <1>3, <1>4, ZenonT(60) DEF Parser
<1> QED BY <1>1, <1>5 DEF d, st

----------------------------------------------------------------------------
(* Parser and stream stay together.                                        *)

\* A frame that is open after byte c was open before it, or c is its opcode.
LEMMA OpenFrames ==
    ASSUME NEW p \in Parser, NEW s \in Seq(Bytes), NEW c \in Bytes, Tracks(p, s),
           NEW i \in 1..(Len(s) + 1), NEW k \in 0..(BufferSize - 1),
           Begun(Append(s, c), i, k),
           k < Grammar!DigitsWanted(Append(s, c)[i + 1])
    PROVE  \/ k = 0 /\ p.state = "OPCODE" /\ IsLetter(c)
           \/ /\ k > 0 /\ p.state = "DATA" /\ p.index = k - 1 /\ IsDigit(c)
              /\ Begun(s, i, k - 1) /\ Append(s, c)[i + 1] = s[i + 1]
<1>1. CASE k = 0
  BY <1>1, HeaderNext DEF Tracks
<1>2. CASE k > 0
  <2>1. k - 1 \in Nat /\ k - 1 \in 0..(BufferSize - 1) /\ (k - 1) + 1 = k
    BY <1>2, BufferAssumption
  <2>2. Begun(s, i, k - 1) /\ IsDigit(c)
    BY <2>1, DigitNext
  <2>3. Len(s) = i + 2 + (k - 1)
    BY <2>2 DEF Begun
  <2>4. i \in 1..Len(s) /\ i + 1 \in 1..Len(s)
    BY <2>1, <2>3
  <2>5. Append(s, c)[i + 1] = s[i + 1]
    BY <2>4, Appended
  <2>6. k - 1 < Grammar!DigitsWanted(s[i + 1])
    <3>1. s[i + 1] \in 0..255
      BY <2>4, Appended
    <3> DEFINE w == Grammar!DigitsWanted(s[i + 1])
    <3>2. w \in 1..BufferSize
      BY <3>1, WantedRange
    <3>3. k < w
      BY <2>5, Zenon
    <3> HIDE DEF w
    <3>4. k - 1 < w
      BY <3>2, <3>3, BufferAssumption
    <3> QED BY <3>4 DEF w
  <2>7. p.state = "DATA" /\ p.index = k - 1
    BY <2>1, <2>2, <2>4, <2>6 DEF Tracks
  <2> QED BY <1>2, <2>2, <2>5, <2>7, Zenon
<1>3. k = 0 \/ k > 0
  BY BufferAssumption
<1> QED BY <1>1, <1>2, <1>3

\* Case: the byte does not continue the frame.
LEMMA TracksResync ==
    ASSUME NEW p \in Parser, NEW s \in Seq(Bytes), NEW c \in Bytes, Tracks(p, s),
           p.state = "LENGTH" => ~IsLower(c),
           p.state = "OPCODE" => ~IsLetter(c),
           p.state = "DATA" => ~IsDigit(c)
    PROVE  Tracks(Resync(p, c), Append(s, c))
<1> DEFINE q == Resync(p, c)
           t == Append(s, c)
<1>1. c \in 0..255 /\ Len(t) = Len(s) + 1
  BY Appended
<1>2. (c = IO_START => q.state = "LENGTH") /\ (c # IO_START => q.state = "START")
  BY <1>1, ResyncFields
<1>3. AwaitsLength(t) <=> c = IO_START
  BY LengthNext
<1>4. ~AwaitsOpcode(t)
  BY OpcodeNext DEF Tracks
<1>5. \A i \in 1..Len(t), k \in 0..(BufferSize - 1) :
         ~(Begun(t, i, k) /\ k < Grammar!DigitsWanted(t[i + 1]))
  BY <1>1, OpenFrames
<1> HIDE DEF q, t
<1>6. Tracks(q, t)
  BY <1>2, <1>3, <1>4, <1>5 DEF Tracks
<1> QED BY <1>6 DEF q, t

\* Case: a length letter behind '%'.
LEMMA TracksLength ==
    ASSUME NEW p \in Parser, NEW s \in Seq(Bytes), NEW c \in Bytes, Tracks(p, s),
           p.state = "LENGTH", IsLower(c)
    PROVE  Tracks(OnLength(p, c), Append(s, c))
<1> DEFINE q == OnLength(p, c)
           t == Append(s, c)
<1>1. c \in 0..255 /\ Len(t) = Len(s) + 1 /\ t[Len(t)] = c
  BY Appended
<1>2. q.state = "OPCODE" /\ 97 + q.length = c
  <2>1. q.state = "OPCODE" /\ q.length = c - 97
    BY <1>1, LengthFields
  <2> HIDE DEF q, t
  <2> QED BY <1>1, <2>1
<1>3. ~AwaitsLength(t)
  BY LengthNext, Classes
<1>4. AwaitsOpcode(t)
  BY OpcodeNext DEF Tracks
<1>5. \A i \in 1..Len(t), k \in 0..(BufferSize - 1) :
         ~(Begun(t, i, k) /\ k < Grammar!DigitsWanted(t[i + 1]))
  BY <1>1, OpenFrames
<1> HIDE DEF q, t
<1>6. Tracks(q, t)
  BY <1>1, <1>2, <1>3, <1>4, <1>5 DEF Tracks
<1> QED BY <1>6 DEF q, t

\* Case: an opcode behind the length letter.
LEMMA TracksOpcode ==
    ASSUME NEW p \in Parser, NEW s \in Seq(Bytes), NEW c \in Bytes, Tracks(p, s),
           p.state = "OPCODE", IsLetter(c)
    PROVE  Tracks(OnOpcode(p, c), Append(s, c))
<1> DEFINE q == OnOpcode(p, c)
           t == Append(s, c)
           n == Len(s)
<1>1. /\ c \in 0..255 /\ n \in Nat /\ Len(t) = n + 1 /\ t[n + 1] = c
      /\ \A m \in 1..n : t[m] = s[m]
  BY Appended
<1>2. q.state = "DATA" /\ q.index = 0 /\ q.code = c /\ q.length = p.length
  BY <1>1, OpcodeFields
<1>3. n >= 2 /\ s[n] = 97 + p.length /\ AwaitsOpcode(s)
  BY DEF Tracks, AwaitsOpcode
<1>4. ~AwaitsLength(t)
  BY LengthNext, Classes
<1>5. ~AwaitsOpcode(t)
  BY OpcodeNext DEF Tracks
<1>6. \A i \in 1..Len(t), k \in 0..(BufferSize - 1) :
         Begun(t, i, k) /\ k < Grammar!DigitsWanted(t[i + 1]) => k = 0
  <2>1. ~IsDigit(c)
    BY <1>1, Classes
  <2> QED BY <1>1, <2>1, OpenFrames
<1>7. Begun(t, n - 1, 0)
  BY <1>3, HeaderNext
<1>8. Wanted(q) \in 1..BufferSize
  BY <1>1, OpcodeFields, WantedType
<1> HIDE DEF q, t, n
<1>9. Holds(q, t)
  BY <1>1, <1>2, <1>3, <1>7 DEF Holds
<1>10. Tracks(q, t)
  BY <1>2, <1>4, <1>5, <1>6, <1>8, <1>9, BufferAssumption DEF Tracks
<1> QED BY <1>10 DEF q, t

\* Case: a digit.
LEMMA TracksData ==
    ASSUME NEW p \in Parser, NEW s \in Seq(Bytes), NEW c \in Bytes, Tracks(p, s),
           p.state = "DATA", IsDigit(c)
    PROVE  OnData(p, c) \in Parser /\ Tracks(OnData(p, c), Append(s, c))
<1> DEFINE q == OnData(p, c)
           t == Append(s, c)
           n == Len(s)
           k == p.index
           w == Wanted(p)
           i == n - 2 - k
<1>1. /\ c \in 0..255 /\ n \in Nat /\ Len(t) = n + 1 /\ t[n + 1] = c
      /\ \A m \in 1..n : t[m] = s[m]
  BY Appended
<1>2. w \in 1..BufferSize /\ k < w /\ k \in Nat /\ k < BufferSize
  <2>1. k \in 0..BufferSize
    BY ParserFields
  <2>2. w \in 1..BufferSize
    BY WantedType
  <2>3. k < w
    BY DEF Tracks
  <2> HIDE DEF k, w
  <2> QED BY <2>1, <2>2, <2>3, BufferAssumption
<1>3. /\ q \in Parser
      /\ q.index = k + 1 /\ q.code = p.code /\ q.length = p.length
      /\ q.data = [p.data EXCEPT ![k] = c - 48]
      /\ Complete(p, k + 1) => q.state = "DONE"
      /\ ~Complete(p, k + 1) => q.state = "DATA"
  BY <1>1, <1>2, DataFields
<1>4. Complete(p, k + 1) <=> k + 1 = w
  <2>1. p.length \in 0..25
    BY ParserFields
  <2>2. k + 1 \in Nat \ {0} /\ k + 1 <= w
    <3> HIDE DEF k, w
    <3> QED BY <1>2
  <2> QED BY <2>1, <2>2, CompleteWhenWanted DEF Wanted
<1>5. Wanted(q) = w
  BY <1>3 DEF Wanted
<1>6. /\ i >= 1 /\ Begun(s, i, k)
      /\ s[i + 1] = 97 + p.length /\ s[i + 2] = p.code
      /\ \A j \in 1..k : p.data[j - 1] = s[i + 2 + j] - 48
  BY DEF Tracks, Holds
<1>7. /\ i \in 1..n /\ i + 1 \in 1..n /\ i + 2 \in 1..n
      /\ i \in 1..(n + 1) /\ n = i + 2 + k
      /\ i = Len(t) - 2 - (k + 1)
  <2> HIDE DEF n, k, t
  <2> QED BY <1>1, <1>2, <1>6
<1>8. Begun(t, i, k + 1)
  BY <1>2, <1>6, <1>7, DigitNext
<1>9. p.data \in [Slots -> 0..255] /\ Slots = 0..(BufferSize - 1)
  BY ParserFields DEF Slots
<1>10. \A a \in 1..Len(t), b \in 0..(BufferSize - 1) :
          Begun(t, a, b) /\ b < Grammar!DigitsWanted(t[a + 1])
            => /\ b > 0 /\ k = b - 1 /\ Begun(s, a, b - 1)
               /\ t[a + 1] = s[a + 1]
  <2> SUFFICES ASSUME NEW a \in 1..(n + 1), NEW b \in 0..(BufferSize - 1),
                      Begun(t, a, b), b < Grammar!DigitsWanted(t[a + 1])
               PROVE  b > 0 /\ k = b - 1 /\ Begun(s, a, b - 1) /\ t[a + 1] = s[a + 1]
    BY <1>1
  <2>1. /\ b > 0 /\ p.state = "DATA" /\ p.index = b - 1 /\ IsDigit(c)
        /\ Begun(s, a, b - 1) /\ t[a + 1] = s[a + 1]
    BY OpenFrames
  <2> HIDE DEF t
  <2>2. k = b - 1
    BY <2>1
  <2> QED BY <2>1, <2>2
<1>11. ~AwaitsLength(t) /\ ~AwaitsOpcode(t)
  BY LengthNext, OpcodeNext, Classes DEF Tracks
<1>12. w = Grammar!DigitsWanted(s[i + 1])
  BY <1>6 DEF Wanted
<1> HIDE DEF q, t, n, k, w, i
<1>13. ASSUME NEW j \in 1..(k + 1)
       PROVE  q.data[j - 1] = t[i + 2 + j] - 48
  <2>1. CASE j = k + 1
    <3>1. i + 2 + j = n + 1 /\ j - 1 = k /\ k \in Slots
      BY <1>2, <1>7, <1>9, <2>1, BufferAssumption
    <3> QED BY <1>1, <1>3, <1>9, <3>1
  <2>2. CASE j \in 1..k
    <3>1. i + 2 + j \in 1..n /\ j - 1 # k /\ j - 1 \in Slots
      BY <1>2, <1>7, <1>9, <2>2, BufferAssumption
    <3>2. q.data[j - 1] = p.data[j - 1]
      BY <1>3, <1>9, <3>1
    <3> QED BY <1>1, <1>6, <2>2, <3>1, <3>2
  <2>3. j = k + 1 \/ j \in 1..k
    BY <1>2
  <2> QED BY <2>1, <2>2, <2>3
<1>14. Holds(q, t)
  <2>1. t[i + 1] = 97 + q.length /\ t[i + 2] = q.code
    BY <1>1, <1>3, <1>6, <1>7
  <2>2. i >= 1
    BY <1>6
  <2> QED BY <1>3, <1>7, <1>8, <1>13, <2>1, <2>2, Zenon DEF Holds
<1>15. ASSUME NEW a \in 1..Len(t), NEW b \in 0..(BufferSize - 1),
              Begun(t, a, b), b < Grammar!DigitsWanted(t[a + 1])
       PROVE  q.state = "DATA" /\ q.index = b
  <2>1. /\ b > 0 /\ k = b - 1 /\ Begun(s, a, b - 1) /\ t[a + 1] = s[a + 1]
    BY <1>10, <1>15
  <2>2. b = k + 1 /\ n = a + 2 + (b - 1)
    BY <1>2, <2>1, BufferAssumption DEF Begun, n
  <2>3. a = i
    BY <1>1, <1>2, <1>7, <2>2
  <2>4. b < w
    BY <1>12, <1>15, <2>1, <2>3, Zenon
  <2>5. k + 1 # w
    BY <1>2, <2>2, <2>4
  <2> QED BY <1>3, <1>4, <2>2, <2>5
<1>16. Tracks(q, t)
  <2>1. q.state = "DATA" => q.index < Wanted(q)
    BY <1>2, <1>3, <1>4, <1>5
  <2>2. q.state = "DONE" => q.index = Wanted(q)
    BY <1>3, <1>4, <1>5
  <2>3. q.state \in {"DATA", "DONE"}
    BY <1>3
  <2> QED BY <1>11, <1>14, <1>15, <2>1, <2>2, <2>3 DEF Tracks
<1> QED BY <1>3, <1>16 DEF q, t

\* Every byte keeps parser and stream together.
LEMMA TracksStep ==
    ASSUME NEW p \in Parser, NEW s \in Seq(Bytes), NEW c \in Bytes, Tracks(p, s)
    PROVE  /\ ParserStep(p, c) \in Parser
           /\ Tracks(ParserStep(p, c), Append(s, c))
<1>1. c \in 0..255
  BY Appended
<1>2. CASE p.state = "LENGTH" /\ IsLower(c)
  <2>1. ParserStep(p, c) = OnLength(p, c)
    BY <1>2 DEF ParserStep
  <2> QED BY <1>1, <1>2, <2>1, LengthFields, TracksLength
<1>3. CASE p.state = "OPCODE" /\ IsLetter(c)
  <2>1. ParserStep(p, c) = OnOpcode(p, c)
    BY <1>3 DEF ParserStep
  <2> QED BY <1>1, <1>3, <2>1, OpcodeFields, TracksOpcode
<1>4. CASE p.state = "DATA" /\ IsDigit(c)
  <2>1. ParserStep(p, c) = OnData(p, c)
    BY <1>4 DEF ParserStep
  <2> QED BY <1>4, <2>1, TracksData
<1>5. CASE /\ p.state = "LENGTH" => ~IsLower(c)
           /\ p.state = "OPCODE" => ~IsLetter(c)
           /\ p.state = "DATA" => ~IsDigit(c)
  <2>1. ParserStep(p, c) = Resync(p, c)
    <3>1. p.state \in ParserStates
      BY ParserFields
    <3> QED BY <1>5, <3>1 DEF ParserStep, ParserStates, OnLength, OnOpcode, OnData
  <2> QED BY <1>1, <1>5, <2>1, ResyncFields, TracksResync
<1> QED BY <1>2, <1>3, <1>4, <1>5

----------------------------------------------------------------------------
(* The memory is what frames have brought.                                 *)

\* The buffer as the grammar sees it.
LEMMA MemoryType ==
    ASSUME NEW p \in Parser
    PROVE  /\ Memory(p) \in [1..BufferSize -> 0..255]
           /\ \A k \in 1..BufferSize : Memory(p)[k] = p.data[k - 1]
<1>1. p.data \in [0..(BufferSize - 1) -> 0..255]
  BY ParserFields DEF Slots
<1>2. \A k \in 1..BufferSize : k - 1 \in 0..(BufferSize - 1)
  BY BufferAssumption
<1> QED BY <1>1, <1>2 DEF Memory

\* A digit that the grammar counts ends a frame that has begun.
LEMMA DigitBegun ==
    ASSUME NEW s \in Seq(Bytes), NEW i \in Nat \ {0}, NEW k \in 1..BufferSize
    PROVE  Grammar!DigitAt(s, i, k) <=> Begun(s, i, k) /\ k <= Grammar!DigitsWanted(s[i + 1])
<1>1. ASSUME Len(s) = i + 2 + k
      PROVE  (\A j \in (i + 3)..Len(s) : s[j] \in 48..57) <=> (\A j \in 1..k : IsDigit(s[i + 2 + j]))
  <2>1. ASSUME \A j \in (i + 3)..Len(s) : s[j] \in 48..57, NEW j \in 1..k
        PROVE  IsDigit(s[i + 2 + j])
    <3>1. i + 2 + j \in (i + 3)..Len(s)
      BY <1>1
    <3> QED BY <2>1, <3>1 DEF IsDigit
  <2>2. ASSUME \A j \in 1..k : IsDigit(s[i + 2 + j]), NEW j \in (i + 3)..Len(s)
        PROVE  s[j] \in 48..57
    <3>1. j - i - 2 \in 1..k /\ i + 2 + (j - i - 2) = j
      BY <1>1
    <3> QED BY <2>2, <3>1 DEF IsDigit
  <2> QED BY <2>1, <2>2
<1> QED BY <1>1, Zenon DEF Grammar!DigitAt, Begun, IO_START, IsLower, IsLetter

\* Such a digit is the one that the parser waits for.
LEMMA DigitSeen ==
    ASSUME NEW p \in Parser, NEW s \in Seq(Bytes), NEW c \in Bytes, Tracks(p, s),
           NEW i \in 1..(Len(s) + 1), NEW k \in 1..BufferSize,
           Grammar!DigitAt(Append(s, c), i, k)
    PROVE  /\ p.state = "DATA" /\ p.index = k - 1 /\ IsDigit(c)
           /\ Append(s, c)[i + 1] = 97 + p.length
<1> DEFINE t == Append(s, c)
           n == Len(s)
           w == Grammar!DigitsWanted(t[i + 1])
<1>1. /\ n \in Nat /\ Len(t) = n + 1 /\ t \in Seq(Bytes)
      /\ \A m \in 1..n : t[m] = s[m] /\ s[m] \in 0..255
  BY Appended
<1>2. Begun(t, i, k) /\ k <= w
  <2>1. i \in Nat \ {0}
    BY <1>1
  <2> QED BY <1>1, <2>1, DigitBegun
<1>3. k - 1 \in 0..(BufferSize - 1) /\ k - 1 \in Nat /\ (k - 1) + 1 = k
  BY BufferAssumption
<1>4. Begun(s, i, k - 1) /\ IsDigit(c)
  <2>1. Begun(t, i, (k - 1) + 1)
    BY <1>2, <1>3
  <2> QED BY <1>3, <2>1, DigitNext
<1>5. n = i + 2 + (k - 1)
  BY <1>4 DEF Begun
<1>6. i \in 1..n /\ i + 1 \in 1..n /\ t[i + 1] = s[i + 1] /\ s[i + 1] \in 0..255
  <2> HIDE DEF w, n, t
  <2>1. i \in 1..n /\ i + 1 \in 1..n
    BY <1>1, <1>3, <1>5
  <2> QED BY <1>1, <2>1
<1>7. w \in 1..BufferSize /\ w = Grammar!DigitsWanted(s[i + 1])
  BY <1>6, WantedRange
<1>8. k - 1 < Grammar!DigitsWanted(s[i + 1])
  <2>1. k - 1 < w
    <3> HIDE DEF w
    <3> QED BY <1>2, <1>7, BufferAssumption
  <2> QED BY <1>7, <2>1, Zenon
<1>9. p.state = "DATA" /\ p.index = k - 1
  BY <1>3, <1>4, <1>6, <1>8 DEF Tracks
<1>10. n - 2 - p.index = i
  <2> HIDE DEF w, n
  <2> QED BY <1>1, <1>3, <1>5, <1>9
<1>11. s[i + 1] = 97 + p.length
  BY <1>9, <1>10 DEF Tracks, Holds
<1> QED BY <1>4, <1>6, <1>9, <1>11

\* One byte changes at most the place of the digit that it is.
LEMMA DataStep ==
    ASSUME NEW p \in Parser, NEW s \in Seq(Bytes), NEW c \in Bytes, Tracks(p, s)
    PROVE  ParserStep(p, c).data = IF p.state = "DATA" /\ IsDigit(c)
                                   THEN [p.data EXCEPT ![p.index] = c - 48] ELSE p.data
<1>1. c \in 0..255 /\ p.state \in ParserStates
  BY Appended, ParserFields
<1>2. CASE p.state = "DATA" /\ IsDigit(c)
  <2>1. p.index < BufferSize
    <3>1. p.index < Wanted(p) /\ Wanted(p) \in 1..BufferSize /\ p.index \in 0..BufferSize
      BY <1>2, WantedType, ParserFields DEF Tracks
    <3> HIDE DEF Wanted
    <3> QED BY <3>1, BufferAssumption
  <2>2. ParserStep(p, c) = OnData(p, c)
    BY <1>2 DEF ParserStep
  <2> QED BY <1>1, <1>2, <2>1, <2>2, DataFields
<1>3. CASE p.state = "LENGTH" /\ IsLower(c)
  <2>1. ParserStep(p, c) = OnLength(p, c)
    BY <1>3 DEF ParserStep
  <2> QED BY <1>1, <1>3, <2>1, LengthFields
<1>4. CASE p.state = "OPCODE" /\ IsLetter(c)
  <2>1. ParserStep(p, c) = OnOpcode(p, c)
    BY <1>4 DEF ParserStep
  <2>2. OnOpcode(p, c).data = p.data
    BY <1>1, <1>4, OpcodeFields
  <2> QED BY <1>4, <2>1, <2>2
<1>5. CASE /\ p.state = "LENGTH" => ~IsLower(c)
           /\ p.state = "OPCODE" => ~IsLetter(c)
           /\ p.state = "DATA" => ~IsDigit(c)
  <2>1. ParserStep(p, c) = Resync(p, c)
    BY <1>1, <1>5 DEF ParserStep, ParserStates, OnLength, OnOpcode, OnData
  <2> QED BY <1>1, <1>5, <2>1, ResyncFields
<1> QED BY <1>2, <1>3, <1>4, <1>5

\* The parser's buffer follows the grammar's memory.
LEMMA MemoryStep ==
    ASSUME NEW p \in Parser, NEW s \in Seq(Bytes), NEW c \in Bytes, Tracks(p, s)
    PROVE  LET t == Append(s, c)
           IN  Memory(ParserStep(p, c))
                  = [k \in 1..BufferSize |->
                       IF \E i \in 1..Len(t) : Grammar!DigitAt(t, i, k)
                       THEN c - 48 ELSE Memory(p)[k]]
<1> DEFINE t == Append(s, c)
           q == ParserStep(p, c)
           n == Len(s)
<1>1. Len(t) = n + 1 /\ t \in Seq(Bytes) /\ n \in Nat
  BY Appended
<1>2. q \in Parser
  BY TracksStep
<1>3. p.data \in [0..(BufferSize - 1) -> 0..255] /\ p.index \in 0..BufferSize
  BY ParserFields DEF Slots
<1>4. ASSUME NEW k \in 1..BufferSize
      PROVE  q.data[k - 1] = IF \E i \in 1..Len(t) : Grammar!DigitAt(t, i, k)
                             THEN c - 48 ELSE p.data[k - 1]
  <2>1. k - 1 \in 0..(BufferSize - 1) /\ (k - 1) + 1 = k
    BY BufferAssumption
  <2>2. CASE \E i \in 1..Len(t) : Grammar!DigitAt(t, i, k)
    <3>1. PICK i \in 1..(n + 1) : Grammar!DigitAt(t, i, k)
      BY <1>1, <2>2
    <3>2. p.state = "DATA" /\ p.index = k - 1 /\ IsDigit(c)
      BY <3>1, DigitSeen
    <3>3. q.data = [p.data EXCEPT ![k - 1] = c - 48]
      BY <3>2, DataStep
    <3> HIDE DEF q, t
    <3> QED BY <1>3, <2>1, <2>2, <3>3
  <2>3. CASE ~\E i \in 1..Len(t) : Grammar!DigitAt(t, i, k)
    <3>1. ~(p.state = "DATA" /\ IsDigit(c) /\ p.index = k - 1)
      <4> SUFFICES ASSUME p.state = "DATA", IsDigit(c), p.index = k - 1
                   PROVE  \E i \in 1..Len(t) : Grammar!DigitAt(t, i, k)
        BY <2>3
      <4> DEFINE i == n - 2 - p.index
      <4>1. /\ i >= 1 /\ Begun(s, i, k - 1) /\ s[i + 1] = 97 + p.length
            /\ p.index < Wanted(p)
        BY DEF Tracks, Holds
      <4>2. n = i + 2 + (k - 1)
        BY <4>1 DEF Begun
      <4>3. i \in Nat \ {0} /\ i \in 1..n /\ i + 1 \in 1..n /\ i \in 1..(n + 1) /\ k - 1 \in Nat
        <5>1. i \in Int
          BY <1>1, <1>3
        <5> HIDE DEF i, n
        <5> QED BY <1>1, <2>1, <4>1, <4>2, <5>1
      <4> HIDE DEF i
      <4>4. Begun(t, i, k)
        <5>1. Begun(t, i, (k - 1) + 1)
          BY <4>1, <4>3, DigitNext
        <5> QED BY <2>1, <5>1
      <4>5. t[i + 1] = s[i + 1]
        BY <4>3, Appended
      <4>6. k <= Grammar!DigitsWanted(t[i + 1])
        <5>1. Wanted(p) = Grammar!DigitsWanted(t[i + 1]) /\ Wanted(p) \in 1..BufferSize
          BY <4>1, <4>5, WantedType DEF Wanted
        <5>2. k - 1 < Wanted(p)
          BY <4>1
        <5>3. \A w \in 1..BufferSize : k - 1 < w => k <= w
          BY BufferAssumption
        <5>4. k <= Wanted(p)
          BY <5>1, <5>2, <5>3, Zenon
        <5> QED BY <5>1, <5>4
      <4>7. Grammar!DigitAt(t, i, k)
        BY <1>1, <4>3, <4>4, <4>6, DigitBegun
      <4> QED BY <1>1, <4>3, <4>7
    <3>2. q.data = p.data \/ (q.data = [p.data EXCEPT ![p.index] = c - 48] /\ p.index # k - 1)
      BY <3>1, DataStep
    <3> HIDE DEF q, t
    <3>3. q.data[k - 1] = p.data[k - 1]
      BY <1>3, <2>1, <3>2
    <3> QED BY <2>3, <3>3
  <2> QED BY <2>2, <2>3
<1>5. \A k \in 1..BufferSize : Memory(p)[k] = p.data[k - 1]
  BY MemoryType
<1>6. Memory(q) = [k \in 1..BufferSize |-> q.data[k - 1]]
  BY DEF Memory
<1> HIDE DEF q, t
<1>7. Memory(q) = [k \in 1..BufferSize |->
                     IF \E i \in 1..Len(t) : Grammar!DigitAt(t, i, k)
                     THEN c - 48 ELSE Memory(p)[k]]
  BY <1>4, <1>5, <1>6
<1> QED BY <1>7 DEF q, t

----------------------------------------------------------------------------
(* The executed command is the frame that the stream ends with.            *)

\* What a parser that has just completed a frame hands to the command switch.
LEMMA CommandRead ==
    ASSUME NEW p \in Parser, NEW s \in Seq(Bytes), Tracks(p, s), p.state = "DONE",
           NEW i, i = Len(s) - 2 - p.index
    PROVE  /\ i \in 1..Len(s)
           /\ Grammar!FrameAt(s, i) /\ Command(p) = Grammar!CommandAt(s, i, Memory(p))
           /\ Command(p) \in [code : 0..255, digits : Seq(0..255)]
<1> DEFINE k == p.index
           l == Len(s)
           r == Reads[p.code]
<1>1. /\ i >= 1 /\ Begun(s, i, k) /\ s[i + 1] = 97 + p.length /\ s[i + 2] = p.code
      /\ \A j \in 1..k : p.data[j - 1] = s[i + 2 + j] - 48
  BY DEF Tracks, Holds
<1>2. k = Grammar!DigitsWanted(s[i + 1]) /\ k \in 1..BufferSize
  BY <1>1, WantedType DEF Tracks, Wanted
<1>3. l = i + 2 + k /\ l \in Nat
  <2>1. l \in Nat
    OBVIOUS
  <2>2. Len(s) = i + 2 + k
    BY <1>1, Zenon DEF Begun
  <2> QED BY <2>1, <2>2
<1>4. p.code \in 0..255 /\ r \in 0..BufferSize
  BY ParserFields, ReadsAssumption
<1>5. i \in Nat \ {0} /\ i \in 1..l /\ i + 2 < l
  <2> HIDE DEF k, l
  <2> QED BY <1>1, <1>2, <1>3, BufferAssumption
<1>6. Grammar!FrameAt(s, i)
  <2>1. Grammar!DigitAt(s, i, k)
    <3>1. k <= Grammar!DigitsWanted(s[i + 1])
      <4> HIDE DEF k
      <4> QED BY <1>2, BufferAssumption
    <3> QED BY <1>1, <1>2, <1>5, <3>1, DigitBegun
  <2> QED BY <1>2, <1>5, <2>1 DEF Grammar!FrameAt
<1> HIDE DEF k, l, r
<1>7. \A j \in 1..r : /\ p.data[j - 1] \in 0..255
                      /\ Memory(p)[j] = p.data[j - 1]
                      /\ j <= k => j \in 1..k
  <2>1. \A j \in 1..r : j \in 1..BufferSize
    BY <1>4, BufferAssumption
  <2>2. Memory(p) \in [1..BufferSize -> 0..255] /\ \A j \in 1..BufferSize : Memory(p)[j] = p.data[j - 1]
    BY MemoryType
  <2>3. \A j \in 1..BufferSize : p.data[j - 1] \in 0..255
    BY <2>2
  <2>4. \A j \in 1..r : j <= k => j \in 1..k
    BY <1>2, <1>4
  <2> QED BY <2>1, <2>2, <2>3, <2>4
<1>8. Command(p) = [code |-> p.code, digits |-> [j \in 1..r |-> p.data[j - 1]]]
  BY DEF Command, r
<1>9. Grammar!CommandAt(s, i, Memory(p))
         = [code |-> p.code,
            digits |-> [j \in 1..r |-> IF j <= k THEN s[i + 2 + j] - 48 ELSE Memory(p)[j]]]
  BY <1>1, <1>2, Zenon DEF Grammar!CommandAt, r
<1>10. [j \in 1..r |-> p.data[j - 1]]
          = [j \in 1..r |-> IF j <= k THEN s[i + 2 + j] - 48 ELSE Memory(p)[j]]
  <2>1. ASSUME NEW j \in 1..r
        PROVE  p.data[j - 1] = IF j <= k THEN s[i + 2 + j] - 48 ELSE Memory(p)[j]
    BY <1>1, <1>7 DEF k
  <2> QED BY <2>1
<1>11. [j \in 1..r |-> p.data[j - 1]] \in Seq(0..255)
  <2>1. r \in Nat
    BY <1>4, BufferAssumption
  <2>2. [j \in 1..r |-> p.data[j - 1]] \in [1..r -> 0..255]
    BY <1>7
  <2> QED BY <2>1, <2>2
<1>12. Command(p) \in [code : 0..255, digits : Seq(0..255)]
  BY <1>4, <1>8, <1>11
<1>13. i \in 1..Len(s)
  BY <1>5 DEF l
<1> QED BY <1>6, <1>8, <1>9, <1>10, <1>12, <1>13

\* A stream that ends with a frame has a parser that has just completed one.
LEMMA FrameSeen ==
    ASSUME NEW p \in Parser, NEW s \in Seq(Bytes), NEW c \in Bytes, Tracks(p, s),
           NEW i \in 1..(Len(s) + 1), Grammar!FrameAt(Append(s, c), i)
    PROVE  ParserStep(p, c).state = "DONE"
<1> DEFINE t == Append(s, c)
           w == Grammar!DigitsWanted(t[i + 1])
<1>1. i + 2 < Len(t) /\ Grammar!DigitAt(t, i, w)
  BY DEF Grammar!FrameAt
<1>2. c \in 0..255 /\ t[i + 1] \in 0..255 /\ w \in 1..BufferSize
  <2>1. t \in Seq(Bytes) /\ Len(t) \in Nat /\ c \in 0..255
    BY Appended
  <2> HIDE DEF t
  <2>2. i + 1 \in 1..Len(t)
    BY <1>1, <2>1
  <2>3. t[i + 1] \in Bytes
    BY <2>1, <2>2
  <2>4. t[i + 1] \in 0..255
    BY <2>3, BytesAssumption
  <2> QED BY <2>1, <2>4, WantedRange
<1>3. p.state = "DATA" /\ p.index = w - 1 /\ IsDigit(c) /\ t[i + 1] = 97 + p.length
  BY <1>1, <1>2, DigitSeen
<1>4. w = Wanted(p)
  BY <1>3, Zenon DEF Wanted
<1>5. p.length \in 0..25
  BY ParserFields
<1>6. p.index < BufferSize /\ p.index + 1 = w /\ w \in Nat \ {0} /\ w <= w
  <2> HIDE DEF w
  <2> QED BY <1>2, <1>3, BufferAssumption
<1>7. Complete(p, p.index + 1)
  BY <1>4, <1>5, <1>6, CompleteWhenWanted, Zenon DEF Wanted
<1>8. ParserStep(p, c) = OnData(p, c)
  BY <1>3 DEF ParserStep
<1> HIDE DEF t, w
<1>9. OnData(p, c).state = "DONE"
  BY <1>2, <1>3, <1>6, <1>7, DataFields
<1> QED BY <1>8, <1>9

----------------------------------------------------------------------------
(* The invariant and the theorems.                                         *)

\* What one received byte does to parser, stream and commands.
LEMMA ByteStep ==
    ASSUME Inv, NEW c \in Bytes, ReceiveByte(c)
    PROVE  Inv' /\ Grammar!Next
<1> DEFINE q == ParserStep(parser, c)
           t == Append(rx, c)
           C == [code : 0..255, digits : Seq(0..255)]
<1>1. /\ parser \in Parser /\ rx \in Seq(Bytes) /\ Tracks(parser, rx)
      /\ parser' = q /\ rx' = t /\ timeout_counter' = 0
      /\ executed' = IF q.state = "DONE" THEN Append(executed, Command(q)) ELSE executed
      /\ executed \in Seq(C)
  BY DEF Inv, TypeOK, ReceiveByte
<1>2. q \in Parser /\ t \in Seq(Bytes) /\ Tracks(q, t)
  BY <1>1, TracksStep, Appended
<1>3. Len(t) = Len(rx) + 1
  BY <1>1, Appended
<1>4. Memory(q) = [k \in 1..BufferSize |->
                     IF \E i \in 1..Len(t) : Grammar!DigitAt(t, i, k)
                     THEN c - 48 ELSE Memory(parser)[k]]
  BY <1>1, MemoryStep
<1> HIDE DEF C
<1>5. executed' \in Seq(C) =>
         Inv'
  <2>1. 0 \in 0..(IO_FREQ - 1)
    BY FreqAssumption
  <2> HIDE DEF q, t
  <2> QED BY <1>1, <1>2, <2>1, Zenon DEF Inv, TypeOK, C
<1> HIDE DEF t
<1>6. CASE q.state = "DONE"
  <2> DEFINE i == Len(t) - 2 - q.index
  <2> HIDE DEF q
  <2>1. /\ i \in 1..Len(t)
        /\ Grammar!FrameAt(t, i) /\ Command(q) = Grammar!CommandAt(t, i, Memory(q))
        /\ Command(q) \in C
    BY <1>2, <1>6, CommandRead DEF C
  <2>2. executed' = Append(executed, Command(q))
    BY <1>1, <1>6
  <2>3. executed' \in Seq(C)
    BY <1>1, <2>1, <2>2
  <2>4. Grammar!Deliver(c)
    BY <1>1, <1>4, <2>1, <2>2, Zenon DEF Grammar!Deliver, t
  <2> QED BY <1>5, <2>3, <2>4 DEF Grammar!Next, ReceiveByte
<1>7. CASE q.state # "DONE"
  <2>1. \A i \in 1..Len(t) : ~Grammar!FrameAt(t, i)
    BY <1>1, <1>3, <1>7, FrameSeen DEF t
  <2> HIDE DEF q
  <2>2. executed' = executed
    BY <1>1, <1>7
  <2>3. Grammar!Deliver(c)
    BY <1>1, <1>4, <2>1, <2>2, Zenon DEF Grammar!Deliver, t
  <2> QED BY <1>1, <1>5, <2>2, <2>3 DEF Grammar!Next, ReceiveByte
<1> QED BY <1>6, <1>7

\* An expired wait moves only the counter.
LEMMA WaitStep == Inv /\ WaitExpired => Inv' /\ UNCHANGED <<rx, Memory(parser), executed>>
<1> SUFFICES ASSUME Inv, WaitExpired PROVE Inv' /\ UNCHANGED <<rx, Memory(parser), executed>>
  OBVIOUS
<1>1. timeout_counter' \in 0..(IO_FREQ - 1)
  BY FreqAssumption DEF WaitExpired, Inv, TypeOK
<1>2. parser' = parser /\ rx' = rx /\ executed' = executed
  BY DEF WaitExpired
<1> QED BY <1>1, <1>2 DEF Inv, TypeOK, Memory

\* The state before the first byte satisfies the invariant.
LEMMA InitInv == Init => Inv
<1> SUFFICES ASSUME Init PROVE Inv
  OBVIOUS
<1>1. PICK data \in [Slots -> Junk] : parser = InitialParser(data)
  BY DEF Init
<1>2. parser \in Parser /\ parser.state = "START"
  <2>1. data \in [Slots -> 0..255]
    BY JunkAssumption
  <2> QED BY <1>1, <2>1, BufferAssumption DEF InitialParser, Parser, ParserStates
<1>3. rx = <<>> /\ executed = <<>> /\ timeout_counter = 0
  BY DEF Init
<1>4. TypeOK
  BY <1>2, <1>3, FreqAssumption DEF TypeOK
<1>5. Tracks(parser, rx)
  BY <1>2, <1>3 DEF Tracks, AwaitsLength, AwaitsOpcode
<1> QED BY <1>4, <1>5 DEF Inv

\* The invariant is inductive, and every step is a step of the grammar.
LEMMA NextInv == Inv /\ [Next]_vars => Inv' /\ [Grammar!Next]_<<rx, Memory(parser), executed>>
<1> SUFFICES ASSUME Inv, [Next]_vars PROVE Inv' /\ [Grammar!Next]_<<rx, Memory(parser), executed>>
  OBVIOUS
<1>1. ASSUME NEW c \in Bytes, ReceiveByte(c)
      PROVE  Inv' /\ [Grammar!Next]_<<rx, Memory(parser), executed>>
  BY <1>1, ByteStep
<1>2. CASE WaitExpired
  BY <1>2, WaitStep
<1>3. CASE UNCHANGED vars
  BY <1>3 DEF vars, Inv, TypeOK, Memory, Tracks, Holds, Wanted, AwaitsLength, AwaitsOpcode, Begun
<1> QED BY <1>1, <1>2, <1>3 DEF Next

\* The parser's place is always a fact about the end of the stream.
THEOREM Invariance == Spec => []Inv
<1>1. Init => Inv
  BY InitInv
<1>2. Inv /\ [Next]_vars => Inv'
  BY NextInv
<1> QED BY <1>1, <1>2, PTL DEF Spec

\* The digit index stays inside command_data[], and what is executed is an
\* opcode with as many bytes as it reads, for every buffer size.
THEOREM TypeCorrect == Spec => []TypeOK
<1>1. Inv => TypeOK
  BY DEF Inv
<1> QED BY <1>1, Invariance, PTL

\* What the parser has stored are the last bytes of the stream.
THEOREM StreamMatched == Spec => []StreamMatches
<1>1. Inv => StreamMatches
  <2> SUFFICES ASSUME Inv PROVE StreamMatches
    OBVIOUS
  <2> DEFINE n == Len(rx)
             k == parser.index
             w == Wanted(parser)
  <2>1. /\ parser \in Parser /\ k \in 0..BufferSize /\ parser.length \in 0..25
        /\ w \in 1..BufferSize /\ n \in Nat
    BY WantedType, ParserFields DEF Inv, TypeOK
  <2>2. /\ parser.state = "LENGTH" => n >= 1 /\ rx[n] = IO_START
        /\ parser.state = "OPCODE" => n >= 2 /\ rx[n - 1] = IO_START /\ rx[n] = 97 + parser.length
    BY DEF Inv, Tracks, AwaitsLength, AwaitsOpcode
  <2>3. ASSUME parser.state \in {"DATA", "DONE"}
        PROVE  /\ n >= k + 3 /\ rx[n - k - 2] = IO_START
               /\ rx[n - k - 1] = 97 + parser.length
               /\ rx[n - k] = parser.code /\ IsLetter(parser.code)
               /\ \A j \in 0..(k - 1) : /\ rx[n - k + 1 + j] = 48 + parser.data[j]
                                        /\ parser.data[j] \in 0..9
    <3> DEFINE i == n - 2 - k
    <3>1. /\ i >= 1 /\ rx[i] = IO_START /\ IsLetter(rx[i + 2])
          /\ \A j \in 1..k : IsDigit(rx[i + 2 + j])
          /\ rx[i + 1] = 97 + parser.length /\ rx[i + 2] = parser.code
          /\ \A j \in 1..k : parser.data[j - 1] = rx[i + 2 + j] - 48
      BY <2>3 DEF Inv, Tracks, Holds, Begun
    <3> HIDE DEF n, k
    <3>2. n >= k + 3 /\ i = n - k - 2 /\ i + 1 = n - k - 1 /\ i + 2 = n - k
      BY <2>1, <3>1
    <3>3. ASSUME NEW j \in 0..(k - 1)
          PROVE  rx[n - k + 1 + j] = 48 + parser.data[j] /\ parser.data[j] \in 0..9
      <4>1. j + 1 \in 1..k /\ i + 2 + (j + 1) = n - k + 1 + j /\ (j + 1) - 1 = j
        BY <2>1
      <4>2. parser.data[j] = rx[n - k + 1 + j] - 48 /\ rx[n - k + 1 + j] \in 48..57
        BY <3>1, <4>1 DEF IsDigit
      <4> QED BY <4>2
    <3> HIDE DEF i
    <3> QED BY <3>1, <3>2, <3>3
  <2>4. ASSUME NEW j \in Nat \ {0}, j <= w
        PROVE  Complete(parser, j) <=> j = w
    BY <2>1, <2>4, CompleteWhenWanted DEF Wanted
  <2>5. parser.state = "DATA" => k < w
    BY DEF Inv, Tracks
  <2>6. parser.state = "DONE" => k = w
    BY DEF Inv, Tracks
  <2> HIDE DEF n, w
  <2>7. parser.state = "DATA" => k < BufferSize /\ (k = 0 \/ k # parser.length)
    BY <2>1, <2>4, <2>5, BufferAssumption DEF Complete
  <2>8. parser.state = "DONE" => /\ k >= 1 /\ Complete(parser, k)
                                 /\ \A j \in 1..(k - 1) : ~Complete(parser, j)
    BY <2>1, <2>4, <2>6, BufferAssumption
  <2> QED BY <2>2, <2>3, <2>7, <2>8 DEF StreamMatches, n
<1> QED BY <1>1, Invariance, PTL

\* ioLoop executes exactly the frames of the byte stream, each with its own
\* digits and, where it has too few of them, with what earlier frames have
\* left, for every stream, alphabet, buffer size and initial buffer content.
THEOREM Refinement == Spec => ImplementsGrammar
<1>1. Init => Grammar!Init
  <2> SUFFICES ASSUME Init PROVE Grammar!Init
    OBVIOUS
  <2>1. parser \in Parser
    BY InitInv DEF Inv, TypeOK
  <2>2. Memory(parser) \in [1..BufferSize -> 0..255]
    BY <2>1, MemoryType
  <2> QED BY <2>2 DEF Init, Grammar!Init
<1>2. Inv /\ [Next]_vars => [Grammar!Next]_<<rx, Memory(parser), executed>>
  BY NextInv
<1> QED BY <1>1, <1>2, Invariance, PTL DEF Spec, ImplementsGrammar, Grammar!Spec
============================================================================
