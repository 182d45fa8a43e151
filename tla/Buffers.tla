------------------------------- MODULE Buffers --------------------------------
(***************************************************************************)
(* Buffers of elements and of bits.  A program uses one.                   *)
(*                                                                         *)
(* vector of course/soln_vector.cpp: push_back doubles a capacity that is  *)
(* zero; resize destroys the elements it cuts off in an array whose        *)
(* elements are all there until it is deleted.  circular_buffer of         *)
(* circular_buffer.cpp and CircularBuffer of simple_circular_buffer.cpp    *)
(* keep the last N elements.  bitbuffer of bitbuf.cpp stores words at any  *)
(* bit, BitStream of bitstream.cpp reads the fields of a video stream, and *)
(* the values of ceres have a header for how wide they are.                *)
(***************************************************************************)
EXTENDS Naturals, Sequences, FiniteSets, FiniteSetsExt

CONSTANTS Names, Values, Default,   \* Default: T()
          MaxSize,
          N, MaxTotal,              \* of a ring; bound on what is pushed
          WordBits,                 \* what a word of a bitbuffer has
          Limit, OffsetWrap,        \* limit; 2^8, as the offset has eight bits
          MaxStored,                \* bound on the values stored
          ByteBits, Streams, FieldWidths

VARIABLES
  what,          \* "vector", "circular_buffer", "CircularBuffer", "bitbuffer" or "BitStream"
  ring, total_, next,
  kept,          \* what a queue of N places would hold
  memory, offset_,
  stored,        \* what was stored, where
  loaded,        \* what was loaded since
  stream, pos_bit_,
  field,         \* the last field that was parsed
  trivial,       \* whether destroying a T does nothing
  data_, size_,  \* of each vector; the capacity is the length of data_
  destroyed,     \* of each vector, the slots whose element has been destroyed
  list,          \* of each vector, what a std::vector would hold
  at             \* "running" or "undefined"

vectorVars == <<data_, size_, destroyed, list>>
ringVars == <<ring, total_, next, kept>>
bitVars == <<memory, offset_, stored, loaded>>
streamVars == <<pos_bit_, field>>
vars == <<what, trivial, vectorVars, ringVars, bitVars, stream, streamVars, at>>

Empty == [n \in Names |-> <<>>]
VectorInit ==
  /\ trivial \in BOOLEAN /\ at = "running"
  /\ data_ = Empty /\ size_ = [n \in Names |-> 0]
  /\ destroyed = [n \in Names |-> {}] /\ list = Empty

Runs == at = "running"
Undefined == at' = "undefined" /\ UNCHANGED <<data_, size_, destroyed, list>>
capacity_(n) == Len(data_[n])

(* reserve: make_unique gives every slot a T(); the old array is deleted.     *)
Reserved(n, capacity) ==
  IF capacity > capacity_(n)
  THEN [i \in 1 .. capacity |-> IF i <= size_[n] THEN data_[n][i] ELSE Default]
  ELSE data_[n]
DeletesTwice(n, capacity) == capacity > capacity_(n) /\ destroyed[n] # {}
Reserve(n, capacity) ==
  /\ Runs
  /\ IF DeletesTwice(n, capacity) THEN Undefined
     ELSE /\ data_' = [data_ EXCEPT ![n] = Reserved(n, capacity)]
          /\ UNCHANGED <<size_, destroyed, list, at>>

PushBack(n, v) ==
  LET full == size_[n] = capacity_(n)
      slots == Reserved(n, IF full THEN capacity_(n) * 2 ELSE 0)
      i == size_[n] + 1
  IN  /\ Runs /\ size_[n] < MaxSize
      /\ IF i > Len(slots) \/ i \in destroyed[n] \/ (full /\ DeletesTwice(n, capacity_(n) * 2))
         THEN Undefined
         ELSE /\ data_' = [data_ EXCEPT ![n] = [slots EXCEPT ![i] = v]]
              /\ size_' = [size_ EXCEPT ![n] = i]
              /\ list' = [list EXCEPT ![n] = Append(@, v)]
              /\ UNCHANGED <<destroyed, at>>

(* resize: smaller, within the capacity, or larger                           *)
Listed(n, size) == [i \in 1 .. size |-> IF i <= Len(list[n]) THEN list[n][i] ELSE Default]
Assigned(n, size) == size_[n] + 1 .. size
ResizeStale(n, size) ==  \* mutant: what was cut off comes back
  /\ Runs /\ size <= capacity_(n)
  /\ size_' = [size_ EXCEPT ![n] = size] /\ list' = [list EXCEPT ![n] = Listed(n, size)]
  /\ UNCHANGED <<data_, destroyed, at>>
Resize(n, size) ==
  /\ Runs
  /\ \/ /\ size <= size_[n]
        /\ destroyed' = IF trivial THEN destroyed
                        ELSE [destroyed EXCEPT ![n] = @ \cup (size + 1 .. size_[n])]
        /\ UNCHANGED <<data_, at>>
     \/ /\ size > size_[n] /\ size <= capacity_(n) /\ Assigned(n, size) \cap destroyed[n] = {}
        /\ data_' = [data_ EXCEPT ![n] = [i \in DOMAIN @ |->
                                            IF i \in Assigned(n, size) THEN Default ELSE @[i]]]
        /\ UNCHANGED <<destroyed, at>>
     \/ /\ size > capacity_(n) /\ ~DeletesTwice(n, size)
        /\ data_' = [data_ EXCEPT ![n] = Reserved(n, size)] /\ UNCHANGED <<destroyed, at>>
     \/ /\ size > size_[n] /\ destroyed[n] # {} /\ at' = "undefined"
        /\ UNCHANGED <<data_, destroyed>>
  /\ size_' = [size_ EXCEPT ![n] = size] /\ list' = [list EXCEPT ![n] = Listed(n, size)]

(* The copy has the capacity of what it is made from; the vector it is       *)
(* assigned to gives its array to it, and it is deleted.                     *)
CopyAssign(n, that) ==
  /\ Runs /\ n # that
  /\ IF destroyed[n] # {} THEN Undefined
     ELSE /\ data_' = [data_ EXCEPT ![n] = [i \in DOMAIN data_[that] |->
                         IF i <= size_[that] THEN data_[that][i] ELSE Default]]
          /\ size_' = [size_ EXCEPT ![n] = size_[that]]
          /\ list' = [list EXCEPT ![n] = list[that]]
          /\ UNCHANGED <<destroyed, at>>

(* A move swaps; what is moved from has what the other had.                  *)
Swapped(f, n, that) == [f EXCEPT ![n] = f[that], ![that] = f[n]]
MoveAssign(n, that) ==
  /\ Runs /\ n # that
  /\ data_' = Swapped(data_, n, that) /\ size_' = Swapped(size_, n, that)
  /\ destroyed' = Swapped(destroyed, n, that) /\ list' = Swapped(list, n, that)
  /\ UNCHANGED at

(* ~vector: delete[] destroys every element of the array.                    *)
Destroy(n) ==
  /\ Runs
  /\ IF destroyed[n] # {} THEN Undefined
     ELSE /\ data_' = [data_ EXCEPT ![n] = <<>>] /\ size_' = [size_ EXCEPT ![n] = 0]
          /\ list' = [list EXCEPT ![n] = <<>>] /\ UNCHANGED <<destroyed, at>>

VectorNext ==
  \E n \in Names :
    \/ Destroy(n)
    \/ \E v \in Values : PushBack(n, v)
    \/ \E m \in 1 .. MaxSize : Reserve(n, m) \/ Resize(n, m - 1)
    \/ \E that \in Names : CopyAssign(n, that) \/ MoveAssign(n, that)

-----------------------------------------------------------------------------
(* The rings: one counts all that was ever pushed and shows the last N, the   *)
(* other has a place and a size and gives the oldest back.                   *)
RingInit == ring = [i \in 0 .. N - 1 |-> Default] /\ total_ = 0 /\ next = 0 /\ kept = <<>>

LastOf(q) == IF Len(q) > N THEN Tail(q) ELSE q
Least(a, b) == IF a < b THEN a ELSE b
PushTotal(v) ==
  /\ what = "circular_buffer" /\ total_ < MaxTotal
  /\ ring' = [ring EXCEPT ![total_ % N] = v] /\ total_' = total_ + 1
  /\ kept' = LastOf(Append(kept, v)) /\ UNCHANGED next
size == IF what = "circular_buffer" THEN Least(total_, N) ELSE total_
begin == IF what = "circular_buffer" THEN total_ - size ELSE N + next - size
Shown == [i \in 1 .. size |-> ring[(begin + i - 1) % N]]

(* CircularBuffer, whose size is total_ here                                 *)
PushUnbounded(v) ==  \* mutant: the size grows beyond N
  /\ what = "CircularBuffer" /\ total_ < MaxTotal
  /\ ring' = [ring EXCEPT ![next] = v] /\ next' = (next + 1) % N /\ total_' = total_ + 1
  /\ kept' = LastOf(Append(kept, v))
Push(v) ==
  /\ what = "CircularBuffer"
  /\ ring' = [ring EXCEPT ![next] = v] /\ next' = (next + 1) % N
  /\ total_' = Least(total_ + 1, N) /\ kept' = LastOf(Append(kept, v))
Pop ==
  /\ what = "CircularBuffer" /\ total_ > 0
  /\ total_' = total_ - 1 /\ kept' = Tail(kept) /\ UNCHANGED <<ring, next>>

RingNext ==
  \/ Pop
  \/ \E v \in Values \cup {Default} : PushTotal(v) \/ Push(v)

-----------------------------------------------------------------------------
(* bitbuffer: memory as bits, the lowest of a word first.  A word is stored   *)
(* where the offset is, in two parts if that is not the beginning of a word  *)
(* of its size; the second part is shifted by the offset itself and put over *)
(* what the first word had.                                                  *)
Widths == {1, WordBits}
Bit(v, j) == (v \div 2 ^ j) % 2
Number(bits, w) == FoldSet(LAMBDA j, n : n + bits[j] * 2 ^ j, 0, 0 .. w - 1)
Advance(offset, w) == (offset + w) % OffsetWrap

Frag1(bits, base, off, w, v) ==
  [j \in 0 .. w - 1 |-> IF j >= off THEN Bit(v, j - off) ELSE bits[base + j]]
Frag2(bits, base, off, w, v) ==
  [j \in 0 .. w - 1 |->
     IF j >= off /\ bits[base + j] = 1 THEN 1
     ELSE IF j + off \in w - off .. w - 1 THEN Bit(v, j + off) ELSE 0]
StoredBits(bits, offset, w, v) ==
  LET off == offset % w
      base == offset - off
      first == Frag1(bits, base, off, w, v)
      second == Frag2(bits, base, off, w, v)
  IN  [i \in DOMAIN bits |->
         IF i \in base .. base + w - 1 THEN first[i - base]
         ELSE IF off > 0 /\ i \in base + w .. base + 2 * w - 1 THEN second[i - base - w]
         ELSE bits[i]]
LoadedBits(bits, offset, w) ==
  LET off == offset % w
      base == offset - off
  IN  [j \in 0 .. w - 1 |->
         IF off = 0 THEN bits[base + j]
         ELSE IF j < w - off THEN bits[base + off + j] ELSE bits[base + w + j - (w - off)]]

BitInit ==
  /\ memory = [i \in 0 .. Limit - 1 |-> 0] /\ offset_ = 0
  /\ stored = <<>> /\ loaded = <<>>
Room(w) == Limit - offset_ >= w
Store(w, v) ==
  /\ what = "bitbuffer" /\ loaded = <<>> /\ Room(w) /\ Len(stored) < MaxStored
  /\ memory' = StoredBits(memory, offset_, w, v) /\ offset_' = Advance(offset_, w)
  /\ stored' = Append(stored, [width |-> w, value |-> v, at |-> offset_])
  /\ UNCHANGED loaded
(* The program goes back to the beginning and loads what it stored.          *)
Load ==
  LET from == IF loaded = <<>> THEN 0 ELSE offset_
      w == stored[Len(loaded) + 1].width
  IN  /\ what = "bitbuffer" /\ Len(loaded) < Len(stored)
      /\ loaded' = Append(loaded, Number(LoadedBits(memory, from, w), w))
      /\ offset_' = Advance(from, w) /\ UNCHANGED <<memory, stored>>

-----------------------------------------------------------------------------
(* BitStream: bytes, the highest bit first.  read takes as much of a byte as  *)
(* it needs, and nothing if it needs more than there is; read_bit does not   *)
(* look at the end.                                                          *)
ByteAt(n) == stream[n \div ByteBits + 1]
Piece(byte, from, count) == (byte % 2 ^ (ByteBits - from)) \div 2 ^ (ByteBits - from - count)
Taken(pos, bits) ==
  LET piece[k \in 0 .. bits] ==
        IF k = 0 THEN [curr |-> pos, left |-> bits, output |-> 0]
        ELSE LET p == piece[k - 1]
                 from == p.curr % ByteBits
                 count == Least(p.left, ByteBits - from)
             IN  IF p.left = 0 THEN p
                 ELSE [curr |-> p.curr + count, left |-> p.left - count,
                       output |-> p.output * 2 ^ count + Piece(ByteAt(p.curr), from, count)]
  IN  piece[bits].output
End == Len(stream) * ByteBits
read(pos, bits) == IF pos + bits > End THEN <<0, 0>> ELSE <<bits, Taken(pos, bits)>>
read_bit(pos) == Piece(ByteAt(pos), pos % ByteBits, 1) = 1

NoField == [valid |-> FALSE]
StreamInit == stream \in Streams /\ pos_bit_ = 0 /\ field = NoField
ReadsStream == what = "BitStream" /\ at = "running"

(* seek, which tells what it has skipped                                     *)
Seek(bits) ==
  /\ ReadsStream /\ pos_bit_' = pos_bit_ + Least(bits, End - pos_bit_)
  /\ field' = NoField /\ UNCHANGED at
try_parse_fixed_width(bits) ==
  LET got == read(pos_bit_, bits)
  IN  /\ ReadsStream /\ pos_bit_' = pos_bit_ + got[1]
      /\ field' = [type |-> "fixed", position |-> pos_bit_, width |-> got[1],
                   pattern |-> got[2], valid |-> got[1] = bits]
      /\ UNCHANGED at
(* The zeros are counted up to the first bit that is set, which there may not *)
(* be; as many bits as there were zeros follow it.                           *)
try_parse_variable_exp_golomb ==
  LET ones == {n \in pos_bit_ .. End - 1 : read_bit(n)}
      zero_count == Min(ones) - pos_bit_
      got == read(Min(ones) + 1, zero_count)
      width == got[1] + zero_count + 1
  IN  /\ ReadsStream
      /\ IF ones = {} THEN at' = "undefined" /\ UNCHANGED <<pos_bit_, field>>
         ELSE /\ pos_bit_' = Min(ones) + 1 + got[1]
              /\ field' = [type |-> "golomb", position |-> pos_bit_, width |-> width,
                           pattern |-> got[2] + 2 ^ zero_count - 1,
                           valid |-> width = 2 * zero_count + 1]
              /\ UNCHANGED at

BitNext ==
  \/ Load
  \/ \E w \in Widths : \E v \in 0 .. 2 ^ w - 1 : Store(w, v)
StreamNext ==
  \/ try_parse_variable_exp_golomb
  \/ \E bits \in FieldWidths : Seek(bits) \/ try_parse_fixed_width(bits)

-----------------------------------------------------------------------------
(* The header of a value of ceres: the encoding of the smallest type that     *)
(* holds it.  A magnitude is told apart by how many bits it has, and a value *)
(* by the bits of the word it is given in.                                   *)
fixed_type_table == <<0, 1, 2, 4, 6, 8, 10>>
header_type(length, word) ==
  fixed_type_table[Cardinality({k \in {0, 1, 4, 8, 16, 32} : k < word /\ length > k}) + 1]
sign_encode(header, negative) == IF negative /\ header % 2 = 0 THEN header + 1 ELSE header
is_constant(header) == header < 2
fixed_width(header) == 2 * 2 ^ (header \div 2)
bitwidth(header, word) == IF word = 1 THEN 1 ELSE fixed_width(header)

(* The header of a run of bytes says how wide the number of them is.         *)
variable_type(bytes) == IF bytes < 256 THEN 14 ELSE 15
variable_encoding_width(header) == IF header % 2 = 1 THEN 12 ELSE 8

-----------------------------------------------------------------------------
Init ==
  /\ what \in {"vector", "circular_buffer", "CircularBuffer", "bitbuffer", "BitStream"}
  /\ VectorInit /\ (what = "vector" \/ trivial)
  /\ RingInit /\ BitInit
  /\ StreamInit /\ (what = "BitStream" \/ stream = <<>>)

Next ==
  /\ UNCHANGED <<what, trivial, stream>>
  /\ \/ what = "vector" /\ VectorNext /\ UNCHANGED <<ringVars, bitVars, streamVars>>
     \/ RingNext /\ UNCHANGED <<vectorVars, bitVars, streamVars, at>>
     \/ BitNext /\ UNCHANGED <<vectorVars, ringVars, streamVars, at>>
     \/ StreamNext /\ UNCHANGED <<vectorVars, ringVars, bitVars>>

Spec == Init /\ [][Next]_vars

-----------------------------------------------------------------------------
(* As long as nothing undefined was done, every vector holds what the one of *)
(* the library would hold, whatever was reserved, cut off, copied and moved: *)
(* nothing that was cut off comes back, and no copy shares what it copied.   *)
VectorsHoldTheirLists ==
  Runs => \A n \in Names : /\ size_[n] = Len(list[n]) /\ size_[n] <= capacity_(n)
                           /\ \A i \in 1 .. size_[n] : data_[n][i] = list[n][i]

(* What a ring shows, or gives back, is what a queue that forgets the oldest *)
(* of more than N would hold.                                                *)
RingsKeepTheLast == what \in {"circular_buffer", "CircularBuffer"} => Shown = kept

(* What is loaded is what was stored, unless the offset, which has eight     *)
(* bits, began again at zero; or bits of the value had to go to a second     *)
(* word, where they come to the wrong place but in the middle.               *)
LoadedIsStored ==
  LET crosses(s) ==
        LET off == s.at % s.width
        IN  2 * off # s.width /\ s.value >= 2 ^ (s.width - off)
  IN  (\A i, j \in DOMAIN stored : i < j => stored[i].at < stored[j].at) =>
        \A i \in DOMAIN loaded : crosses(stored[i]) \/ loaded[i] = stored[i].value

(* The bits of a valid field, as one number, are its pattern, and one more   *)
(* for the variable ones; and the next field begins behind it.               *)
StreamNumber(from, width) ==
  FoldSet(LAMBDA n, sum :
            sum + Bit(ByteAt(n), ByteBits - 1 - (n % ByteBits)) * 2 ^ (from + width - 1 - n),
          0, from .. from + width - 1)
FieldsAreTheirBits ==
  field.valid =>
    /\ StreamNumber(field.position, field.width)
         = field.pattern + (IF field.type = "golomb" THEN 1 ELSE 0)
    /\ pos_bit_ = field.position + field.width

(* The header of a value says what it is if it is zero or one, and else how  *)
(* wide the narrowest type is that holds it, and its sign: but -1 has the    *)
(* header of 1.  The width of a value is enough for it, and the header of up *)
(* to 4095 bytes for their number, though up to 8191 are allowed.            *)
HeadersTellValues ==
  /\ \A word \in {1, 8, 16, 32, 64} : \A length \in 0 .. word, negative \in BOOLEAN :
       LET header == sign_encode(header_type(length, word), negative /\ length > 0)
       IN  /\ is_constant(header) <=> length <= 1
           /\ is_constant(header) => header = length
           /\ length <= bitwidth(header, word)
           /\ ~is_constant(header) =>
                /\ header % 2 = (IF negative THEN 1 ELSE 0)
                /\ length <= fixed_width(header)
                /\ \A narrower \in {4, 8, 16, 32} :
                     narrower < fixed_width(header) => narrower < length
  /\ \A bytes \in {1, 255, 256, 4095} :
       bytes < 2 ^ variable_encoding_width(variable_type(bytes))
=============================================================================
