-------------------------- MODULE MemoryCardProofs --------------------------
(***************************************************************************)
(* Proofs about MemoryCard for any pages in a block, any number of saves   *)
(* and any number of starts of the program: CardInv and SaveIntact are     *)
(* invariants, and DoneMeansLanded holds of every step.                    *)
(*                                                                         *)
(* The argument follows a save.  It is 2N + 2 commands that write, N the   *)
(* pages of a block; k of them have been begun, and Made says what the     *)
(* image holds when k are done.  The directory in use is not touched, and  *)
(* the other one is whole and new only when k is all of them.              *)
(***************************************************************************)
EXTENDS MemoryCard, TLAPS

-----------------------------------------------------------------------------
(* The inductive invariant *)

Blocks == Directories \cup {Data}
Values == {Erased} \cup 0..MaxSaves + 1
Loud   == {"sector_erase", "page_program"}
Quiet  == {"set_interrupt", "read_status", "clear_status"}
Commands == [kind : Loud \cup Quiet, at : Nat, version : Nat]
QuietCommands == {Command(kind, 0, 0) : kind \in Quiet}
N    == Len(Pages)
Last == 2 * N + 2          \* commands of a save that write

\* The j-th of them: the data's block is erased and programmed, then the directory's.
Task(d, v, j) ==
  IF j = 1 THEN Command("sector_erase", Address(Data, 0), v)
  ELSE IF j <= N + 1 THEN Command("page_program", Address(Data, Pages[j - 1]), v)
  ELSE IF j = N + 2 THEN Command("sector_erase", Address(d, 0), v)
  ELSE Command("page_program", Address(d, Pages[j - N - 2]), v)

Other(d) == 3 - d

\* The library, the device and the bus at each place of a command.
Protocol ==
  /\ step \in {"rest", "header", "page", "dma", "release", "wait"}
  /\ step \in {"rest", "wait"} => cs # "card" /\ card.command = "none"
  /\ step \notin {"rest", "wait"} => cs = "card"
  /\ step = "header" => card.command = "none"
  /\ step = "page" => /\ op.kind = "page_program" /\ card.command = "page_program"
                      /\ card.position = 5 /\ card.address = op.at
  /\ step = "dma" => /\ op.kind = "page_program" /\ card.command = "page_program"
                     /\ card.position = 133 /\ card.address = op.at /\ card.program = op.version
  /\ step = "release" =>
       /\ card.command = op.kind
       /\ op.kind = "page_program" =>
            card.position = 133 /\ card.address = op.at /\ card.program = op.version
       /\ op.kind = "sector_erase" => card.position = 3
  /\ step = "wait" => op.kind \in Loud
  /\ step \in {"header", "release"} => op.kind \in Loud \/ op \in QuietCommands
  /\ "tc" \in masks => step = "dma"
  /\ clock \in {"idle", "read", "release"}
  /\ clock # "idle" => step \in {"rest", "wait"}
  /\ exiint => step = "wait"

\* What the fields may hold.
Cards == [command : {"none"} \cup Loud \cup Quiet, position : Nat, address : Nat,
          program : Values, irqEnabled : BOOLEAN, irqPending : BOOLEAN,
          image : [Cells -> Values], dirty : BOOLEAN]

Ranges ==
  /\ card \in Cards
  /\ cs \in {"none", "card", "clock"}
  /\ exiint \in BOOLEAN /\ tcint \in BOOLEAN /\ masks \subseteq {"exi", "tc"}
  /\ saved \in 1..MaxSaves + 1 /\ save \in 0..MaxSaves + 1
  /\ kept \in Nat \ {0}
  /\ todo \in Seq(Commands)
  /\ host \in {"off", "running", "leaving", "writing"}

\* Between saves only commands that leave the image alone are under way.
Resting ==
  /\ step \in {"rest", "header", "release"}
  /\ step # "rest" => op \in QuietCommands
  /\ \A i \in 1..Len(todo) : todo[i] \in QuietCommands
  /\ WholeCopies(card.image) # {} /\ Newest(card.image) = saved

\* The image once the first k commands of a save into directory d are done: the other
\* directory is untouched, and blocks fill in order.
Made(image, d, k) ==
  /\ \A u \in Units : image[Address(Other(d), u)] = saved
  /\ k <= N + 1 => (Whole(image, d) => Version(image, d) <= saved)
  /\ k >= 1 => \A i \in 1..N :
       image[Address(Data, Pages[i])] = IF i < k THEN save ELSE Erased
  /\ k >= N + 2 => \A i \in 1..N :
       image[Address(d, Pages[i])] = IF i < k - N - 1 THEN save ELSE Erased

\* What is left of it: l commands that leave the image alone, then the tasks after k.
Remaining(d, k, l) ==
  /\ Len(todo) = l + (Last - k)
  /\ \A i \in 1..l : todo[i] \in QuietCommands
  /\ \A i \in 1..Last - k : todo[l + i] = Task(d, save, k + i)

\* A writing command is begun, and its effect still to come.
Underway == /\ op.kind \in Loud
            /\ \/ step \in {"header", "page", "dma"}
               \/ step = "release" /\ op.kind = "page_program"

\* A save has begun k of its commands; the image shows those that are done.
SavingAt(d, k, l) ==
  /\ Remaining(d, k, l)
  /\ step # "rest" /\ op.kind \in Loud => k >= 1 /\ op = Task(d, save, k)
  /\ Made(card.image, d, IF Underway THEN k - 1 ELSE k)

Saving ==
  /\ save = saved + 1
  /\ \E d \in Directories, k \in 0..Last, l \in 0..Len(todo) : SavingAt(d, k, l)

\* The file against the card, at each place of the program's life.
Stored ==
  /\ file # NoFile => /\ file \in [Cells -> Values] /\ WholeCopies(file) # {}
                      /\ Newest(file) >= kept
  /\ file = NoFile => host \in {"off", "writing"}
  /\ file = NoFile /\ host = "off" => kept = Newest(Formatted)
  /\ host = "writing" => file = NoFile
  /\ host \in {"running", "leaving"} /\ ~card.dirty => file = card.image
  /\ host # "off" => saved >= kept

IInv ==
  /\ CardInv /\ Protocol /\ Ranges /\ Stored
  /\ save = 0 => Resting
  /\ save # 0 => Saving

-----------------------------------------------------------------------------
(* The image's addresses *)

LEMMA PagesAre ==
  /\ N \in Nat \ {0} /\ Last \in Nat
  /\ \A i \in 1..N : Pages[i] \in 0..63 /\ Pages[i] \in Units
  /\ Units \subseteq 0..63
  /\ \A u \in Units : \E i \in 1..N : u = Pages[i]
  /\ \A i, j \in 1..N : Pages[i] = Pages[j] => i = j
<1>1. N \in Nat \ {0} /\ DOMAIN Pages = 1..N BY PagesAssumption DEF N
<1>2. \A i \in 1..N : Pages[i] \in 0..63
  <2> DEFINE S == 0..63
  <2>1. Pages \in Seq(S) BY PagesAssumption
  <2> HIDE DEF S
  <2>2. \A i \in 1..Len(Pages) : Pages[i] \in S BY <2>1
  <2> QED BY <2>2 DEF N, S
<1>3. Units = {Pages[i] : i \in 1..N} BY <1>1 DEF Units, Range
<1>4. \A i, j \in 1..N : Pages[i] = Pages[j] => i = j
  <2> SUFFICES ASSUME NEW i \in 1..N, NEW j \in 1..N, i # j PROVE Pages[i] # Pages[j]
    OBVIOUS
  <2>1. i < j \/ j < i BY <1>1
  <2>2. \A k, l \in 1..N : k < l => Pages[k] < Pages[l] BY <1>1, PagesAssumption
  <2> QED BY <1>2, <2>1, <2>2
<1>5. Units \subseteq 0..63 BY <1>2, <1>3
<1>6. Last \in Nat BY <1>1 DEF Last
<1> QED BY <1>1, <1>2, <1>3, <1>4, <1>5, <1>6

\* The addresses of a sector.
Sector(at) == at..at + 8191

\* A cell of the image is a page of one block.
LEMMA BlockOf ==
  ASSUME NEW b \in Blocks, NEW u \in 0..63
  PROVE  Address(b, u) \in Nat /\ Block(Address(b, u)) = b
BY DEF Address, Block, Blocks, Directories, Data

LEMMA OnePlace ==
  ASSUME NEW b \in Blocks, NEW u \in 0..63, NEW c \in Blocks, NEW w \in 0..63
  PROVE  Address(b, u) = Address(c, w) => b = c /\ u = w
<1> SUFFICES ASSUME Address(b, u) = Address(c, w) PROVE b = c /\ u = w OBVIOUS
<1>1. b = c
  <2>1. Block(Address(b, u)) = b BY BlockOf
  <2>2. Block(Address(c, w)) = c BY BlockOf
  <2> QED BY <2>1, <2>2
<1>2. b \in Int BY DEF Blocks, Directories, Data
<1> QED BY <1>1, <1>2 DEF Address

LEMMA InSector ==
  ASSUME NEW b \in Blocks, NEW u \in 0..63, NEW c \in Blocks
  PROVE  Address(b, u) \in Sector(Address(c, 0)) <=> b = c
<1>1. b \in {1, 2, 16} /\ c \in {1, 2, 16} BY DEF Blocks, Directories, Data
<1> QED BY <1>1 DEF Address, Sector

LEMMA CellIs ==
  ASSUME NEW a \in Cells
  PROVE  \E b \in Blocks, u \in Units : a = Address(b, u)
BY DEF Cells, Blocks

LEMMA IsCell ==
  ASSUME NEW b \in Blocks, NEW u \in Units
  PROVE  Address(b, u) \in Cells
BY DEF Cells, Blocks

\* The four bytes of an address name it (exi_card.c:396-428); the last one is 0.
Spells(x, y, z, a) ==
  /\ x \in 0..1 /\ y \in 0..255 /\ z \in 0..3
  /\ a \div 131072 = x /\ (a \div 512) % 256 = y /\ (a \div 128) % 4 = z
  /\ a % 128 = 0 /\ x * 131072 + y * 512 + z * 128 = a

LEMMA Decoded ==
  ASSUME NEW b \in Blocks, NEW u \in 0..63
  PROVE  \E x, y, z : Spells(x, y, z, Address(b, u)) /\ (u = 0 => z = 0)
<1> DEFINE a == Address(b, u)
           hi == IF b = 16 THEN 1 ELSE 0
           lo == IF b = 16 THEN 0 ELSE b * 16
<1>b. b \in {1, 2, 16} BY DEF Blocks, Directories, Data
<1>1. PICK q \in 0..15, r \in 0..3 : u = 4 * q + r
  <2>1. u = 4 * (u \div 4) + (u % 4) /\ u \div 4 \in 0..15 /\ u % 4 \in 0..3 OBVIOUS
  <2> QED BY <2>1
<1>2. a = b * 8192 + q * 512 + r * 128 BY <1>b, <1>1 DEF Address
<1>3. a \div 131072 = hi BY <1>b, <1>2
<1>4. a \div 512 = b * 16 + q BY <1>b, <1>2
<1>5. a \div 128 = b * 64 + q * 4 + r BY <1>b, <1>2
<1>6. a % 128 = 0
  <2>1. a = 128 * (b * 64 + q * 4 + r) BY <1>b, <1>2
  <2> QED BY <1>b, <2>1
<1>7. (a \div 512) % 256 = lo + q BY <1>b, <1>4
<1>8. (a \div 128) % 4 = r BY <1>b, <1>5
<1>9. hi * 131072 + (lo + q) * 512 + r * 128 = a /\ (u = 0 => r = 0) BY <1>b, <1>1, <1>2
<1>10. hi \in 0..1 /\ lo + q \in 0..255 BY <1>b
<1> DEFINE y == lo + q
<1> HIDE DEF hi, lo, y
<1>11. y \in 0..255 /\ (a \div 512) % 256 = y /\ hi * 131072 + y * 512 + r * 128 = a
  BY <1>7, <1>9, <1>10 DEF y
<1>12. /\ hi \in 0..1 /\ y \in 0..255 /\ r \in 0..3
       /\ a \div 131072 = hi /\ (a \div 512) % 256 = y /\ (a \div 128) % 4 = r
       /\ a % 128 = 0 /\ hi * 131072 + y * 512 + r * 128 = a
       /\ u = 0 => r = 0
  BY <1>3, <1>6, <1>8, <1>9, <1>10, <1>11
<1> HIDE DEF a
<1>13. Spells(hi, y, r, a) /\ (u = 0 => r = 0) BY <1>12 DEF Spells
<1> QED BY <1>13 DEF a

-----------------------------------------------------------------------------
(* The device *)

\* A transfer of up to five bytes, byte by byte.
LEMMA BytesAre ==
  ASSUME NEW c, NEW b, Len(b) \in 1..5
  PROVE  \E f : /\ f[0] = c /\ f[Len(b)] = CardBytes(c, b)
                /\ \A k \in 1..Len(b) : f[k] = CardByte(f[k - 1], b[k])
<1> DEFINE n == Len(b)
           F(f) == [k \in 0..n |-> IF k = 0 THEN c ELSE CardByte(f[k - 1], b[k])]
           c1 == CardByte(c, b[1])
           c2 == CardByte(c1, b[2])
           c3 == CardByte(c2, b[3])
           c4 == CardByte(c3, b[4])
           c5 == CardByte(c4, b[5])
           g == [k \in 0..n |-> IF k = 0 THEN c ELSE IF k = 1 THEN c1 ELSE IF k = 2 THEN c2
                                ELSE IF k = 3 THEN c3 ELSE IF k = 4 THEN c4 ELSE c5]
           a == CHOOSE f : f = F(f)
<1>0. n \in 1..5 OBVIOUS
<1>1. g = F(g)
  <2>0. \A k \in 0..n : k \in {0, 1, 2, 3, 4, 5} /\ (k # 0 => k - 1 \in 0..n)
    <3> HIDE DEF n
    <3> QED BY <1>0
  <2>1. \A k \in 0..n : /\ k = 0 => g[k] = c
                        /\ k = 1 => g[k] = c1
                        /\ k = 2 => g[k] = c2
                        /\ k = 3 => g[k] = c3
                        /\ k = 4 => g[k] = c4
                        /\ k = 5 => g[k] = c5
    OBVIOUS
  <2> HIDE DEF g, n
  <2>2. \A k \in 0..n : F(g)[k] = g[k]
    <3> SUFFICES ASSUME NEW k \in 0..n PROVE F(g)[k] = g[k] OBVIOUS
    <3>1. F(g)[k] = IF k = 0 THEN c ELSE CardByte(g[k - 1], b[k]) OBVIOUS
    <3> HIDE DEF F
    <3>2. CASE k = 0 BY <2>1, <3>1, <3>2
    <3>3. CASE k = 1 BY <2>0, <2>1, <3>1, <3>3
    <3>4. CASE k = 2 BY <2>0, <2>1, <3>1, <3>4
    <3>5. CASE k = 3 BY <2>0, <2>1, <3>1, <3>5
    <3>6. CASE k = 4 BY <2>0, <2>1, <3>1, <3>6
    <3>7. CASE k = 5 BY <2>0, <2>1, <3>1, <3>7
    <3> QED BY <2>0, <3>2, <3>3, <3>4, <3>5, <3>6, <3>7
  <2>3. F(g) = [k \in 0..n |-> F(g)[k]] OBVIOUS
  <2>4. g = [k \in 0..n |-> g[k]] BY DEF g
  <2> QED BY <2>2, <2>3, <2>4
<1>2. a = F(a)
  <2> HIDE DEF F, g
  <2> QED BY <1>1, Zenon
<1>3. CardBytes(c, b) = a[n]
  BY DEF CardBytes
<1>4. /\ a[0] = c
      /\ \A k \in 1..n : a[k] = CardByte(a[k - 1], b[k])
  <2> HIDE DEF a
  <2>1. \A k \in 0..n : a[k] = IF k = 0 THEN c ELSE CardByte(a[k - 1], b[k])
    <3>1. \A k \in 0..n : F(a)[k] = IF k = 0 THEN c ELSE CardByte(a[k - 1], b[k]) OBVIOUS
    <3> HIDE DEF F
    <3> QED BY <1>2, <3>1
  <2>2. 0 \in 0..n /\ \A k \in 1..n : k \in 0..n /\ k # 0 BY <1>0
  <2> QED BY <2>1, <2>2
<1> HIDE DEF a
<1> QED BY <1>3, <1>4

LEMMA BitsAre ==
  ASSUME NEW in \in Nat
  PROVE  /\ AddressBits(1, in) = in * 131072 /\ AddressBits(2, in) = in * 512
         /\ AddressBits(3, in) = (in % 4) * 128 /\ AddressBits(4, in) = in % 128
<1>1. 2^17 = 131072 /\ 2^9 = 512 /\ 2^7 = 128 OBVIOUS
<1> QED BY <1>1 DEF AddressBits

LEMMA BitsNat ==
  ASSUME NEW p \in Nat, NEW in \in Nat
  PROVE  AddressBits(p, in) \in Nat
<1>1. 2^17 = 131072 /\ 2^9 = 512 /\ 2^7 = 128 OBVIOUS
<1>2. in % 4 \in Nat /\ in % 128 \in Nat OBVIOUS
<1> QED BY <1>1, <1>2 DEF AddressBits

\* A card with one field changed is a card.
LEMMA CardWith ==
  ASSUME NEW c \in Cards
  PROVE  /\ \A x \in {"none"} \cup Loud \cup Quiet : [c EXCEPT !.command = x] \in Cards
         /\ \A x \in Nat : [c EXCEPT !.position = x] \in Cards /\ [c EXCEPT !.address = x] \in Cards
         /\ \A x \in Values : [c EXCEPT !.program = x] \in Cards
         /\ \A x \in BOOLEAN : /\ [c EXCEPT !.irqEnabled = x] \in Cards
                              /\ [c EXCEPT !.irqPending = x] \in Cards
                              /\ [c EXCEPT !.dirty = x] \in Cards
         /\ \A x \in [Cells -> Values] : [c EXCEPT !.image = x] \in Cards
<1>1. \A x \in {"none"} \cup Loud \cup Quiet : [c EXCEPT !.command = x] \in Cards BY DEF Cards
<1>2. \A x \in Nat : [c EXCEPT !.position = x] \in Cards BY DEF Cards
<1>3. \A x \in Nat : [c EXCEPT !.address = x] \in Cards BY DEF Cards
<1>4. \A x \in Values : [c EXCEPT !.program = x] \in Cards BY DEF Cards
<1>5. \A x \in BOOLEAN : [c EXCEPT !.irqEnabled = x] \in Cards BY DEF Cards
<1>6. \A x \in BOOLEAN : [c EXCEPT !.irqPending = x] \in Cards BY DEF Cards
<1>7. \A x \in BOOLEAN : [c EXCEPT !.dirty = x] \in Cards BY DEF Cards
<1>8. \A x \in [Cells -> Values] : [c EXCEPT !.image = x] \in Cards BY DEF Cards
<1> QED BY <1>1, <1>2, <1>3, <1>4, <1>5, <1>6, <1>7, <1>8

\* The first byte names the command, the others are its address (exi_card.c:320-442).
LEMMA FirstByte ==
  ASSUME NEW c \in Cards, c.position = 0, NEW in \in Loud \cup Quiet, NEW r, r = CardByte(c, in)
  PROVE  /\ r \in Cards /\ r.command = in /\ r.address = 0 /\ r.position = 1
         /\ r.image = c.image /\ r.program = c.program
         /\ r.dirty = c.dirty /\ r.irqPending = c.irqPending
<1>1. r = [c EXCEPT !.command = in, !.address = 0, !.position = 1] BY DEF CardByte
<1>2. r \in Cards
  <2> DEFINE r1 == [c EXCEPT !.command = in]
             r2 == [r1 EXCEPT !.address = 0]
  <2>1. r = [r2 EXCEPT !.position = 1] BY <1>1
  <2>2. r1 \in Cards BY CardWith
  <2> HIDE DEF r1
  <2>3. r2 \in Cards BY <2>2, CardWith
  <2> HIDE DEF r2
  <2>4. 1 \in Nat OBVIOUS
  <2>5. [r2 EXCEPT !.position = 1] \in Cards BY <2>3, <2>4, CardWith, Zenon
  <2> QED BY <2>1, <2>5, Zenon
<1>3. r.command = in /\ r.address = 0 /\ r.position = 1 BY <1>1 DEF Cards
<1>4. r.image = c.image /\ r.program = c.program BY <1>1 DEF Cards
<1>5. r.dirty = c.dirty BY <1>1 DEF Cards
<1>6. r.irqPending = c.irqPending BY <1>1 DEF Cards
<1> QED BY <1>2, <1>3, <1>4, <1>5, <1>6

ByteSent(c, in, r) ==
  /\ r \in Cards /\ r.command = c.command /\ r.position = c.position + 1
  /\ r.program = c.program /\ r.irqPending = c.irqPending
  /\ c.command = "page_program" => r.address = c.address + AddressBits(c.position, in)
  /\ c.command = "sector_erase" /\ c.position <= 2 =>
       r.address = c.address + AddressBits(c.position, in)
  /\ ~(c.command = "sector_erase" /\ c.position = 2) => r.image = c.image /\ r.dirty = c.dirty
  /\ c.command = "sector_erase" /\ c.position = 2 =>
       /\ r.dirty = TRUE
       /\ \A a \in Cells : r.image[a] = IF a \in Sector(r.address) THEN Erased ELSE c.image[a]

LEMMA LaterByte ==
  ASSUME NEW c \in Cards, c.position # 0, NEW in \in Nat, NEW r, r = CardByte(c, in)
  PROVE  ByteSent(c, in, r)
<1> DEFINE erasing == c.command = "sector_erase" /\ c.position = 2
           at == IF \/ c.command = "page_program"
                    \/ (c.command = "sector_erase" /\ c.position <= 2)
                 THEN c.address + AddressBits(c.position, in)
                 ELSE c.address
           enabled == IF c.command = "set_interrupt" /\ c.position = 1 THEN in = 1 ELSE c.irqEnabled
           dirty == c.dirty \/ erasing
           image == [a \in Cells |-> IF erasing /\ a \in at..at + 8191 THEN Erased ELSE c.image[a]]
<1>1. r = [c EXCEPT !.position = @ + 1, !.address = at, !.irqEnabled = enabled,
                    !.image = image, !.dirty = dirty]
  BY DEF CardByte
<1>c. /\ c.command \in {"none"} \cup Loud \cup Quiet /\ c.position \in Nat /\ c.address \in Nat
      /\ c.image \in [Cells -> Values] /\ (c.dirty) \in BOOLEAN /\ (c.irqEnabled) \in BOOLEAN
  BY DEF Cards
<1>2. at \in Nat
  <2>1. AddressBits(c.position, in) \in Nat BY <1>c, BitsNat, Zenon
  <2> DEFINE more == AddressBits(c.position, in)
  <2>2. at = c.address + more \/ at = c.address OBVIOUS
  <2> HIDE DEF more, at
  <2>3. more \in Nat BY <2>1 DEF more
  <2> QED BY <1>c, <2>2, <2>3
<1>3. image \in [Cells -> Values] BY <1>c DEF Values
<1>4. enabled \in BOOLEAN /\ dirty \in BOOLEAN
  <2>1. enabled \in BOOLEAN BY <1>c, Zenon
  <2>2. dirty \in BOOLEAN BY <1>c, Zenon
  <2> QED BY <2>1, <2>2
<1>5. ~erasing => image = c.image
  <2>1. ~erasing => image = [a \in Cells |-> c.image[a]] OBVIOUS
  <2> QED BY <1>c, <2>1
<1>6. erasing => \A a \in Cells : image[a] = IF a \in at..at + 8191 THEN Erased ELSE c.image[a]
  OBVIOUS
<1>7. (~erasing => dirty = c.dirty) /\ (erasing => dirty = TRUE) BY <1>c
<1> HIDE DEF enabled, dirty, image, at
<1>8. r \in Cards
  <2> DEFINE r1 == [c EXCEPT !.position = c.position + 1]
             r2 == [r1 EXCEPT !.address = at]
             r3 == [r2 EXCEPT !.irqEnabled = enabled]
             r4 == [r3 EXCEPT !.image = image]
  <2>1. r = [r4 EXCEPT !.dirty = dirty] BY <1>1
  <2>2. r1 \in Cards
    <3>1. c.position + 1 \in Nat BY <1>c
    <3> QED BY <3>1, CardWith, Zenon
  <2> HIDE DEF r1
  <2>3. r2 \in Cards BY <1>2, <2>2, CardWith, Zenon
  <2> HIDE DEF r2
  <2>4. r3 \in Cards BY <1>4, <2>3, CardWith, Zenon
  <2> HIDE DEF r3
  <2>5. r4 \in Cards BY <1>3, <2>4, CardWith, Zenon
  <2> HIDE DEF r4
  <2> QED BY <1>4, <2>1, <2>5, CardWith, Zenon
<1>9. r.position = c.position + 1 /\ r.address = at /\ r.image = image BY <1>1 DEF Cards
<1>10. r.command = c.command /\ r.program = c.program BY <1>1 DEF Cards
<1>11. r.dirty = dirty BY <1>1 DEF Cards
<1>12. r.irqPending = c.irqPending BY <1>1 DEF Cards
<1> QED BY <1>5, <1>6, <1>7, <1>8, <1>9, <1>10, <1>11, <1>12 DEF at, Sector, ByteSent

\* A sector erase has been carried out once its address is there.
Erases(c, b, r) ==
  /\ r \in Cards /\ r.command = "sector_erase" /\ r.position = 3
  /\ r.irqPending = c.irqPending /\ r.dirty = TRUE
  /\ \A d \in Blocks, u \in Units :
       r.image[Address(d, u)] = IF d = b THEN Erased ELSE c.image[Address(d, u)]

LEMMA EraseSent ==
  ASSUME NEW c \in Cards, c.position = 0, NEW b \in Blocks, NEW v, NEW r,
         r = CardBytes(c, Header(Command("sector_erase", Address(b, 0), v)))
  PROVE  Erases(c, b, r)
<1> DEFINE a == Address(b, 0)
           h == Header(Command("sector_erase", a, v))
<1>1. PICK x \in 0..1, y \in 0..255 :
        a \div 131072 = x /\ (a \div 512) % 256 = y /\ x * 131072 + y * 512 = a
  <2>1. 0 \in 0..63 OBVIOUS
  <2>2. PICK x, y, z : Spells(x, y, z, a) /\ z = 0 BY <2>1, Decoded, Zenon
  <2> HIDE DEF a
  <2> QED BY <2>2 DEF Spells
<1>2. Len(h) = 3 /\ h[1] = "sector_erase" /\ h[2] = x /\ h[3] = y
  <2>1. 2^17 = 131072 /\ 2^9 = 512 OBVIOUS
  <2>2. h = <<"sector_erase", a \div 2^17, (a \div 2^9) % 256>> BY DEF Header, Command
  <2> HIDE DEF h, a
  <2> QED BY <1>1, <2>1, <2>2
<1>3. PICK f : /\ f[0] = c /\ f[Len(h)] = CardBytes(c, h)
               /\ \A k \in 1..Len(h) : f[k] = CardByte(f[k - 1], h[k])
  <2> HIDE DEF h
  <2>1. Len(h) \in 1..5 BY <1>2
  <2> QED BY <2>1, BytesAre
<1>r. r = CardBytes(c, h) OBVIOUS
<1> HIDE DEF h, a
<1>4. f[1] = CardByte(c, "sector_erase") /\ f[2] = CardByte(f[1], x) /\ f[3] = CardByte(f[2], y)
      /\ r = f[3]
  <2>1. 1 \in 1..3 /\ 2 \in 1..3 /\ 3 \in 1..3 /\ 1 - 1 = 0 /\ 2 - 1 = 1 /\ 3 - 1 = 2 OBVIOUS
  <2> QED BY <1>r, <1>2, <1>3, <2>1
<1>5. /\ f[1] \in Cards /\ f[1].command = "sector_erase" /\ f[1].address = 0 /\ f[1].position = 1
      /\ f[1].image = c.image /\ f[1].irqPending = c.irqPending
  BY <1>4, FirstByte DEF Loud
<1>6. /\ f[2] \in Cards /\ f[2].command = "sector_erase" /\ f[2].address = x * 131072
      /\ f[2].position = 2 /\ f[2].image = c.image /\ f[2].irqPending = c.irqPending
  <2>1. x \in Nat /\ f[1].position # 0 BY <1>5
  <2>2. ByteSent(f[1], x, f[2]) BY <1>4, <1>5, <2>1, LaterByte, Zenon
  <2>3. AddressBits(1, x) = x * 131072 BY <2>1, BitsAre
  <2> QED BY <1>5, <2>2, <2>3 DEF ByteSent
<1>7. /\ f[3] \in Cards /\ f[3].command = "sector_erase" /\ f[3].address = a
      /\ f[3].position = 3 /\ f[3].dirty = TRUE /\ f[3].irqPending = c.irqPending
      /\ \A e \in Cells : f[3].image[e] = IF e \in Sector(f[3].address) THEN Erased ELSE f[2].image[e]
  <2>1. y \in Nat /\ f[2].position # 0 /\ f[2] \in Cards BY <1>6
  <2>2. ByteSent(f[2], y, f[3]) BY <1>4, <2>1, LaterByte, Zenon
  <2>3. AddressBits(2, y) = y * 512 BY <2>1, BitsAre
  <2> QED BY <1>1, <1>6, <2>2, <2>3 DEF ByteSent
<1>8. ASSUME NEW d \in Blocks, NEW u \in Units
      PROVE  r.image[Address(d, u)] = IF d = b THEN Erased ELSE c.image[Address(d, u)]
  <2>1. Address(d, u) \in Cells BY IsCell
  <2>2. Address(d, u) \in Sector(a) <=> d = b
    <3>1. u \in 0..63 BY PagesAre
    <3> QED BY <3>1, InSector, Zenon DEF a
  <2> QED BY <1>4, <1>6, <1>7, <2>1, <2>2
<1> QED BY <1>4, <1>7, <1>8 DEF Erases

\* A page program waits for its page.
Programs(c, a, r) ==
  /\ r \in Cards /\ r.command = "page_program" /\ r.position = 5 /\ r.address = a
  /\ r.image = c.image /\ r.irqPending = c.irqPending /\ r.dirty = c.dirty

LEMMA ProgramSent ==
  ASSUME NEW c \in Cards, c.position = 0, NEW b \in Blocks, NEW u \in 0..63, NEW v, NEW r,
         r = CardBytes(c, Header(Command("page_program", Address(b, u), v)))
  PROVE  Programs(c, Address(b, u), r)
<1> DEFINE a == Address(b, u)
           h == Header(Command("page_program", a, v))
<1>1. PICK x, y, z : Spells(x, y, z, a) BY Decoded, Zenon
<1>s. /\ x \in 0..1 /\ y \in 0..255 /\ z \in 0..3
      /\ a \div 131072 = x /\ (a \div 512) % 256 = y /\ (a \div 128) % 4 = z
      /\ a % 128 = 0 /\ x * 131072 + y * 512 + z * 128 = a
  <2> HIDE DEF a
  <2> QED BY <1>1 DEF Spells
<1>2. Len(h) = 5 /\ h[1] = "page_program" /\ h[2] = x /\ h[3] = y /\ h[4] = z /\ h[5] = 0
  <2>1. 2^17 = 131072 /\ 2^9 = 512 /\ 2^7 = 128 OBVIOUS
  <2>2. h = <<"page_program", a \div 2^17, (a \div 2^9) % 256, (a \div 2^7) % 4, a % 128>>
    BY DEF Header, Command
  <2> HIDE DEF h, a
  <2> QED BY <1>s, <2>1, <2>2
<1>3. PICK f : /\ f[0] = c /\ f[Len(h)] = CardBytes(c, h)
               /\ \A k \in 1..Len(h) : f[k] = CardByte(f[k - 1], h[k])
  <2> HIDE DEF h
  <2>1. Len(h) \in 1..5 BY <1>2
  <2> QED BY <2>1, BytesAre
<1>r. r = CardBytes(c, h) OBVIOUS
<1> HIDE DEF h, a
<1>4. /\ f[1] = CardByte(c, "page_program") /\ f[2] = CardByte(f[1], x) /\ f[3] = CardByte(f[2], y)
      /\ f[4] = CardByte(f[3], z) /\ f[5] = CardByte(f[4], 0) /\ r = f[5]
  <2>1. /\ 1 \in 1..5 /\ 2 \in 1..5 /\ 3 \in 1..5 /\ 4 \in 1..5 /\ 5 \in 1..5
        /\ 1 - 1 = 0 /\ 2 - 1 = 1 /\ 3 - 1 = 2 /\ 4 - 1 = 3 /\ 5 - 1 = 4
    OBVIOUS
  <2> QED BY <1>r, <1>2, <1>3, <2>1
<1> DEFINE Same(g) == /\ g \in Cards /\ g.command = "page_program" /\ g.image = c.image
                      /\ g.irqPending = c.irqPending /\ g.dirty = c.dirty
<1>5. Same(f[1]) /\ f[1].address = 0 /\ f[1].position = 1 BY <1>4, FirstByte DEF Loud
<1>n. x \in Nat /\ y \in Nat /\ z \in Nat /\ 0 \in Nat BY <1>s
<1>6. Same(f[2]) /\ f[2].address = x * 131072 /\ f[2].position = 2
  <2>1. ByteSent(f[1], x, f[2])
    <3>1. f[1] \in Cards /\ f[1].position # 0 BY <1>5
    <3> HIDE DEF Same
    <3> QED BY <1>4, <1>n, <3>1, LaterByte, Zenon
  <2>2. AddressBits(1, x) = x * 131072 BY <1>n, BitsAre
  <2>3. f[2].address = 0 + AddressBits(1, x) BY <1>5, <2>1 DEF ByteSent
  <2>4. f[2].address = x * 131072
    <3> HIDE DEF Same
    <3> QED BY <1>s, <2>2, <2>3
  <2> QED BY <1>5, <2>1, <2>4 DEF ByteSent
<1>7. Same(f[3]) /\ f[3].address = x * 131072 + y * 512 /\ f[3].position = 3
  <2>1. ByteSent(f[2], y, f[3])
    <3>1. f[2] \in Cards /\ f[2].position # 0 BY <1>6
    <3> HIDE DEF Same
    <3> QED BY <1>4, <1>n, <3>1, LaterByte, Zenon
  <2>2. AddressBits(2, y) = y * 512 BY <1>n, BitsAre
  <2> QED BY <1>6, <2>1, <2>2 DEF ByteSent
<1>8. Same(f[4]) /\ f[4].address = x * 131072 + y * 512 + z * 128 /\ f[4].position = 4
  <2>1. ByteSent(f[3], z, f[4])
    <3>1. f[3] \in Cards /\ f[3].position # 0 BY <1>7
    <3> HIDE DEF Same
    <3> QED BY <1>4, <1>n, <3>1, LaterByte, Zenon
  <2>2. AddressBits(3, z) = z * 128
    <3>1. AddressBits(3, z) = (z % 4) * 128 BY <1>n, BitsAre
    <3>2. z % 4 = z BY <1>s
    <3> QED BY <3>1, <3>2
  <2> QED BY <1>7, <2>1, <2>2 DEF ByteSent
<1>9. Same(f[5]) /\ f[5].address = a /\ f[5].position = 5
  <2>1. ByteSent(f[4], 0, f[5])
    <3>1. f[4] \in Cards /\ f[4].position # 0 BY <1>8
    <3> HIDE DEF Same
    <3> QED BY <1>4, <1>n, <3>1, LaterByte, Zenon
  <2>2. AddressBits(4, 0) = 0
    <3>1. AddressBits(4, 0) = 0 % 128 BY <1>n, BitsAre
    <3>2. 0 % 128 = 0 OBVIOUS
    <3> QED BY <3>1, <3>2
  <2>3. f[5].address = x * 131072 + y * 512 + z * 128 + 0 BY <1>8, <2>1, <2>2 DEF ByteSent
  <2>4. f[5].address = a BY <1>s, <2>3
  <2> QED BY <1>8, <2>1, <2>4 DEF ByteSent
<1> QED BY <1>4, <1>9 DEF a, Programs

\* The commands that leave the image alone.
LEMMA QuietSent ==
  ASSUME NEW c \in Cards, c.position = 0, NEW q \in QuietCommands, NEW r, r = CardBytes(c, Header(q))
  PROVE  /\ r \in Cards /\ r.command = q.kind /\ r.position # 0 /\ r.image = c.image
         /\ r.irqPending = c.irqPending /\ r.dirty = c.dirty
<1>1. PICK kind \in Quiet : q = Command(kind, 0, 0) BY DEF QuietCommands
<1>2. q.kind = kind /\ kind \in Loud \cup Quiet BY <1>1 DEF Command
<1> DEFINE h == Header(q)
<1>3. /\ kind = "clear_status" => Len(h) = 1 /\ h[1] = kind
      /\ kind # "clear_status" => Len(h) = 2 /\ h[1] = kind /\ h[2] \in Nat
  <2>1. CASE kind = "set_interrupt"
    <3>1. h = <<kind, 1>> BY <1>2, <2>1 DEF Header
    <3> QED BY <2>1, <3>1
  <2>2. CASE kind = "read_status"
    <3>1. h = <<kind, 0>> BY <1>2, <2>2 DEF Header
    <3> QED BY <2>2, <3>1
  <2>3. CASE kind = "clear_status"
    <3>1. h = <<kind>> BY <1>2, <2>3 DEF Header
    <3> QED BY <2>3, <3>1
  <2> QED BY <2>1, <2>2, <2>3 DEF Quiet
<1>4. PICK f : /\ f[0] = c /\ f[Len(h)] = CardBytes(c, h)
               /\ \A k \in 1..Len(h) : f[k] = CardByte(f[k - 1], h[k])
  <2> HIDE DEF h
  <2>1. Len(h) \in 1..5 BY <1>3
  <2> QED BY <2>1, BytesAre
<1>r. r = CardBytes(c, h) OBVIOUS
<1> HIDE DEF h
<1>5. f[1] = CardByte(c, kind) /\ (kind # "clear_status" => f[2] = CardByte(f[1], h[2]))
  <2>1. 1 \in 1..Len(h) /\ 1 - 1 = 0 /\ 2 - 1 = 1 /\ (kind # "clear_status" => 2 \in 1..Len(h)) BY <1>3
  <2>2. h[1] = kind BY <1>3
  <2> QED BY <1>4, <2>1, <2>2
<1>6. /\ f[1] \in Cards /\ f[1].command = kind /\ f[1].position = 1 /\ f[1].image = c.image
      /\ f[1].irqPending = c.irqPending /\ f[1].dirty = c.dirty
  BY <1>2, <1>5, FirstByte
<1>7. CASE kind = "clear_status"
  <2>1. r = f[1] BY <1>3, <1>4, <1>7, <1>r
  <2> QED BY <1>2, <1>6, <2>1
<1>8. CASE kind # "clear_status"
  <2>1. r = f[2] /\ h[2] \in Nat BY <1>3, <1>4, <1>8, <1>r
  <2>2. f[1].position # 0 BY <1>6
  <2>3. ByteSent(f[1], h[2], f[2]) BY <1>5, <1>6, <1>8, <2>1, <2>2, LaterByte, Zenon
  <2>4. kind # "sector_erase" BY DEF Quiet
  <2> QED BY <1>2, <1>6, <2>1, <2>3, <2>4 DEF ByteSent
<1> QED BY <1>7, <1>8

\* A page of a program (exi_card.c:396-406).
LEMMA PageSent ==
  ASSUME NEW c \in Cards, c.command = "page_program", c.position = 5, NEW v \in Values,
         NEW r, r = CardPage(c, v)
  PROVE  /\ r \in Cards /\ r.command = "page_program" /\ r.position = 133 /\ r.program = v
         /\ r.address = c.address /\ r.image = c.image /\ r.irqPending = c.irqPending
         /\ r.dirty = c.dirty
<1>1. r = [c EXCEPT !.position = 133, !.program = v] BY DEF CardPage, Cards
<1>2. r \in Cards
  <2> DEFINE r1 == [c EXCEPT !.position = 133]
  <2>1. r = [r1 EXCEPT !.program = v] BY <1>1
  <2>3. 133 \in Nat OBVIOUS
  <2>2. r1 \in Cards BY <2>3 DEF Cards
  <2> HIDE DEF r1
  <2> QED BY <2>1, <2>2, CardWith, Zenon
<1>3. r.command = c.command /\ r.position = 133 /\ r.program = v /\ r.address = c.address
  BY <1>1 DEF Cards
<1>4. r.image = c.image /\ r.irqPending = c.irqPending BY <1>1 DEF Cards
<1>5. r.dirty = c.dirty BY <1>1 DEF Cards
<1> QED BY <1>2, <1>3, <1>4, <1>5

\* What letting go of the card leaves (exi_card.c:291-318).
Ended(c, r) ==
  /\ r \in Cards /\ r.command = "none" /\ r.position = 0
  /\ c.command \notin Loud => r.irqPending = c.irqPending
  /\ c.command # "page_program" => r.image = c.image /\ r.dirty = c.dirty
  /\ c.command = "page_program" /\ c.position = 133 =>
       /\ r.dirty = TRUE
       /\ \A a \in Cells : r.image[a] = IF a = c.address THEN c.program ELSE c.image[a]

LEMMA Deselected ==
  ASSUME NEW c \in Cards, NEW r, r = CardSelect(c, FALSE)
  PROVE  Ended(c, r)
<1> DEFINE commits == c.command = "page_program" /\ c.position >= 5
           finished == commits \/ (c.command = "sector_erase" /\ c.position >= 3)
           image == [a \in Cells |-> IF commits /\ c.position >= 133 /\ a = c.address
                                      THEN c.program ELSE c.image[a]]
           dirty == c.dirty \/ commits
           pending == c.irqPending \/ (finished /\ c.irqEnabled)
<1>1. r = [c EXCEPT !.image = image, !.dirty = dirty, !.irqPending = pending,
                    !.position = 0, !.command = "none"]
  BY DEF CardSelect
<1>c. /\ c.position \in Nat /\ c.program \in Values /\ c.image \in [Cells -> Values]
      /\ (c.dirty) \in BOOLEAN /\ (c.irqPending) \in BOOLEAN /\ (c.irqEnabled) \in BOOLEAN
  BY DEF Cards
<1>2. image \in [Cells -> Values] BY <1>c
<1>3. dirty \in BOOLEAN /\ pending \in BOOLEAN
  <2>1. dirty \in BOOLEAN BY <1>c, Zenon
  <2>2. pending \in BOOLEAN BY <1>c, Zenon
  <2> QED BY <2>1, <2>2
<1>4. c.command # "page_program" => image = c.image
  <2>1. c.command # "page_program" => image = [a \in Cells |-> c.image[a]] OBVIOUS
  <2> QED BY <1>c, <2>1
<1>5. c.command # "page_program" => dirty = c.dirty BY <1>c
<1>6. c.command \notin Loud => pending = c.irqPending BY <1>c DEF Loud
<1>7. c.command = "page_program" /\ c.position = 133 =>
        dirty = TRUE /\ \A a \in Cells : image[a] = IF a = c.address THEN c.program ELSE c.image[a]
  BY <1>c
<1> HIDE DEF image, dirty, pending
<1>8. r \in Cards
  <2> DEFINE r1 == [c EXCEPT !.image = image]
             r2 == [r1 EXCEPT !.dirty = dirty]
             r3 == [r2 EXCEPT !.irqPending = pending]
             r4 == [r3 EXCEPT !.position = 0]
  <2>1. r = [r4 EXCEPT !.command = "none"] BY <1>1
  <2>2. r1 \in Cards BY <1>2, CardWith, Zenon
  <2> HIDE DEF r1
  <2>3. r2 \in Cards BY <1>3, <2>2, CardWith, Zenon
  <2> HIDE DEF r2
  <2>4. r3 \in Cards BY <1>3, <2>3, CardWith, Zenon
  <2> HIDE DEF r3
  <2>z. 0 \in Nat OBVIOUS
  <2>5. r4 \in Cards BY <2>z, <2>4, CardWith, Zenon
  <2> HIDE DEF r4
  <2>6. "none" \in {"none"} \cup Loud \cup Quiet OBVIOUS
  <2> QED BY <2>1, <2>5, <2>6, CardWith, Zenon
<1>9. r.command = "none" /\ r.position = 0 /\ r.image = image BY <1>1 DEF Cards
<1>10. r.dirty = dirty BY <1>1 DEF Cards
<1>11. r.irqPending = pending BY <1>1 DEF Cards
<1> QED BY <1>4, <1>5, <1>6, <1>7, <1>8, <1>9, <1>10, <1>11 DEF Ended

\* A store to the status register: the card is as it was unless it is let go, and
\* signals only when it ends a command that writes (mmio.c:1053-1085).
Kept(c, r) ==
  /\ r.command = c.command /\ r.position = c.position /\ r.address = c.address
  /\ r.program = c.program /\ r.image = c.image /\ r.dirty = c.dirty

LetGo(c, r) ==
  /\ r.command = "none" /\ r.position = 0
  /\ c.command # "page_program" => r.image = c.image /\ r.dirty = c.dirty
  /\ c.command = "page_program" /\ c.position = 133 =>
       /\ r.dirty = TRUE
       /\ \A a \in Cells : r.image[a] = IF a = c.address THEN c.program ELSE c.image[a]

StatusStored(selected, unmasked, cleared) ==
  /\ card' \in Cards /\ ~card'.irqPending
  /\ cs' = selected /\ masks' = unmasked
  /\ line' = Asserted(tcint', exiint', masks')
  /\ tcint' \in BOOLEAN /\ exiint' \in BOOLEAN
  /\ selected \in {cs, "card"} => Kept(card, card')
  /\ selected \notin {cs, "card"} => LetGo(card, card')
  /\ selected \in {cs, "card"} \/ card.command \notin Loud => (exiint' => exiint)
  /\ "tc" \in cleared => ~tcint'
  /\ "exi" \in cleared => ~exiint'

LEMMA StatusStore ==
  ASSUME card \in Cards, ~card.irqPending, exiint \in BOOLEAN, tcint \in BOOLEAN,
         NEW selected, NEW unmasked, NEW cleared, StoreCsr(selected, unmasked, cleared)
  PROVE  StatusStored(selected, unmasked, cleared)
<1> DEFINE c == IF selected # cs THEN CardSelect(card, selected = "card") ELSE card
<1>1. /\ cs' = selected /\ card' = [c EXCEPT !.irqPending = FALSE]
      /\ exiint' = ((exiint \/ c.irqPending) /\ "exi" \notin cleared)
      /\ tcint' = (tcint /\ "tc" \notin cleared)
      /\ masks' = unmasked /\ line' = Asserted(tcint', exiint', masks')
  BY DEF StoreCsr
<1>2. selected \in {cs, "card"} => c = card BY DEF CardSelect
<1>3. selected \notin {cs, "card"} => Ended(card, c)
  <2> SUFFICES ASSUME selected \notin {cs, "card"} PROVE Ended(card, c) OBVIOUS
  <2>1. c = CardSelect(card, FALSE) BY Zenon DEF CardSelect
  <2> HIDE DEF c
  <2> QED BY <2>1, Deselected, Zenon
<1> HIDE DEF c
<1>4. c \in Cards BY <1>2, <1>3 DEF Ended
<1>5. card' \in Cards
  <2>1. FALSE \in BOOLEAN OBVIOUS
  <2> QED BY <1>1, <1>4, <2>1, CardWith, Zenon
<1>6. ~card'.irqPending BY <1>1, <1>4 DEF Cards
<1>7. Kept(c, card')
  <2>1. card'.command = c.command /\ card'.position = c.position /\ card'.address = c.address
    BY <1>1, <1>4 DEF Cards
  <2>2. card'.program = c.program /\ card'.image = c.image BY <1>1, <1>4 DEF Cards
  <2>3. card'.dirty = c.dirty BY <1>1, <1>4 DEF Cards
  <2> QED BY <2>1, <2>2, <2>3 DEF Kept
<1>8. selected \notin {cs, "card"} => LetGo(card, card') BY <1>3, <1>7 DEF Ended, Kept, LetGo
<1>9. selected \in {cs, "card"} => Kept(card, card') BY <1>2, <1>7
<1>10. tcint' \in BOOLEAN /\ exiint' \in BOOLEAN BY <1>1, Zenon
<1>11. /\ "tc" \in cleared => ~tcint'
       /\ "exi" \in cleared => ~exiint'
  BY <1>1, Zenon
<1>12. selected \in {cs, "card"} \/ card.command \notin Loud => (exiint' => exiint)
  <2>1. exiint' => exiint \/ c.irqPending BY <1>1, Zenon
  <2>2. selected \in {cs, "card"} => ~c.irqPending BY <1>2
  <2>3. selected \notin {cs, "card"} /\ card.command \notin Loud => ~c.irqPending
    <3>1. selected \notin {cs, "card"} /\ card.command \notin Loud => c.irqPending = card.irqPending
      BY <1>3 DEF Ended
    <3> QED BY <3>1
  <2> QED BY <2>1, <2>2, <2>3, Zenon
<1> QED BY <1>1, <1>5, <1>6, <1>8, <1>9, <1>10, <1>11, <1>12, Zenon DEF StatusStored

-----------------------------------------------------------------------------
(* Whole copies *)

Anchor == CHOOSE u \in Units : TRUE

LEMMA VersionIs ==
  ASSUME NEW image \in [Cells -> Values], NEW b \in Blocks
  PROVE  /\ Anchor \in Units /\ Version(image, b) = image[Address(b, Anchor)]
         /\ \A u \in Units : Address(b, u) \in Cells /\ image[Address(b, u)] \in Values
         /\ Whole(image, b) <=> /\ Version(image, b) # Erased
                                /\ \A u \in Units : image[Address(b, u)] = Version(image, b)
<1>1. Anchor \in Units
  <2>1. Units # {} BY PagesAre
  <2> QED BY <2>1 DEF Anchor
<1>2. Version(image, b) = image[Address(b, Anchor)] BY DEF Version, Anchor
<1>3. \A u \in Units : Address(b, u) \in Cells BY IsCell
<1>4. ASSUME Whole(image, b)
      PROVE  Version(image, b) # Erased /\ \A u \in Units : image[Address(b, u)] = Version(image, b)
  <2>1. PICK v \in {image[a] : a \in Cells} \ {Erased} : \A u \in Units : image[Address(b, u)] = v
    BY <1>4 DEF Whole
  <2> QED BY <1>1, <1>2, <2>1
<1>5. ASSUME Version(image, b) # Erased, \A u \in Units : image[Address(b, u)] = Version(image, b)
      PROVE  Whole(image, b)
  <2>1. Version(image, b) \in {image[a] : a \in Cells} \ {Erased} BY <1>1, <1>2, <1>3, <1>5
  <2> QED BY <1>5, <2>1 DEF Whole
<1> QED BY <1>1, <1>2, <1>3, <1>4, <1>5

\* The directory the library uses, when there is one.
LEMMA NewestOf ==
  ASSUME NEW image \in [Cells -> Values], WholeCopies(image) # {}
  PROVE  /\ Current(image) \in WholeCopies(image)
         /\ \A e \in WholeCopies(image) : Version(image, e) <= Newest(image)
         /\ Newest(image) \in 0..MaxSaves + 1
<1> DEFINE W == WholeCopies(image)
           V(e) == Version(image, e)
<1>1. W \subseteq {1, 2} BY DEF WholeCopies, Directories
<1>2. \A e \in W : V(e) \in 0..MaxSaves + 1
  <2> TAKE e \in W
  <2>1. e \in Blocks /\ Whole(image, e) BY <1>1 DEF WholeCopies, Blocks, Directories
  <2>2. V(e) # Erased /\ V(e) \in Values BY <2>1, VersionIs
  <2> QED BY <2>2 DEF Values
<1> HIDE DEF W, V
<1>3. \E d \in W : \A e \in W : V(d) >= V(e)
  <2>1. W # {} BY DEF W
  <2>n. \A e \in W : V(e) \in Nat BY <1>2
  <2>2. CASE 1 \in W /\ 2 \in W /\ V(1) >= V(2) BY <1>1, <2>n, <2>2
  <2>3. CASE 1 \in W /\ 2 \in W /\ V(2) >= V(1) BY <1>1, <2>n, <2>3
  <2>4. CASE 1 \in W /\ 2 \notin W BY <1>1, <2>n, <2>4
  <2>5. CASE 1 \notin W
    <3>1. W = {2} BY <1>1, <2>1, <2>5
    <3> QED BY <2>n, <3>1
  <2>6. 1 \in W /\ 2 \in W => V(1) >= V(2) \/ V(2) >= V(1) BY <2>n
  <2> QED BY <2>2, <2>3, <2>4, <2>5, <2>6
<1>4. Current(image) \in W /\ \A e \in W : V(Current(image)) >= V(e)
  <2>1. Current(image) = CHOOSE d \in W : \A e \in W : V(d) >= V(e) BY DEF Current, W, V
  <2> QED BY <1>3, <2>1
<1>5. Newest(image) = V(Current(image)) BY DEF Newest, V
<1>6. V(Current(image)) \in Nat /\ \A e \in W : V(e) \in Nat BY <1>2, <1>4
<1> QED BY <1>2, <1>4, <1>5, <1>6 DEF W, V

LEMMA NewestIs ==
  ASSUME NEW image \in [Cells -> Values], NEW e \in Directories, NEW x, x = Version(image, e),
         Whole(image, e), Whole(image, Other(e)) => Version(image, Other(e)) <= x
  PROVE  WholeCopies(image) # {} /\ Newest(image) = x
<1>1. e \in WholeCopies(image) BY DEF WholeCopies
<1>2. /\ Current(image) \in WholeCopies(image) /\ Version(image, e) <= Newest(image)
      /\ Newest(image) \in 0..MaxSaves + 1
  BY <1>1, NewestOf
<1>3. Newest(image) = Version(image, Current(image)) BY DEF Newest
<1>4. Current(image) = e \/ (Current(image) = Other(e) /\ Whole(image, Other(e)))
  BY <1>2 DEF WholeCopies, Directories, Other
<1>5. x \in Int
  <2>1. e \in Blocks BY DEF Blocks
  <2>2. Version(image, e) \in Values BY <2>1, VersionIs
  <2>3. Values \subseteq Int BY DEF Values, Erased
  <2> QED BY <2>2, <2>3
<1>6. Newest(image) <= x
  <2>1. CASE Current(image) = e BY <1>2, <1>3, <2>1
  <2>2. CASE Current(image) = Other(e) /\ Whole(image, Other(e)) BY <1>3, <2>2
  <2> QED BY <1>4, <2>1, <2>2
<1>7. Newest(image) = x BY <1>2, <1>5, <1>6
<1> QED BY <1>1, <1>7

\* A card as format_card leaves it.
LEMMA FormattedIs ==
  /\ Formatted \in [Cells -> Values]
  /\ WholeCopies(Formatted) = Directories /\ Newest(Formatted) = 1
<1>1. MaxSaves \in Nat BY BoundsAssumption
<1>2. Formatted \in [Cells -> Values]
  <2>1. \A a \in Cells : (IF Block(a) \in Directories THEN Block(a) - 1 ELSE Erased) \in Values
    BY <1>1 DEF Values, Directories
  <2> QED BY <2>1 DEF Formatted
<1>3. ASSUME NEW b \in Directories, NEW u \in Units PROVE Formatted[Address(b, u)] = b - 1
  <2>1. b \in Blocks /\ u \in 0..63 BY PagesAre DEF Blocks
  <2>2. Address(b, u) \in Cells /\ Block(Address(b, u)) = b BY <2>1, IsCell, BlockOf
  <2> QED BY <2>2 DEF Formatted
<1>4. ASSUME NEW b \in Directories PROVE Whole(Formatted, b) /\ Version(Formatted, b) = b - 1
  <2>1. b \in Blocks BY DEF Blocks
  <2>2. Version(Formatted, b) = b - 1 BY <1>2, <1>3, <2>1, VersionIs
  <2>3. b - 1 # Erased BY DEF Directories, Erased
  <2> QED BY <1>2, <1>3, <2>1, <2>2, <2>3, VersionIs
<1>5. WholeCopies(Formatted) = Directories BY <1>4 DEF WholeCopies
<1>6. Newest(Formatted) = 1
  <2>1. 2 \in Directories /\ 1 \in Directories /\ Other(2) = 1 BY DEF Directories, Other
  <2>2. Whole(Formatted, 2) /\ Version(Formatted, 2) = 1 /\ Version(Formatted, 1) = 0 BY <1>4, <2>1
  <2> QED BY <1>2, <2>1, <2>2, NewestIs
<1> QED BY <1>2, <1>5, <1>6

-----------------------------------------------------------------------------
(* A save's commands *)

\* The image while a save is made: its newest directory is the old one until the last
\* page, and by then the data is there.
LEMMA MadeNewest ==
  ASSUME NEW image \in [Cells -> Values], saved \in 1..MaxSaves + 1, save = saved + 1,
         NEW d \in Directories, NEW m \in 0..Last, Made(image, d, m)
  PROVE  /\ WholeCopies(image) # {}
         /\ m # Last => Newest(image) = saved
         /\ m = Last => /\ Newest(image) = save
                        /\ \A u \in Units : image[Address(Data, u)] = save
<1>0. /\ N \in Nat \ {0} /\ Last = 2 * N + 2 /\ saved \in Nat /\ saved # Erased /\ save # Erased
      /\ m \in Nat /\ m <= Last
  BY PagesAre, BoundsAssumption DEF Last, Erased
<1>d. d \in Blocks /\ Other(d) \in Directories /\ Other(d) \in Blocks /\ Other(Other(d)) = d /\ d # Data /\ Other(d) # d
  BY DEF Blocks, Directories, Other, Data
<1>1. Whole(image, Other(d)) /\ Version(image, Other(d)) = saved
  <2>1. \A u \in Units : image[Address(Other(d), u)] = saved BY DEF Made
  <2>2. Version(image, Other(d)) = saved BY <1>d, <2>1, VersionIs
  <2> QED BY <1>0, <1>d, <2>1, <2>2, VersionIs
<1>2. CASE m <= N + 1
  <2>1. Whole(image, d) => Version(image, d) <= saved BY <1>2 DEF Made
  <2>2. WholeCopies(image) # {} /\ Newest(image) = saved BY <1>1, <1>d, <2>1, NewestIs
  <2>3. m # Last BY <1>0, <1>2
  <2> QED BY <2>2, <2>3
<1>3. CASE m >= N + 2
  <2>1. \A i \in 1..N : image[Address(d, Pages[i])] = IF i < m - N - 1 THEN save ELSE Erased BY <1>3 DEF Made
  <2>2. \A i \in 1..N : image[Address(Data, Pages[i])] = IF i < m THEN save ELSE Erased BY <1>0, <1>3 DEF Made
  <2>3. CASE m = Last
    <3>1. \A i \in 1..N : i < m - N - 1 /\ i < m BY <1>0, <2>3
    <3>2. ASSUME NEW u \in Units PROVE image[Address(d, u)] = save /\ image[Address(Data, u)] = save
      <4>1. PICK i \in 1..N : u = Pages[i] BY PagesAre
      <4> QED BY <2>1, <2>2, <3>1, <4>1
    <3>3. Version(image, d) = save BY <1>d, <3>2, VersionIs
    <3>4. Whole(image, d) BY <1>0, <1>d, <3>2, <3>3, VersionIs
    <3>5. Version(image, Other(d)) <= save BY <1>0, <1>1
    <3>6. WholeCopies(image) # {} /\ Newest(image) = save BY <3>3, <3>4, <3>5, NewestIs
    <3> QED BY <2>3, <3>2, <3>6
  <2>4. CASE m # Last
    <3>1. N \in 1..N /\ ~(N < m - N - 1) BY <1>0, <2>4
    <3>2. image[Address(d, Pages[N])] = Erased /\ Pages[N] \in Units BY <2>1, <3>1, PagesAre
    <3>3. ~Whole(image, d)
      <4> SUFFICES ASSUME Whole(image, d) PROVE FALSE OBVIOUS
      <4>1. Version(image, d) # Erased /\ image[Address(d, Pages[N])] = Version(image, d) BY <1>d, <3>2, VersionIs
      <4> QED BY <3>2, <4>1
    <3>4. WholeCopies(image) # {} /\ Newest(image) = saved BY <1>1, <1>d, <3>3, NewestIs
    <3> QED BY <2>4, <3>4
  <2> QED BY <2>3, <2>4
<1> QED BY <1>0, <1>2, <1>3

\* The same, of any state.
LEMMA ImageGood ==
  ASSUME IInv
  PROVE  /\ card.image \in [Cells -> Values] /\ saved \in 1..MaxSaves + 1
         /\ WholeCopies(card.image) # {} /\ Newest(card.image) \in {saved, save}
         /\ Newest(card.image) >= saved /\ Newest(card.image) \in Nat
         /\ Newest(card.image) = save => \A u \in Units : card.image[Address(Data, u)] = save
<1>1. card.image \in [Cells -> Values] /\ saved \in 1..MaxSaves + 1 /\ save \in 0..MaxSaves + 1
  BY DEF IInv, Ranges, Cards
<1>b. MaxSaves \in Nat BY BoundsAssumption
<1>2. CASE save = 0
  <2>1. WholeCopies(card.image) # {} /\ Newest(card.image) = saved BY <1>2 DEF IInv, Resting
  <2> QED BY <1>1, <1>2, <1>b, <2>1
<1>3. CASE save # 0
  <2>1. Saving BY <1>3 DEF IInv
  <2>2. PICK d \in Directories, k \in 0..Last, l \in 0..Len(todo) : SavingAt(d, k, l) BY <2>1 DEF Saving
  <2> DEFINE m == IF Underway THEN k - 1 ELSE k
  <2>3. Made(card.image, d, m) BY <2>2 DEF SavingAt
  <2>4. m \in 0..Last
    <3>1. Underway => k >= 1 BY <2>2 DEF SavingAt, Underway
    <3> QED BY <3>1, PagesAre
  <2> HIDE DEF m
  <2>5. save = saved + 1 BY <2>1 DEF Saving
  <2>6. /\ WholeCopies(card.image) # {}
        /\ m # Last => Newest(card.image) = saved
        /\ m = Last => /\ Newest(card.image) = save
                       /\ \A u \in Units : card.image[Address(Data, u)] = save
    BY <1>1, <2>3, <2>4, <2>5, MadeNewest
  <2> QED BY <1>1, <1>b, <2>5, <2>6
<1> QED BY <1>2, <1>3

-----------------------------------------------------------------------------
(* The library's commands *)

\* The block that the k-th command of a save writes.
Target(d, k) == IF k <= N + 1 THEN Data ELSE d

\* The page that it programs, when it does not erase.
Paged(k) == IF k <= N + 1 THEN k - 1 ELSE k - N - 2

LEMMA TaskIs ==
  ASSUME NEW d \in Directories, NEW v \in Nat, NEW k \in 1..Last
  PROVE  /\ Task(d, v, k) \in Commands /\ Task(d, v, k).kind \in Loud /\ Task(d, v, k).version = v
         /\ Target(d, k) \in Blocks
         /\ Task(d, v, k).kind = "sector_erase" =>
              k \in {1, N + 2} /\ Task(d, v, k) = Command("sector_erase", Address(Target(d, k), 0), v)
         /\ Task(d, v, k).kind = "page_program" =>
              /\ k \notin {1, N + 2} /\ Paged(k) \in 1..N
              /\ Task(d, v, k) = Command("page_program", Address(Target(d, k), Pages[Paged(k)]), v)
<1>0. N \in Nat \ {0} /\ Last = 2 * N + 2 /\ k \in Nat /\ k >= 1 /\ k <= Last BY PagesAre DEF Last
<1>1. Target(d, k) \in Blocks BY DEF Target, Blocks
<1> DEFINE b == Target(d, k)
           j == Paged(k)
<1>2. CASE k \in {1, N + 2}
  <2>1. Task(d, v, k) = Command("sector_erase", Address(b, 0), v) BY <1>0, <1>2 DEF Task, Target
  <2>2. 0 \in 0..63 OBVIOUS
  <2>3. Address(b, 0) \in Nat BY <1>1, <2>2, BlockOf
  <2> HIDE DEF b
  <2> QED BY <1>1, <1>2, <2>1, <2>3 DEF Command, Commands, Loud, b
<1>3. CASE k \notin {1, N + 2}
  <2>1. j \in 1..N BY <1>0, <1>3 DEF Paged
  <2>2. Task(d, v, k) = Command("page_program", Address(b, Pages[j]), v) BY <1>0, <1>3 DEF Task, Target, Paged
  <2>3. Pages[j] \in 0..63 BY <2>1, PagesAre
  <2>4. Address(b, Pages[j]) \in Nat BY <1>1, <2>3, BlockOf
  <2> HIDE DEF b, j
  <2> QED BY <1>1, <1>3, <2>1, <2>2, <2>4 DEF Command, Commands, Loud, b, j
<1> QED BY <1>2, <1>3

LEMMA QuietIs ==
  ASSUME NEW q \in QuietCommands
  PROVE  q \in Commands /\ q.kind \in Quiet /\ q.kind \notin Loud
BY DEF QuietCommands, Commands, Command, Quiet, Loud

\* A command that writes is one of the save's.
LEMMA OpIs ==
  ASSUME IInv, step # "rest", op.kind \in Loud
  PROVE  /\ save \in 1..MaxSaves + 1 /\ save = saved + 1 /\ saved \in Nat
         /\ \E d \in Directories, k \in 1..Last, l \in 0..Len(todo) :
              SavingAt(d, k, l) /\ op = Task(d, save, k)
<1>1. save # 0
  <2> SUFFICES ASSUME save = 0 PROVE FALSE OBVIOUS
  <2>1. op \in QuietCommands BY DEF IInv, Resting
  <2> QED BY <2>1, QuietIs
<1>2. Saving /\ save \in 0..MaxSaves + 1 /\ saved \in 1..MaxSaves + 1 BY <1>1 DEF IInv, Ranges
<1>3. PICK d \in Directories, k \in 0..Last, l \in 0..Len(todo) : SavingAt(d, k, l) BY <1>2 DEF Saving
<1>4. k >= 1 /\ op = Task(d, save, k) BY <1>3 DEF SavingAt
<1>5. k \in 1..Last BY <1>4, PagesAre
<1>6. save \in 1..MaxSaves + 1 /\ saved \in Nat BY <1>1, <1>2, BoundsAssumption
<1>7. save = saved + 1 BY <1>2 DEF Saving
<1> QED BY <1>3, <1>4, <1>5, <1>6, <1>7

\* What the card is after a command's first bytes.
Addressed(r) ==
  /\ r \in Cards /\ r.command = op.kind /\ r.position # 0 /\ ~r.irqPending
  /\ op.kind = "page_program" => r.position = 5 /\ r.address = op.at
  /\ op.kind # "sector_erase" => r.image = card.image /\ r.dirty = card.dirty
  /\ op.kind = "sector_erase" => r.position = 3 /\ r.dirty = TRUE
  /\ op.kind = "sector_erase" => \A b \in Blocks : op.at = Address(b, 0) =>
       \A d \in Blocks, u \in Units :
         r.image[Address(d, u)] = IF d = b THEN Erased ELSE card.image[Address(d, u)]

LEMMA HeaderSent ==
  ASSUME IInv, step = "header", NEW r, r = CardBytes(card, Header(op))
  PROVE  Addressed(r)
<1>1. card \in Cards /\ ~card.irqPending /\ card.command = "none" /\ card.position = 0
  BY DEF IInv, Ranges, Protocol, CardInv
<1>2. op.kind \in Loud \/ op \in QuietCommands BY DEF IInv, Protocol
<1>3. CASE op \in QuietCommands
  <2>1. /\ r \in Cards /\ r.command = op.kind /\ r.position # 0 /\ r.image = card.image
        /\ r.irqPending = card.irqPending /\ r.dirty = card.dirty
    BY <1>1, <1>3, QuietSent, Zenon
  <2>2. op.kind \notin Loud BY <1>3, QuietIs
  <2> QED BY <1>1, <2>1, <2>2 DEF Addressed, Loud
<1>4. CASE op.kind \in Loud
  <2>1. /\ save \in 1..MaxSaves + 1
        /\ \E d \in Directories, k \in 1..Last, l \in 0..Len(todo) :
             SavingAt(d, k, l) /\ op = Task(d, save, k)
    BY <1>4, OpIs
  <2>2. PICK d \in Directories, k \in 1..Last : op = Task(d, save, k) BY <2>1
  <2>3. save \in Nat BY <2>1, BoundsAssumption
  <2> DEFINE b == Target(d, k)
             u == Pages[Paged(k)]
  <2>4. /\ b \in Blocks
        /\ op.kind = "sector_erase" => op = Command("sector_erase", Address(b, 0), save)
        /\ op.kind = "page_program" => Paged(k) \in 1..N /\ op = Command("page_program", Address(b, u), save)
    BY <2>2, <2>3, TaskIs
  <2>5. CASE op.kind = "page_program"
    <3>1. u \in 0..63 BY <2>4, <2>5, PagesAre
    <3>2. op.at = Address(b, u) BY <2>4, <2>5 DEF Command
    <3>3. r = CardBytes(card, Header(Command("page_program", Address(b, u), save))) BY <2>4, <2>5
    <3> HIDE DEF b, u
    <3>4. Programs(card, Address(b, u), r) BY <1>1, <2>4, <3>1, <3>3, ProgramSent, Zenon
    <3> QED BY <1>1, <2>5, <3>2, <3>4 DEF Addressed, Programs
  <2>6. CASE op.kind = "sector_erase"
    <3>2. op.at = Address(b, 0) BY <2>4, <2>6 DEF Command
    <3>3. r = CardBytes(card, Header(Command("sector_erase", Address(b, 0), save))) BY <2>4, <2>6
    <3> HIDE DEF b, u
    <3>4. Erases(card, b, r) BY <1>1, <2>4, <3>3, EraseSent, Zenon
    <3>5. ASSUME NEW c \in Blocks, op.at = Address(c, 0) PROVE c = b
      <4>1. 0 \in 0..63 OBVIOUS
      <4> QED BY <2>4, <3>2, <3>5, <4>1, OnePlace
    <3> QED BY <1>1, <2>6, <3>4, <3>5 DEF Addressed, Erases
  <2> QED BY <1>4, <2>5, <2>6 DEF Loud
<1> QED BY <1>2, <1>3, <1>4

-----------------------------------------------------------------------------
(* The device, the bus and the library *)

\* What CardInv says beside the types.
Wires ==
  /\ line = Asserted(tcint, exiint, masks)
  /\ (card.command = "none") = (card.position = 0)
  /\ card.command # "none" => cs = "card"
  /\ (cs = "clock") = (clock # "idle")
  /\ cs # "none" => "exi" \notin masks
  /\ ~card.irqPending

Sound == Wires /\ Protocol /\ Ranges

LEMMA SoundIs == ASSUME IInv PROVE Sound BY DEF IInv, CardInv, Wires, Sound

\* What the next command is.
LEMMA NextCommand ==
  ASSUME IInv, step = "rest", todo # <<>>
  PROVE  /\ Head(todo) = todo[1] /\ Tail(todo) \in Seq(Commands) /\ Len(Tail(todo)) = Len(todo) - 1
         /\ Len(todo) \in Nat \ {0} /\ \A i \in 1..Len(todo) - 1 : Tail(todo)[i] = todo[i + 1]
         /\ Head(todo).kind \in Loud \/ Head(todo) \in QuietCommands
<1>1. todo \in Seq(Commands) BY DEF IInv, Ranges
<1>2. /\ Head(todo) = todo[1] /\ Tail(todo) \in Seq(Commands) /\ Len(Tail(todo)) = Len(todo) - 1
      /\ Len(todo) \in Nat \ {0} /\ \A i \in 1..Len(todo) - 1 : Tail(todo)[i] = todo[i + 1]
  BY <1>1
<1>3. CASE save = 0 BY <1>2, <1>3 DEF IInv, Resting
<1>4. CASE save # 0
  <2>1. PICK d \in Directories, k \in 0..Last, l \in 0..Len(todo) : SavingAt(d, k, l)
    BY <1>4 DEF IInv, Saving
  <2>2. Len(todo) = l + (Last - k) /\ (\A i \in 1..l : todo[i] \in QuietCommands)
        /\ \A i \in 1..Last - k : todo[l + i] = Task(d, save, k + i)
    BY <2>1 DEF SavingAt, Remaining
  <2>3. CASE l # 0
    <3>1. 1 \in 1..l BY <2>3
    <3> QED BY <1>2, <2>2, <3>1
  <2>4. CASE l = 0
    <3>1. 1 \in 1..Last - k /\ k + 1 \in 1..Last BY <1>2, <2>2, <2>4, PagesAre
    <3>2. todo[1] = Task(d, save, k + 1) BY <2>2, <2>4, <3>1
    <3>3. save \in Nat BY BoundsAssumption DEF IInv, Ranges
    <3>4. Task(d, save, k + 1).kind \in Loud BY <3>1, <3>3, TaskIs
    <3> QED BY <1>2, <3>2, <3>4
  <2> QED BY <2>3, <2>4
<1> QED BY <1>2, <1>3, <1>4

LEMMA BeginSound == ASSUME IInv, Begin PROVE Sound' /\ card'.image = card.image /\ card'.dirty = card.dirty
<1>s. Sound BY SoundIs
<1>1. /\ step = "rest" /\ todo # <<>> /\ clock = "idle" /\ op' = Head(todo) /\ todo' = Tail(todo)
      /\ step' = "header" /\ StoreCsr("card", masks \ {"exi"}, {})
      /\ UNCHANGED <<save, saved, clock, host, file, kept, runs>>
  BY DEF Begin, disk
<1>2. card \in Cards /\ ~card.irqPending /\ exiint \in BOOLEAN /\ tcint \in BOOLEAN
  BY <1>s DEF Sound, Wires, Ranges
<1>3. StatusStored("card", masks \ {"exi"}, {}) BY <1>1, <1>2, StatusStore, Zenon
<1>4. Tail(todo) \in Seq(Commands) /\ (op'.kind \in Loud \/ op' \in QuietCommands) BY <1>1, NextCommand
<1>5. card.command = "none" /\ card.position = 0 /\ ~exiint /\ "tc" \notin masks
  BY <1>s, <1>1 DEF Sound, Wires, Protocol
<1>6. card'.command = "none" /\ card'.position = 0 BY <1>3, <1>5 DEF StatusStored, Kept
<1>7. Wires' BY <1>s, <1>1, <1>3, <1>6 DEF StatusStored, Wires, Sound
<1>8. Protocol' BY <1>s, <1>1, <1>3, <1>4, <1>5, <1>6 DEF StatusStored, Protocol, Sound
<1>9. Ranges' BY <1>s, <1>1, <1>3, <1>4 DEF StatusStored, Ranges, Sound
<1> QED BY <1>3, <1>7, <1>8, <1>9 DEF Sound, StatusStored, Kept

LEMMA SendHeaderSound == ASSUME IInv, SendHeader PROVE Sound' /\ Addressed(card')
<1>s. Sound BY SoundIs
<1>1. /\ step = "header" /\ card' = CardBytes(card, Header(op)) /\ tcint' = TRUE /\ masks' = masks
      /\ line' = Asserted(TRUE, exiint, masks)
      /\ step' = IF op.kind = "page_program" THEN "page" ELSE "release"
      /\ UNCHANGED <<cs, exiint, op, todo, save, saved, clock, host, file, kept, runs>>
  BY DEF SendHeader, Transferred, disk
<1>2. Addressed(card') BY <1>1, HeaderSent
<1>3. card'.command # "none"
  <2>1. op.kind \in Loud \/ op \in QuietCommands BY <1>s, <1>1 DEF Protocol, Sound
  <2>2. op.kind \in Loud \cup Quiet BY <2>1, QuietIs
  <2> QED BY <1>2, <2>2 DEF Addressed, Loud, Quiet
<1>4. Wires' BY <1>s, <1>1, <1>2, <1>3 DEF Wires, Protocol, Sound, Addressed
<1>5. Protocol' BY <1>s, <1>1, <1>2, <1>3 DEF Protocol, Sound, Addressed
<1>6. Ranges' BY <1>s, <1>1, <1>2 DEF Ranges, Sound, Addressed
<1> QED BY <1>2, <1>4, <1>5, <1>6 DEF Sound

LEMMA SendPageSound ==
  ASSUME IInv, SendPage
  PROVE  Sound' /\ card'.image = card.image /\ card'.dirty = card.dirty
<1>s. Sound BY SoundIs
<1>1. /\ step = "page" /\ card' = CardPage(card, op.version) /\ tcint' = TRUE /\ masks' = masks \cup {"tc"}
      /\ line' = Asserted(TRUE, exiint, masks \cup {"tc"}) /\ step' = "dma"
      /\ UNCHANGED <<cs, exiint, op, todo, save, saved, clock, host, file, kept, runs>>
  BY DEF SendPage, Transferred, disk
<1>2. /\ card \in Cards /\ card.command = "page_program" /\ card.position = 5 /\ card.address = op.at
      /\ op.kind = "page_program" /\ ~card.irqPending
  BY <1>s, <1>1 DEF Sound, Wires, Protocol, Ranges
<1>3. op.version \in Values
  <2>1. op.kind \in Loud BY <1>2 DEF Loud
  <2>2. save \in 1..MaxSaves + 1 /\ \E d \in Directories, k \in 1..Last : op = Task(d, save, k)
    BY <1>1, <2>1, OpIs
  <2>3. save \in Nat BY <2>2, BoundsAssumption
  <2>4. op.version = save BY <2>2, <2>3, TaskIs
  <2> QED BY <2>2, <2>4, BoundsAssumption DEF Values
<1>4. /\ card' \in Cards /\ card'.command = "page_program" /\ card'.position = 133
      /\ card'.program = op.version /\ card'.address = op.at /\ card'.image = card.image
      /\ ~card'.irqPending /\ card'.dirty = card.dirty
  BY <1>1, <1>2, <1>3, PageSent
<1>5. Wires' BY <1>s, <1>1, <1>2, <1>4 DEF Wires, Protocol, Sound
<1>6. Protocol' BY <1>s, <1>1, <1>2, <1>4 DEF Protocol, Sound
<1>7. Ranges' BY <1>s, <1>1, <1>4 DEF Ranges, Sound
<1> QED BY <1>4, <1>5, <1>6, <1>7 DEF Sound

LEMMA TransferHandlerSound ==
  ASSUME IInv, TransferHandler
  PROVE  Sound' /\ step = "dma" /\ card'.image = card.image /\ card'.dirty = card.dirty
<1>s. Sound BY SoundIs
<1>1. /\ "tc" \in masks /\ step' = "release" /\ StoreCsr(cs, masks \ {"tc"}, {"tc"})
      /\ UNCHANGED <<op, todo, save, saved, clock, host, file, kept, runs>>
  BY DEF TransferHandler, disk
<1>2. card \in Cards /\ ~card.irqPending /\ exiint \in BOOLEAN /\ tcint \in BOOLEAN
  BY <1>s DEF Sound, Wires, Ranges
<1>3. StatusStored(cs, masks \ {"tc"}, {"tc"}) BY <1>1, <1>2, StatusStore, Zenon
<1>4. /\ step = "dma" /\ cs = "card" /\ op.kind = "page_program" /\ card.command = "page_program"
      /\ card.position = 133 /\ card.address = op.at /\ card.program = op.version /\ ~exiint
  BY <1>s, <1>1 DEF Sound, Protocol
<1>5. Kept(card, card') /\ ~exiint' BY <1>3, <1>4 DEF StatusStored
<1>6. Wires' BY <1>s, <1>1, <1>3, <1>4, <1>5 DEF StatusStored, Kept, Wires, Sound
<1>7. Protocol'
  <2>1. op' = op /\ step' = "release" /\ clock' = clock /\ cs' = "card" /\ "tc" \notin masks'
    BY <1>1, <1>3, <1>4 DEF StatusStored
  <2>2. card'.command = "page_program" /\ card'.position = 133 /\ card'.address = op.at /\ card'.program = op.version
    BY <1>4, <1>5 DEF Kept
  <2>3. clock \in {"idle", "read", "release"} /\ (clock # "idle" => step \in {"rest", "wait"})
    BY <1>s DEF Protocol, Sound
  <2> QED BY <1>4, <1>5, <2>1, <2>2, <2>3 DEF Protocol, Loud
<1>8. Ranges' BY <1>s, <1>1, <1>3, <1>4 DEF StatusStored, Ranges, Sound
<1> QED BY <1>4, <1>5, <1>6, <1>7, <1>8 DEF Sound, Kept

LEMMA ReleaseSound == ASSUME IInv, Release PROVE Sound' /\ LetGo(card, card')
<1>s. Sound BY SoundIs
<1>1. /\ step = "release" /\ StoreCsr("none", masks \cup {"exi"}, {})
      /\ step' = (IF op.kind \in {"sector_erase", "page_program"} THEN "wait" ELSE "rest")
      /\ UNCHANGED <<op, todo, save, saved, clock, host, file, kept, runs>>
  BY DEF Release, disk
<1>2. card \in Cards /\ ~card.irqPending /\ exiint \in BOOLEAN /\ tcint \in BOOLEAN
  BY <1>s DEF Sound, Wires, Ranges
<1>3. StatusStored("none", masks \cup {"exi"}, {}) BY <1>1, <1>2, StatusStore, Zenon
<1>4. cs = "card" /\ card.command = op.kind /\ ~exiint /\ "tc" \notin masks /\ clock = "idle"
  BY <1>s, <1>1 DEF Sound, Protocol
<1>5. LetGo(card, card') BY <1>3, <1>4 DEF StatusStored
<1>6. card'.command = "none" /\ card'.position = 0 BY <1>5 DEF LetGo
<1>7. exiint' => op.kind \in Loud BY <1>3, <1>4 DEF StatusStored
<1>8. Wires' BY <1>s, <1>1, <1>3, <1>4, <1>6 DEF StatusStored, Wires, Sound
<1>9. Protocol'
  <2>1. op' = op /\ clock' = clock /\ cs' = "none" /\ "tc" \notin masks' BY <1>1, <1>3, <1>4 DEF StatusStored
  <2>2. step' = (IF op.kind \in Loud THEN "wait" ELSE "rest") BY <1>1 DEF Loud
  <2> QED BY <1>4, <1>6, <1>7, <2>1, <2>2 DEF Protocol
<1>10. Ranges' BY <1>s, <1>1, <1>3, <1>4 DEF StatusStored, Ranges, Sound
<1> QED BY <1>5, <1>8, <1>9, <1>10 DEF Sound

LEMMA DoneHandlerSound ==
  ASSUME IInv, DoneHandler
  PROVE  Sound' /\ step = "wait" /\ card'.image = card.image /\ card'.dirty = card.dirty
<1>s. Sound BY SoundIs
<1>1. /\ exiint /\ StoreCsr(cs, masks, {"exi"})
      /\ UNCHANGED <<op, save, saved, clock, host, file, kept, runs>>
  BY DEF DoneHandler, disk
<1>2. card \in Cards /\ ~card.irqPending /\ exiint \in BOOLEAN /\ tcint \in BOOLEAN
  BY <1>s DEF Sound, Wires, Ranges
<1>3. StatusStored(cs, masks, {"exi"}) BY <1>1, <1>2, StatusStore, Zenon
<1>4. step = "wait" /\ card.command = "none" /\ cs # "card" /\ "tc" \notin masks
  BY <1>s, <1>1 DEF Sound, Protocol
<1>5. step' = "rest" /\ todo' = <<Command("read_status", 0, 0), Command("clear_status", 0, 0)>> \o todo
  BY <1>4 DEF DoneHandler
<1>6. Kept(card, card') /\ ~exiint' BY <1>3 DEF StatusStored
<1>7. todo' \in Seq(Commands)
  <2>1. Command("read_status", 0, 0) \in Commands /\ Command("clear_status", 0, 0) \in Commands
    BY DEF Command, Commands, Quiet
  <2>2. todo \in Seq(Commands) BY <1>s DEF Sound, Ranges
  <2> HIDE DEF Commands
  <2> QED BY <1>5, <2>1, <2>2
<1>8. Wires' BY <1>s, <1>1, <1>3, <1>4, <1>6 DEF StatusStored, Kept, Wires, Sound
<1>9. Protocol'
  <2>1. op' = op /\ clock' = clock /\ cs' = cs /\ masks' = masks /\ card'.command = "none"
    BY <1>1, <1>3, <1>4, <1>6 DEF StatusStored, Kept
  <2>2. clock \in {"idle", "read", "release"} BY <1>s DEF Protocol, Sound
  <2> QED BY <1>4, <1>5, <1>6, <2>1, <2>2 DEF Protocol
<1>10. Ranges' BY <1>s, <1>1, <1>3, <1>7 DEF StatusStored, Ranges, Sound
<1> QED BY <1>4, <1>6, <1>8, <1>9, <1>10 DEF Sound, Kept

LEMMA ClockSound ==
  ASSUME IInv, ClockSelect \/ ClockRead \/ ClockRelease
  PROVE  Sound' /\ card'.image = card.image /\ card'.dirty = card.dirty
<1>s. Sound BY SoundIs
<1>2. card \in Cards /\ ~card.irqPending /\ exiint \in BOOLEAN /\ tcint \in BOOLEAN
  BY <1>s DEF Sound, Wires, Ranges
<1>u. UNCHANGED <<step, op, todo, save, saved, host, file, kept, runs>>
  BY DEF ClockSelect, ClockRead, ClockRelease, lib, disk
<1>5. CASE ClockSelect
  <2>1. /\ clock = "idle" /\ step \in {"rest", "wait"} /\ clock' = "read"
        /\ StoreCsr("clock", masks \ {"exi"}, {})
    BY <1>5 DEF ClockSelect
  <2>2. StatusStored("clock", masks \ {"exi"}, {}) BY <1>2, <2>1, StatusStore, Zenon
  <2>3. cs = "none" /\ card.command = "none" /\ card.position = 0 /\ "tc" \notin masks
    BY <1>s, <2>1 DEF Sound, Wires, Protocol, Ranges
  <2>4. LetGo(card, card') /\ (exiint' => exiint) BY <2>2, <2>3 DEF StatusStored, Loud
  <2>5. /\ card'.command = "none" /\ card'.position = 0
        /\ card'.image = card.image /\ card'.dirty = card.dirty
    BY <2>3, <2>4 DEF LetGo
  <2>6. Wires' BY <1>s, <2>1, <2>2, <2>5 DEF StatusStored, Wires, Sound
  <2>7. Protocol' BY <1>s, <1>u, <2>1, <2>2, <2>3, <2>4, <2>5 DEF StatusStored, Protocol, Sound
  <2>8. Ranges' BY <1>s, <1>u, <2>2 DEF StatusStored, Ranges, Sound
  <2> QED BY <2>5, <2>6, <2>7, <2>8 DEF Sound
<1>6. CASE ClockRead
  <2>1. /\ clock = "read" /\ clock' = "release" /\ card' = card /\ tcint' = TRUE /\ masks' = masks
        /\ line' = Asserted(TRUE, exiint, masks) /\ cs' = cs /\ exiint' = exiint
    BY <1>6 DEF ClockRead, Transferred
  <2>6. Wires' BY <1>s, <2>1 DEF Wires, Sound
  <2>7. Protocol' BY <1>s, <1>u, <2>1 DEF Protocol, Sound
  <2>8. Ranges' BY <1>s, <1>u, <2>1 DEF Ranges, Sound
  <2> QED BY <2>1, <2>6, <2>7, <2>8 DEF Sound
<1>7. CASE ClockRelease
  <2>1. /\ clock = "release" /\ clock' = "idle" /\ StoreCsr("none", masks \cup {"exi"}, {})
    BY <1>7 DEF ClockRelease
  <2>2. StatusStored("none", masks \cup {"exi"}, {}) BY <1>2, <2>1, StatusStore, Zenon
  <2>3. cs = "clock" /\ card.command = "none" /\ card.position = 0 /\ step \in {"rest", "wait"} /\ "tc" \notin masks
    BY <1>s, <2>1 DEF Sound, Wires, Protocol
  <2>4. LetGo(card, card') /\ (exiint' => exiint) BY <2>2, <2>3 DEF StatusStored, Loud
  <2>5. /\ card'.command = "none" /\ card'.position = 0
        /\ card'.image = card.image /\ card'.dirty = card.dirty
    BY <2>3, <2>4 DEF LetGo
  <2>6. Wires' BY <1>s, <2>1, <2>2, <2>5 DEF StatusStored, Wires, Sound
  <2>7. Protocol' BY <1>s, <1>u, <2>1, <2>2, <2>3, <2>4, <2>5 DEF StatusStored, Protocol, Sound
  <2>8. Ranges' BY <1>s, <1>u, <2>2 DEF StatusStored, Ranges, Sound
  <2> QED BY <2>5, <2>6, <2>7, <2>8 DEF Sound
<1> QED BY <1>5, <1>6, <1>7

-----------------------------------------------------------------------------
(* How a save goes on *)

Shape == (save = 0 => Resting) /\ (save # 0 => Saving)

LEMMA ShapeIs == ASSUME IInv PROVE Shape BY DEF IInv, Shape

\* The same commands are left and the image is the same.
LEMMA SameShape ==
  ASSUME IInv, UNCHANGED lib, card'.image = card.image
  PROVE  Shape'
<1>1. UNCHANGED <<step, op, todo, save, saved>> BY DEF lib
<1>2. ASSUME save = 0 PROVE Resting'
  <2>1. Resting BY <1>2, ShapeIs DEF Shape
  <2> QED BY <1>1, <2>1 DEF Resting
<1>3. ASSUME save # 0 PROVE Saving'
  <2>1. Saving BY <1>3, ShapeIs DEF Shape
  <2>2. PICK d \in Directories, k \in 0..Last, l \in 0..Len(todo) : SavingAt(d, k, l) BY <2>1 DEF Saving
  <2>3. Remaining(d, k, l)' BY <1>1, <2>2 DEF SavingAt, Remaining, Task
  <2>4. Underway' = Underway BY <1>1 DEF Underway
  <2>5. SavingAt(d, k, l)' BY <1>1, <2>2, <2>3, <2>4 DEF SavingAt, Made, Task
  <2> QED BY <1>1, <2>1, <2>5 DEF Saving
<1> QED BY <1>1, <1>2, <1>3 DEF Shape

\* A step of the same save.
LEMMA GoesOn ==
  ASSUME save' = save, saved' = saved, save = saved + 1,
         NEW d \in Directories, NEW k \in 0..Last, NEW l \in Nat, Remaining(d, k, l)',
         step' # "rest" /\ op'.kind \in Loud => k >= 1 /\ op' = Task(d, save, k),
         NEW m, Underway' => m = k - 1, ~Underway' => m = k, Made(card'.image, d, m)
  PROVE  Saving'
<1>1. l \in 0..Len(todo')
  <2>1. Len(todo') = l + (Last - k) /\ Last \in Nat BY PagesAre DEF Remaining
  <2> QED BY <2>1
<1>2. Made(card.image, d, m)' BY DEF Made
<1>3. SavingAt(d, k, l)'
  <2>1. CASE Underway' BY <1>2, <2>1 DEF SavingAt, Task
  <2>2. CASE ~Underway' BY <1>2, <2>2 DEF SavingAt, Task
  <2> QED BY <2>1, <2>2
<1> QED BY <1>1, <1>3 DEF Saving

\* A block erased.
LEMMA MadeErased ==
  ASSUME NEW image \in [Cells -> Values], NEW r \in [Cells -> Values],
         NEW d \in Directories, NEW k \in {1, N + 2}, Made(image, d, k - 1),
         \A e \in Blocks, u \in Units :
           r[Address(e, u)] = IF e = Target(d, k) THEN Erased ELSE image[Address(e, u)]
  PROVE  Made(r, d, k)
<1>0. N \in Nat \ {0} /\ (\A i \in 1..N : Pages[i] \in Units) BY PagesAre
<1>d. /\ d \in Blocks /\ Data \in Blocks /\ Other(d) \in Blocks /\ d # Data
      /\ Other(d) # d /\ Other(d) # Data
  BY DEF Blocks, Directories, Data, Other
<1>1. \A u \in Units : r[Address(Other(d), u)] = saved BY <1>d DEF Made, Target
<1>2. ASSUME k = 1 PROVE Whole(r, d) => Version(r, d) <= saved
  <2>1. \A u \in Units : r[Address(d, u)] = image[Address(d, u)] BY <1>0, <1>2, <1>d DEF Target
  <2>2. Version(r, d) = Version(image, d) BY <1>d, <2>1, VersionIs
  <2>3. Whole(r, d) => Whole(image, d) BY <1>d, <2>1, <2>2, VersionIs
  <2> QED BY <1>0, <1>2, <2>2, <2>3 DEF Made
<1>3. \A i \in 1..N : r[Address(Data, Pages[i])] = IF i < k THEN save ELSE Erased
  BY <1>0, <1>d DEF Made, Target
<1>4. k >= N + 2 => \A i \in 1..N : r[Address(d, Pages[i])] = IF i < k - N - 1 THEN save ELSE Erased
  BY <1>0, <1>d DEF Target
<1>5. k <= N + 1 => k = 1 BY <1>0
<1> QED BY <1>1, <1>2, <1>3, <1>4, <1>5 DEF Made

\* A page programmed.
LEMMA MadePaged ==
  ASSUME NEW image \in [Cells -> Values], NEW r \in [Cells -> Values],
         NEW d \in Directories, NEW k \in 1..Last, k \notin {1, N + 2}, Made(image, d, k - 1),
         \A e \in Blocks, u \in Units :
           r[Address(e, u)] = IF e = Target(d, k) /\ u = Pages[Paged(k)] THEN save ELSE image[Address(e, u)]
  PROVE  Made(r, d, k)
<1>0. /\ N \in Nat \ {0} /\ Last = 2 * N + 2 /\ (\A i \in 1..N : Pages[i] \in Units)
      /\ \A i, j \in 1..N : Pages[i] = Pages[j] => i = j
  BY PagesAre DEF Last
<1>d. /\ d \in Blocks /\ Data \in Blocks /\ Other(d) \in Blocks /\ d # Data
      /\ Other(d) # d /\ Other(d) # Data
  BY DEF Blocks, Directories, Data, Other
<1>1. \A u \in Units : r[Address(Other(d), u)] = saved BY <1>d DEF Made, Target
<1>2. ASSUME k <= N + 1 PROVE Whole(r, d) => Version(r, d) <= saved
  <2>1. \A u \in Units : r[Address(d, u)] = image[Address(d, u)] BY <1>0, <1>2, <1>d DEF Target
  <2>2. Version(r, d) = Version(image, d) BY <1>d, <2>1, VersionIs
  <2>3. Whole(r, d) => Whole(image, d) BY <1>d, <2>1, <2>2, VersionIs
  <2> QED BY <1>0, <1>2, <2>2, <2>3 DEF Made
<1>3. \A i \in 1..N : r[Address(Data, Pages[i])] = IF i < k THEN save ELSE Erased
  <2>1. \A i \in 1..N : image[Address(Data, Pages[i])] = IF i < k - 1 THEN save ELSE Erased
    BY <1>0 DEF Made
  <2> TAKE i \in 1..N
  <2>2. CASE k <= N + 1
    <3>1. Paged(k) = k - 1 /\ k - 1 \in 1..N /\ Target(d, k) = Data BY <1>0, <2>2 DEF Paged, Target
    <3>2. CASE i = k - 1 BY <1>0, <1>d, <3>1, <3>2
    <3>3. CASE i # k - 1
      <4>1. Pages[i] # Pages[Paged(k)] BY <1>0, <3>1, <3>3
      <4>2. r[Address(Data, Pages[i])] = image[Address(Data, Pages[i])] BY <1>0, <1>d, <4>1
      <4>3. i < k - 1 <=> i < k BY <1>0, <3>3
      <4> QED BY <2>1, <4>2, <4>3
    <3> QED BY <3>2, <3>3
  <2>3. CASE k > N + 1
    <3>1. Target(d, k) = d /\ i < k - 1 /\ i < k BY <1>0, <2>3 DEF Target
    <3> QED BY <1>0, <1>d, <2>1, <3>1
  <2> QED BY <1>0, <2>2, <2>3
<1>4. ASSUME k >= N + 2
      PROVE \A i \in 1..N : r[Address(d, Pages[i])] = IF i < k - N - 1 THEN save ELSE Erased
  <2>1. \A i \in 1..N : image[Address(d, Pages[i])] = IF i < (k - 1) - N - 1 THEN save ELSE Erased
    <3>1. k - 1 >= N + 2 BY <1>0, <1>4
    <3> QED BY <3>1 DEF Made
  <2> TAKE i \in 1..N
  <2>2. Paged(k) = k - N - 2 /\ k - N - 2 \in 1..N /\ Target(d, k) = d BY <1>0, <1>4 DEF Paged, Target
  <2>3. CASE i = k - N - 2 BY <1>0, <1>d, <2>2, <2>3
  <2>4. CASE i # k - N - 2
    <3>1. Pages[i] # Pages[Paged(k)] BY <1>0, <2>2, <2>4
    <3>2. r[Address(d, Pages[i])] = image[Address(d, Pages[i])] BY <1>0, <1>d, <3>1
    <3>3. i < (k - 1) - N - 1 <=> i < k - N - 1 BY <1>0, <2>4
    <3> QED BY <2>1, <3>2, <3>3
  <2> QED BY <2>3, <2>4
<1> QED BY <1>1, <1>2, <1>3, <1>4 DEF Made

\* Where the save is, when one is being made.
LEMMA SavingIs ==
  ASSUME IInv, save # 0
  PROVE  /\ save = saved + 1 /\ card.image \in [Cells -> Values]
         /\ \E d \in Directories, k \in 0..Last, l \in Nat : SavingAt(d, k, l)
<1>1. Saving BY DEF IInv
<1>2. PICK d \in Directories, k \in 0..Last, l \in 0..Len(todo) : SavingAt(d, k, l) BY <1>1 DEF Saving
<1>3. l \in Nat OBVIOUS
<1> QED BY <1>1, <1>2, <1>3 DEF Saving, IInv, Ranges, Cards

LEMMA BeginShape == ASSUME IInv, Begin PROVE Shape'
<1>1. /\ step = "rest" /\ todo # <<>> /\ op' = Head(todo) /\ todo' = Tail(todo) /\ step' = "header"
      /\ save' = save /\ saved' = saved /\ card'.image = card.image
  BY BeginSound DEF Begin
<1>2. /\ op' = todo[1] /\ Len(todo') = Len(todo) - 1 /\ Len(todo) \in Nat \ {0}
      /\ \A i \in 1..Len(todo) - 1 : todo'[i] = todo[i + 1]
  BY <1>1, NextCommand
<1>3. ASSUME save = 0 PROVE Resting'
  <2>1. Resting BY <1>3, ShapeIs DEF Shape
  <2>2. op' \in QuietCommands /\ \A i \in 1..Len(todo') : todo'[i] \in QuietCommands
    BY <1>2, <2>1 DEF Resting
  <2> QED BY <1>1, <2>1, <2>2 DEF Resting
<1>4. ASSUME save # 0 PROVE Saving'
  <2>0. save = saved + 1 BY <1>4, SavingIs
  <2>1. PICK d \in Directories, k \in 0..Last, l \in Nat : SavingAt(d, k, l) BY <1>4, SavingIs
  <2>2. /\ Len(todo) = l + (Last - k) /\ (\A i \in 1..l : todo[i] \in QuietCommands)
        /\ \A i \in 1..Last - k : todo[l + i] = Task(d, save, k + i)
        /\ Made(card.image, d, k) /\ Last \in Nat
    BY <1>1, <2>1, PagesAre DEF SavingAt, Remaining, Underway
  <2>3. CASE l # 0
    <3>1. op'.kind \notin Loud
      <4>1. op' \in QuietCommands BY <1>2, <2>2, <2>3
      <4> QED BY <4>1, QuietIs
    <3>2. Remaining(d, k, l - 1)'
      <4>1. Len(todo') = (l - 1) + (Last - k) BY <1>2, <2>2
      <4>2. \A i \in 1..l - 1 : todo'[i] \in QuietCommands BY <1>2, <2>2
      <4>3. \A i \in 1..Last - k : todo'[(l - 1) + i] = Task(d, save, k + i)
        <5> TAKE i \in 1..Last - k
        <5>1. (l - 1) + i \in 1..Len(todo) - 1 /\ ((l - 1) + i) + 1 = l + i BY <2>2, <2>3
        <5> QED BY <1>2, <2>2, <5>1
      <4> QED BY <1>1, <4>1, <4>2, <4>3 DEF Remaining, Task
    <3>3. Made(card'.image, d, k) BY <1>1, <2>2
    <3>4. ~Underway' BY <3>1 DEF Underway
    <3>5. l - 1 \in Nat BY <2>3
    <3> QED BY <1>1, <2>0, <3>1, <3>2, <3>3, <3>4, <3>5, GoesOn
  <2>4. CASE l = 0
    <3>1. k + 1 \in 1..Last /\ 1 \in 1..Last - k BY <1>2, <2>2, <2>4
    <3>2. op' = Task(d, save, k + 1) BY <1>2, <2>2, <2>4, <3>1
    <3>3. Remaining(d, k + 1, 0)'
      <4>1. Len(todo') = 0 + (Last - (k + 1)) BY <1>2, <2>2, <2>4
      <4>2. \A i \in 1..Last - (k + 1) : todo'[0 + i] = Task(d, save, (k + 1) + i)
        <5> TAKE i \in 1..Last - (k + 1)
        <5>1. i \in 1..Len(todo) - 1 /\ i + 1 \in 1..Last - k /\ 0 + i = i /\ (k + 1) + i = k + (i + 1)
          BY <2>2, <2>4
        <5>2. todo'[i] = todo[i + 1] BY <1>2, <5>1
        <5>3. todo[i + 1] = Task(d, save, k + (i + 1)) BY <2>2, <2>4, <5>1
        <5> QED BY <5>1, <5>2, <5>3
      <4>3. \A i \in 1..0 : todo'[i] \in QuietCommands OBVIOUS
      <4> DEFINE j == k + 1
      <4> HIDE DEF j
      <4>4. (\A i \in 1..Last - j : todo'[0 + i] = Task(d, save, j + i)) /\ Len(todo') = 0 + (Last - j)
        BY <4>1, <4>2 DEF j
      <4>5. Remaining(d, j, 0)' BY <1>1, <4>3, <4>4 DEF Remaining, Task
      <4> QED BY <4>5 DEF j
    <3>4. Underway'
      <4>1. save \in Nat BY BoundsAssumption DEF IInv, Ranges
      <4>2. op'.kind \in Loud BY <3>1, <3>2, <4>1, TaskIs
      <4> QED BY <1>1, <4>2 DEF Underway
    <3>5. Made(card'.image, d, k) BY <1>1, <2>2
    <3>6. k = (k + 1) - 1 /\ k + 1 >= 1 /\ k + 1 \in 0..Last /\ 0 \in Nat BY <3>1
    <3> QED BY <1>1, <2>0, <3>2, <3>3, <3>4, <3>5, <3>6, GoesOn
  <2> QED BY <2>3, <2>4
<1> QED BY <1>1, <1>3, <1>4 DEF Shape

\* The rest of the step leaves the save's place as it is: k is the same.
LEMMA StaysAt ==
  ASSUME IInv, save # 0, save' = save, saved' = saved, todo' = todo, op' = op,
         step # "rest", NEW d \in Directories, NEW k \in 0..Last, NEW l \in Nat, SavingAt(d, k, l),
         NEW m, Underway' => m = k - 1, ~Underway' => m = k, Made(card'.image, d, m)
  PROVE  Saving'
<1>1. save = saved + 1 BY SavingIs
<1>2. Remaining(d, k, l)' BY DEF SavingAt, Remaining, Task
<1>3. step' # "rest" /\ op'.kind \in Loud => k >= 1 /\ op' = Task(d, save, k) BY DEF SavingAt
<1> QED BY <1>1, <1>2, <1>3, GoesOn

LEMMA SendHeaderShape == ASSUME IInv, SendHeader PROVE Shape'
<1>1. /\ step = "header" /\ op' = op /\ todo' = todo /\ save' = save /\ saved' = saved
      /\ step' = IF op.kind = "page_program" THEN "page" ELSE "release"
  BY DEF SendHeader
<1>2. Addressed(card') BY SendHeaderSound
<1>3. card'.image \in [Cells -> Values] BY <1>2 DEF Addressed, Cards
<1>4. op.kind # "sector_erase" => card'.image = card.image BY <1>2 DEF Addressed
<1>5. ASSUME save = 0 PROVE Resting'
  <2>1. Resting BY <1>5, ShapeIs DEF Shape
  <2>2. op \in QuietCommands BY <1>1, <2>1 DEF Resting
  <2>3. op.kind \notin Loud BY <2>2, QuietIs
  <2>4. card'.image = card.image /\ step' = "release" BY <1>1, <1>4, <2>3 DEF Loud
  <2> QED BY <1>1, <2>1, <2>2, <2>4 DEF Resting
<1>6. ASSUME save # 0 PROVE Saving'
  <2>0. save = saved + 1 /\ card.image \in [Cells -> Values] BY <1>6, SavingIs
  <2>1. PICK d \in Directories, k \in 0..Last, l \in Nat : SavingAt(d, k, l) BY <1>6, SavingIs
  <2>2. CASE op.kind = "page_program"
    <3>1. Underway /\ Underway' BY <1>1, <2>2 DEF Underway, Loud
    <3>2. Made(card'.image, d, k - 1) BY <1>4, <2>1, <2>2, <3>1 DEF SavingAt
    <3> QED BY <1>1, <1>6, <2>1, <3>1, <3>2, StaysAt
  <2>3. CASE op.kind \notin Loud
    <3>1. ~Underway /\ ~Underway' BY <1>1, <2>3 DEF Underway
    <3>2. Made(card'.image, d, k) BY <1>4, <2>1, <2>3, <3>1 DEF SavingAt, Loud
    <3> QED BY <1>1, <1>6, <2>1, <3>1, <3>2, StaysAt
  <2>4. CASE op.kind = "sector_erase"
    <3>1. Underway /\ ~Underway' BY <1>1, <2>4 DEF Underway, Loud
    <3>2. Made(card.image, d, k - 1) /\ k >= 1 /\ op = Task(d, save, k)
      BY <1>1, <2>1, <2>4, <3>1 DEF SavingAt, Loud
    <3>3. k \in 1..Last /\ save \in Nat BY <3>2, PagesAre, BoundsAssumption DEF IInv, Ranges
    <3>4. /\ k \in {1, N + 2} /\ op = Command("sector_erase", Address(Target(d, k), 0), save)
          /\ Target(d, k) \in Blocks
      BY <2>4, <3>2, <3>3, TaskIs
    <3>5. op.at = Address(Target(d, k), 0) BY <3>4 DEF Command
    <3>6. \A e \in Blocks, u \in Units :
            card'.image[Address(e, u)] = IF e = Target(d, k) THEN Erased ELSE card.image[Address(e, u)]
      BY <1>2, <2>4, <3>4, <3>5 DEF Addressed
    <3>7. Made(card'.image, d, k) BY <1>3, <2>0, <3>2, <3>4, <3>6, MadeErased
    <3> QED BY <1>1, <1>6, <2>1, <3>1, <3>7, StaysAt
  <2> QED BY <2>2, <2>3, <2>4 DEF Loud
<1> QED BY <1>1, <1>5, <1>6 DEF Shape

LEMMA PageShape == ASSUME IInv, SendPage \/ TransferHandler PROVE Shape'
<1>1. /\ step \in {"page", "dma"} /\ op' = op /\ todo' = todo /\ save' = save /\ saved' = saved
      /\ step' \in {"dma", "release"} /\ card'.image = card.image
  BY SendPageSound, TransferHandlerSound DEF SendPage, TransferHandler
<1>2. op.kind = "page_program" BY <1>1, SoundIs DEF Sound, Protocol
<1>3. save # 0
  <2>1. op.kind \in Loud /\ step # "rest" BY <1>1, <1>2 DEF Loud
  <2> QED BY <2>1, OpIs
<1>4. PICK d \in Directories, k \in 0..Last, l \in Nat : SavingAt(d, k, l) BY <1>3, SavingIs
<1>5. Underway /\ Underway' BY <1>1, <1>2 DEF Underway, Loud
<1>6. Made(card'.image, d, k - 1) BY <1>1, <1>4, <1>5 DEF SavingAt
<1>7. Saving' BY <1>1, <1>3, <1>4, <1>5, <1>6, StaysAt
<1> QED BY <1>1, <1>3, <1>7 DEF Shape

LEMMA ReleaseShape == ASSUME IInv, Release PROVE Shape'
<1>1. /\ step = "release" /\ op' = op /\ todo' = todo /\ save' = save /\ saved' = saved
      /\ step' = IF op.kind \in Loud THEN "wait" ELSE "rest"
  BY DEF Release, Loud
<1>2. LetGo(card, card') /\ card'.image \in [Cells -> Values]
  <2>1. Ranges' BY ReleaseSound DEF Sound
  <2> QED BY <2>1, ReleaseSound DEF Ranges, Cards
<1>3. /\ card.command = op.kind
      /\ op.kind = "page_program" =>
           card.position = 133 /\ card.address = op.at /\ card.program = op.version
  BY <1>1, SoundIs DEF Sound, Protocol
<1>4. op.kind # "page_program" => card'.image = card.image BY <1>2, <1>3 DEF LetGo
<1>5. ASSUME save = 0 PROVE Resting'
  <2>1. Resting BY <1>5, ShapeIs DEF Shape
  <2>2. op \in QuietCommands BY <1>1, <2>1 DEF Resting
  <2>3. op.kind \notin Loud BY <2>2, QuietIs
  <2>4. card'.image = card.image /\ step' = "rest" BY <1>1, <1>4, <2>3 DEF Loud
  <2> QED BY <1>1, <2>1, <2>2, <2>4 DEF Resting
<1>6. ASSUME save # 0 PROVE Saving'
  <2>0. save = saved + 1 /\ card.image \in [Cells -> Values] BY <1>6, SavingIs
  <2>1. PICK d \in Directories, k \in 0..Last, l \in Nat : SavingAt(d, k, l) BY <1>6, SavingIs
  <2>2. ~Underway' BY <1>1 DEF Underway
  <2>3. CASE op.kind # "page_program"
    <3>1. ~Underway BY <1>1, <2>3 DEF Underway
    <3>2. Made(card'.image, d, k) BY <1>4, <2>1, <2>3, <3>1 DEF SavingAt
    <3> QED BY <1>1, <1>6, <2>1, <2>2, <3>2, StaysAt
  <2>4. CASE op.kind = "page_program"
    <3>1. Underway BY <1>1, <2>4 DEF Underway, Loud
    <3>2. Made(card.image, d, k - 1) /\ k >= 1 /\ op = Task(d, save, k)
      BY <1>1, <2>1, <2>4, <3>1 DEF SavingAt, Loud
    <3>3. k \in 1..Last /\ save \in Nat BY <3>2, PagesAre, BoundsAssumption DEF IInv, Ranges
    <3>4. /\ k \notin {1, N + 2} /\ Target(d, k) \in Blocks /\ Paged(k) \in 1..N
          /\ op = Command("page_program", Address(Target(d, k), Pages[Paged(k)]), save)
      BY <2>4, <3>2, <3>3, TaskIs
    <3> DEFINE b == Target(d, k)
               w == Pages[Paged(k)]
    <3>5. op.at = Address(b, w) /\ op.version = save BY <3>4 DEF Command
    <3>6. w \in Units /\ w \in 0..63 /\ Units \subseteq 0..63 BY <3>4, PagesAre
    <3>7. \A a \in Cells : card'.image[a] = IF a = op.at THEN save ELSE card.image[a]
      BY <1>2, <1>3, <2>4, <3>5 DEF LetGo
    <3>8. ASSUME NEW e \in Blocks, NEW u \in Units
          PROVE  card'.image[Address(e, u)] = IF e = b /\ u = w THEN save ELSE card.image[Address(e, u)]
      <4>1. Address(e, u) \in Cells BY IsCell
      <4>b. b \in Blocks /\ w \in 0..63 /\ u \in 0..63 BY <3>4, <3>6
      <4> HIDE DEF b, w
      <4>2. Address(e, u) = Address(b, w) => e = b /\ u = w BY <4>b, OnePlace, Zenon
      <4> QED BY <3>5, <3>7, <4>1, <4>2
    <3>9. Made(card'.image, d, k) BY <1>2, <2>0, <3>2, <3>3, <3>4, <3>8, MadePaged
    <3> QED BY <1>1, <1>6, <2>1, <2>2, <3>9, StaysAt
  <2> QED BY <2>3, <2>4
<1> QED BY <1>1, <1>5, <1>6 DEF Shape

\* The two commands that follow an interrupt are put before the rest.
LEMMA DoneHandlerShape == ASSUME IInv, DoneHandler PROVE Shape'
<1> DEFINE rs == Command("read_status", 0, 0)
           cl == Command("clear_status", 0, 0)
<1>1. /\ step = "wait" /\ op' = op /\ save' = save /\ saved' = saved /\ step' = "rest"
      /\ todo' = <<rs, cl>> \o todo /\ card'.image = card.image
  BY DoneHandlerSound DEF DoneHandler
<1>2. save # 0
  <2> SUFFICES ASSUME save = 0 PROVE FALSE OBVIOUS
  <2> QED BY <1>1, ShapeIs DEF Shape, Resting
<1>3. save = saved + 1 BY <1>2, SavingIs
<1>4. PICK d \in Directories, k \in 0..Last, l \in Nat : SavingAt(d, k, l) BY <1>2, SavingIs
<1>5. /\ Len(todo) = l + (Last - k) /\ (\A i \in 1..l : todo[i] \in QuietCommands)
      /\ \A i \in 1..Last - k : todo[l + i] = Task(d, save, k + i)
      /\ Made(card.image, d, k) /\ Last \in Nat
  BY <1>1, <1>4, PagesAre DEF SavingAt, Remaining, Underway
<1>6. rs \in QuietCommands /\ cl \in QuietCommands BY DEF QuietCommands, Quiet
<1>7. /\ todo'[1] = rs /\ todo'[2] = cl /\ Len(todo') = Len(todo) + 2
      /\ \A i \in 1..Len(todo) : todo'[i + 2] = todo[i]
  <2>1. todo \in Seq(Commands) BY DEF IInv, Ranges
  <2>2. rs \in Commands /\ cl \in Commands BY <1>6, QuietIs
  <2> HIDE DEF rs, cl
  <2> QED BY <1>1, <2>1, <2>2
<1> HIDE DEF rs, cl
<1>8. Remaining(d, k, l + 2)'
  <2>1. Len(todo') = (l + 2) + (Last - k) BY <1>5, <1>7
  <2>2. \A i \in 1..l + 2 : todo'[i] \in QuietCommands
    <3> TAKE i \in 1..l + 2
    <3>1. CASE i \in {1, 2} BY <1>6, <1>7, <3>1
    <3>2. CASE i > 2
      <4>1. i - 2 \in 1..l /\ i - 2 \in 1..Len(todo) /\ (i - 2) + 2 = i BY <1>5, <3>2
      <4> QED BY <1>5, <1>7, <4>1
    <3> QED BY <3>1, <3>2
  <2>3. \A i \in 1..Last - k : todo'[(l + 2) + i] = Task(d, save, k + i)
    <3> TAKE i \in 1..Last - k
    <3>1. l + i \in 1..Len(todo) /\ (l + i) + 2 = (l + 2) + i BY <1>5
    <3> QED BY <1>5, <1>7, <3>1
  <2> QED BY <1>1, <2>1, <2>2, <2>3 DEF Remaining, Task
<1>9. ~Underway' BY <1>1 DEF Underway
<1>10. Made(card'.image, d, k) /\ l + 2 \in Nat BY <1>1, <1>5
<1>11. Saving' BY <1>1, <1>3, <1>8, <1>9, <1>10, GoesOn
<1> QED BY <1>1, <1>2, <1>11 DEF Shape

LEMMA Joined ==
  ASSUME NEW S, NEW x \in Seq(S), NEW y \in Seq(S), NEW n \in Nat, Len(x) = n, Len(y) = n
  PROVE  /\ x \o y \in Seq(S) /\ Len(x \o y) = n + n
         /\ \A i \in 1..n + n : (x \o y)[i] = IF i <= n THEN x[i] ELSE y[i - n]
OBVIOUS

\* The commands of a save, one by one.
LEMMA RewritesAre ==
  ASSUME NEW d \in Directories, NEW v \in Nat, NEW s, s = Rewrite(Data, v) \o Rewrite(d, v)
  PROVE  s \in Seq(Commands) /\ Len(s) = Last /\ \A i \in 1..Last : s[i] = Task(d, v, i)
<1>0. N \in Nat \ {0} /\ Last = 2 * N + 2 BY PagesAre DEF Last
<1>1. ASSUME NEW b \in Blocks
      PROVE  /\ Rewrite(b, v) \in Seq(Commands) /\ Len(Rewrite(b, v)) = N + 1
             /\ Rewrite(b, v)[1] = Command("sector_erase", Address(b, 0), v)
             /\ \A i \in 2..N + 1 : Rewrite(b, v)[i] = Command("page_program", Address(b, Pages[i - 1]), v)
  <2> DEFINE erase == Command("sector_erase", Address(b, 0), v)
             program(i) == Command("page_program", Address(b, Pages[i]), v)
             programs == [i \in 1..N |-> program(i)]
  <2>1. erase \in Commands
    <3>1. 0 \in 0..63 OBVIOUS
    <3>2. Address(b, 0) \in Nat BY <3>1, BlockOf, Zenon
    <3> QED BY <3>2 DEF Command, Commands, Loud
  <2>2. \A i \in 1..N : program(i) \in Commands
    <3> TAKE i \in 1..N
    <3> DEFINE u == Pages[i]
    <3>1. u \in 0..63 BY PagesAre
    <3> HIDE DEF u
    <3>2. Address(b, u) \in Nat BY <3>1, BlockOf, Zenon
    <3>3. Command("page_program", Address(b, u), v) \in Commands BY <3>2 DEF Command, Commands, Loud
    <3> QED BY <3>3 DEF u
  <2>3. Rewrite(b, v) = <<erase>> \o programs BY DEF Rewrite, N
  <2> HIDE DEF erase, program
  <2>4. programs \in Seq(Commands) /\ Len(programs) = N BY <1>0, <2>2
  <2>5. \A i \in 1..N : programs[i] = program(i) OBVIOUS
  <2> HIDE DEF programs
  <2>6. /\ Rewrite(b, v) \in Seq(Commands) /\ Len(Rewrite(b, v)) = N + 1 /\ Rewrite(b, v)[1] = erase
        /\ \A i \in 2..N + 1 : Rewrite(b, v)[i] = programs[i - 1]
    BY <1>0, <2>1, <2>3, <2>4
  <2>7. \A i \in 2..N + 1 : i - 1 \in 1..N BY <1>0
  <2> QED BY <2>5, <2>6, <2>7 DEF erase, program
<1>2. Data \in Blocks /\ d \in Blocks BY DEF Blocks
<1> DEFINE x == Rewrite(Data, v)
           y == Rewrite(d, v)
<1>3. /\ x \in Seq(Commands) /\ Len(x) = N + 1 /\ x[1] = Command("sector_erase", Address(Data, 0), v)
      /\ \A i \in 2..N + 1 : x[i] = Command("page_program", Address(Data, Pages[i - 1]), v)
  BY <1>1, <1>2
<1>4. /\ y \in Seq(Commands) /\ Len(y) = N + 1 /\ y[1] = Command("sector_erase", Address(d, 0), v)
      /\ \A i \in 2..N + 1 : y[i] = Command("page_program", Address(d, Pages[i - 1]), v)
  BY <1>1, <1>2
<1> HIDE DEF x, y
<1>5. s = x \o y BY DEF x, y
<1>6. /\ s \in Seq(Commands) /\ Len(s) = Last
      /\ \A i \in 1..Last : s[i] = IF i <= N + 1 THEN x[i] ELSE y[i - N - 1]
  <2>4. x \in Seq(Commands) /\ y \in Seq(Commands) /\ Len(x) = N + 1 /\ Len(y) = N + 1 BY <1>3, <1>4
  <2>5. N + 1 \in Nat BY <1>0
  <2>1. s \in Seq(Commands) /\ Len(s) = (N + 1) + (N + 1) BY <2>4, <2>5, Joined, <1>5
  <2>2. \A i \in 1..(N + 1) + (N + 1) : s[i] = IF i <= N + 1 THEN x[i] ELSE y[i - (N + 1)]
    <3> DEFINE n == N + 1
    <3>1. n \in Nat /\ Len(x) = n /\ Len(y) = n BY <2>4, <2>5
    <3> HIDE DEF n
    <3>2. \A i \in 1..n + n : (x \o y)[i] = IF i <= n THEN x[i] ELSE y[i - n]
      <4>1. x \in Seq(Commands) /\ y \in Seq(Commands) BY <2>4
      <4> QED BY <3>1, <4>1
    <3> QED BY <1>5, <3>2 DEF n
  <2>3. Last = (N + 1) + (N + 1) /\ \A i \in 1..Last : i - (N + 1) = i - N - 1 BY <1>0
  <2> QED BY <2>1, <2>2, <2>3
<1>7. ASSUME NEW i \in 1..Last PROVE s[i] = Task(d, v, i)
  <2>1. CASE i = 1 BY <1>0, <1>3, <1>6, <2>1 DEF Task
  <2>2. CASE i \in 2..N + 1
    <3>1. i # 1 /\ i <= N + 1 BY <1>0, <2>2
    <3> QED BY <1>3, <1>6, <2>2, <3>1 DEF Task
  <2>3. CASE i = N + 2
    <3>1. i # 1 /\ ~(i <= N + 1) /\ i - N - 1 = 1 BY <1>0, <2>3
    <3> QED BY <1>4, <1>6, <2>3, <3>1 DEF Task
  <2>4. CASE i > N + 2
    <3>1. /\ i # 1 /\ ~(i <= N + 1) /\ i # N + 2 /\ i - N - 1 \in 2..N + 1
          /\ (i - N - 1) - 1 = i - N - 2
      BY <1>0, <2>4
    <3> QED BY <1>4, <1>6, <3>1 DEF Task
  <2>5. i = 1 \/ i \in 2..N + 1 \/ i = N + 2 \/ i > N + 2 BY <1>0
  <2> QED BY <2>1, <2>2, <2>3, <2>4, <2>5, Zenon
<1> QED BY <1>6, <1>7

\* An image is not the file that is not there.
LEMMA HasFile == ASSUME NEW image \in [Cells -> Values] PROVE image # NoFile
<1>1. Anchor \in Units /\ Data \in Blocks
  <2>1. Units # {} BY PagesAre
  <2> QED BY <2>1 DEF Anchor, Blocks
<1>2. Cells # {} BY <1>1, IsCell
<1> QED BY <1>2 DEF NoFile

-----------------------------------------------------------------------------
(* A save's beginning and end, and the program's *)

\* A new save goes over the directory that is not in use.
LEMMA NewSaveMoves == ASSUME IInv, NewSave PROVE Sound' /\ Shape'
<1>p. PICK d : d = Older(card.image) OBVIOUS
<1>s. Sound BY SoundIs
<1>1. /\ step = "rest" /\ todo = <<>> /\ save = 0 /\ saved <= MaxSaves /\ save' = saved + 1
      /\ todo' = Rewrite(Data, saved + 1) \o Rewrite(d, saved + 1)
      /\ UNCHANGED <<card, cs, exiint, tcint, masks, line, step, op, saved, clock, host, file, kept, runs>>
  BY <1>p DEF NewSave, bus, disk
<1>2. Resting BY <1>1, ShapeIs DEF Shape
<1>3. /\ card.image \in [Cells -> Values] /\ saved \in 1..MaxSaves + 1 /\ saved + 1 \in Nat
      /\ saved + 1 \in 0..MaxSaves + 1 /\ saved + 1 # 0
  BY <1>s, <1>1, BoundsAssumption DEF Sound, Ranges, Cards
<1>4. /\ Current(card.image) \in WholeCopies(card.image) /\ Newest(card.image) = saved
      /\ \A e \in WholeCopies(card.image) : Version(card.image, e) <= Newest(card.image)
  BY <1>2, <1>3, NewestOf DEF Resting
<1>5. /\ d \in Directories /\ d # Current(card.image) /\ Other(d) = Current(card.image)
      /\ Current(card.image) \in Directories
  <2>1. Current(card.image) \in {1, 2} BY <1>4 DEF WholeCopies, Directories
  <2>2. \E e \in Directories : e # Current(card.image) BY <2>1 DEF Directories
  <2>3. d \in Directories /\ d # Current(card.image) BY <1>p, <2>2 DEF Older
  <2> QED BY <2>1, <2>3 DEF Directories, Other
<1>6. /\ todo' \in Seq(Commands) /\ Len(todo') = Last
      /\ \A i \in 1..Last : todo'[i] = Task(d, saved + 1, i)
  BY <1>1, <1>3, <1>5, RewritesAre
<1>7. Last \in Nat BY PagesAre
<1>8. SavingAt(d, 0, 0)'
  <2>1. Remaining(d, 0, 0)'
    <3>1. \A i \in 1..Last - 0 : todo'[0 + i] = Task(d, saved + 1, 0 + i) BY <1>6, <1>7
    <3>2. Len(todo') = 0 + (Last - 0) BY <1>6, <1>7
    <3>3. \A i \in 1..0 : todo'[i] \in QuietCommands OBVIOUS
    <3> QED BY <1>1, <3>1, <3>2, <3>3 DEF Remaining, Task
  <2>2. Made(card.image, d, 0)'
    <3>1. ASSUME NEW u \in Units PROVE card.image[Address(Other(d), u)] = saved
      <4>1. Other(d) \in Blocks /\ Whole(card.image, Other(d)) BY <1>4, <1>5 DEF Blocks, WholeCopies
      <4>2. Version(card.image, Other(d)) = saved BY <1>4, <1>5 DEF Newest
      <4> QED BY <1>3, <4>1, <4>2, VersionIs
    <3>2. Whole(card.image, d) => Version(card.image, d) <= saved BY <1>4, <1>5 DEF WholeCopies
    <3>3. ~(0 >= 1) /\ ~(0 >= N + 2) BY PagesAre
    <3> QED BY <1>1, <3>1, <3>2, <3>3 DEF Made
  <2>3. ~Underway' /\ step' = "rest" BY <1>1 DEF Underway
  <2> QED BY <2>1, <2>2, <2>3 DEF SavingAt
<1>9. Saving'
  <2>1. 0 \in 0..Last /\ 0 \in 0..Len(todo') BY <1>6, <1>7
  <2> QED BY <1>1, <1>5, <1>8, <2>1 DEF Saving
<1>10. Wires' BY <1>s, <1>1 DEF Sound, Wires
<1>11. Protocol' BY <1>s, <1>1 DEF Sound, Protocol
<1>12. Ranges' BY <1>s, <1>1, <1>3, <1>6 DEF Sound, Ranges
<1> QED BY <1>1, <1>3, <1>9, <1>10, <1>11, <1>12 DEF Shape, Sound

\* Nothing is left of the save: its last page is in.
LEMMA SaveDoneMoves == ASSUME IInv, SaveDone PROVE Sound' /\ Shape' /\ saved' = saved + 1
<1>s. Sound BY SoundIs
<1>1. /\ step = "rest" /\ todo = <<>> /\ save # 0 /\ saved' = save /\ save' = 0
      /\ UNCHANGED <<card, cs, exiint, tcint, masks, line, step, op, todo, clock, host, file, kept, runs>>
  BY DEF SaveDone, bus, disk
<1>2. save = saved + 1 /\ card.image \in [Cells -> Values] BY <1>1, SavingIs
<1>3. PICK d \in Directories, k \in 0..Last, l \in Nat : SavingAt(d, k, l) BY <1>1, SavingIs
<1>4. 0 = l + (Last - k) /\ Last \in Nat /\ Made(card.image, d, k)
  BY <1>1, <1>3, PagesAre DEF SavingAt, Remaining, Underway
<1>5. k = Last BY <1>4
<1>6. saved \in 1..MaxSaves + 1 BY <1>s DEF Sound, Ranges
<1>7. WholeCopies(card.image) # {} /\ Newest(card.image) = save BY <1>2, <1>4, <1>5, <1>6, MadeNewest
<1>8. Resting' BY <1>1, <1>7 DEF Resting
<1>9. save \in 1..MaxSaves + 1 /\ 0 \in 0..MaxSaves + 1
  <2>1. save \in 0..MaxSaves + 1 BY <1>s DEF Sound, Ranges
  <2> QED BY <1>1, <2>1, BoundsAssumption
<1>10. Wires' BY <1>s, <1>1 DEF Sound, Wires
<1>11. Protocol' BY <1>s, <1>1 DEF Sound, Protocol
<1>12. Ranges' BY <1>s, <1>1, <1>9 DEF Sound, Ranges
<1> QED BY <1>1, <1>2, <1>8, <1>10, <1>11, <1>12 DEF Shape, Sound

LEMMA OnPower ==
  ASSUME NEW image \in [Cells -> Values], NEW r, r = PowerOn(image, FALSE)
  PROVE  /\ r \in Cards /\ r.command = "none" /\ r.position = 0 /\ r.image = image
         /\ ~r.irqPending /\ ~r.dirty
<1>1. Erased \in Values /\ "none" \in {"none"} \cup Loud \cup Quiet BY DEF Values
<1>2. FALSE \in BOOLEAN OBVIOUS
<1>3. r \in Cards BY <1>1, <1>2 DEF PowerOn, Cards
<1>4. r.command = "none" /\ r.position = 0 /\ r.image = image BY DEF PowerOn
<1>5. r.irqPending = FALSE /\ r.dirty = FALSE BY DEF PowerOn
<1> QED BY <1>3, <1>4, <1>5

\* The card is as its file was, or new.
LEMMA StartMoves == ASSUME IInv, Start PROVE Sound' /\ Shape' /\ Stored'
<1>s. Sound /\ Stored BY SoundIs DEF IInv
<1>1. /\ host = "off" /\ host' = "running" /\ file' = (IF file = NoFile THEN Formatted ELSE file)
      /\ card' = PowerOn(file', FALSE)
      /\ cs' = "none" /\ exiint' = FALSE /\ tcint' = FALSE /\ masks' = {} /\ line' = FALSE
      /\ step' = "rest" /\ op' = Command("none", 0, 0) /\ todo' = <<Command("set_interrupt", 0, 0)>>
      /\ save' = 0 /\ saved' = Newest(file') /\ clock' = "idle" /\ kept' = kept
  BY DEF Start
<1>2. kept \in Nat \ {0} BY <1>s DEF Sound, Ranges
<1>3. file' \in [Cells -> Values] /\ WholeCopies(file') # {} /\ Newest(file') >= kept
  <2>1. CASE file = NoFile
    <3>1. file' = Formatted /\ kept = Newest(Formatted) BY <1>1, <1>s, <2>1 DEF Stored
    <3>2. Newest(Formatted) >= kept BY <1>2, <3>1
    <3>3. WholeCopies(Formatted) # {} BY FormattedIs DEF Directories
    <3> QED BY <3>1, <3>2, <3>3, FormattedIs
  <2>2. CASE file # NoFile BY <1>1, <1>s, <2>2 DEF Stored
  <2> QED BY <2>1, <2>2
<1>4. saved' \in 1..MaxSaves + 1 /\ 0 \in 0..MaxSaves + 1
  <2>1. Newest(file') \in 0..MaxSaves + 1 BY <1>3, NewestOf
  <2> QED BY <1>1, <1>2, <1>3, <2>1, BoundsAssumption
<1>5. /\ card' \in Cards /\ card'.command = "none" /\ card'.position = 0 /\ card'.image = file'
      /\ ~card'.irqPending /\ ~card'.dirty
  BY <1>1, <1>3, OnPower, Zenon
<1>6. todo' \in Seq(Commands) /\ Len(todo') = 1 /\ todo'[1] \in QuietCommands
  <2> DEFINE c == Command("set_interrupt", 0, 0)
  <2>1. c \in QuietCommands BY DEF QuietCommands, Quiet
  <2>2. c \in Commands BY <2>1, QuietIs
  <2>3. todo' = <<c>> BY <1>1
  <2> HIDE DEF c, Commands
  <2> QED BY <2>1, <2>2, <2>3
<1>7. Wires' BY <1>1, <1>5 DEF Wires, Asserted
<1>8. Protocol' BY <1>1, <1>5 DEF Protocol
<1>9. Ranges' BY <1>1, <1>2, <1>4, <1>5, <1>6 DEF Ranges
<1>10. Resting'
  <2>1. \A i \in 1..Len(todo') : todo'[i] \in QuietCommands BY <1>6
  <2>2. step' = "rest" /\ saved' = Newest(card'.image) /\ WholeCopies(card'.image) # {} BY <1>1, <1>3, <1>5
  <2> QED BY <2>1, <2>2 DEF Resting
<1>11. file' # NoFile
  <2>1. file # NoFile \/ file' = Formatted BY <1>1
  <2>2. Formatted # NoFile BY FormattedIs, HasFile
  <2> QED BY <1>1, <2>1, <2>2
<1>12. Stored' BY <1>1, <1>2, <1>3, <1>5, <1>11 DEF Stored
<1> QED BY <1>1, <1>7, <1>8, <1>9, <1>10, <1>12 DEF Shape, Sound

\* The program runs on: an image that changes is marked as changed.
LEMMA StoredOn ==
  ASSUME IInv, UNCHANGED <<host, file, kept>>, saved' \in {saved, saved + 1},
         card'.dirty = TRUE \/ (card'.image = card.image /\ card'.dirty = card.dirty)
  PROVE  Stored'
<1>1. Stored /\ saved \in 1..MaxSaves + 1 /\ kept \in Nat \ {0} BY DEF IInv, Ranges
<1>2. host \in {"running", "leaving"} /\ ~card'.dirty => file = card'.image
  <2>1. CASE card'.dirty = TRUE BY <2>1
  <2>2. CASE card'.image = card.image /\ card'.dirty = card.dirty BY <1>1, <2>2 DEF Stored
  <2> QED BY <2>1, <2>2
<1>3. host # "off" => saved' >= kept BY <1>1, BoundsAssumption DEF Stored
<1> HIDE DEF NoFile
<1> QED BY <1>1, <1>2, <1>3 DEF Stored

\* The window is closed, the card is written back or not, the process dies, the launcher resets it.
HostStep == Quit \/ NothingToFlush \/ FlushFails \/ FlushOpens \/ FlushWrites \/ Kill \/ ResetCard

LEMMA HostMoves == ASSUME IInv, HostStep PROVE Sound' /\ Shape' /\ Stored'
<1>s. Sound /\ Stored BY SoundIs DEF IInv
<1>1. UNCHANGED <<cs, exiint, tcint, masks, line, step, op, todo, save, saved, clock>>
      /\ UNCHANGED lib
  BY DEF HostStep, Quit, NothingToFlush, FlushFails, FlushOpens, FlushWrites, Kill, ResetCard, bus, lib
<1>2. card' = card \/ card' = [card EXCEPT !.dirty = FALSE]
  BY DEF HostStep, Quit, NothingToFlush, FlushFails, FlushOpens, FlushWrites, Kill, ResetCard
<1>3. card \in Cards BY <1>s DEF Sound, Ranges
<1>4. card' \in Cards
  <2>1. FALSE \in BOOLEAN OBVIOUS
  <2> QED BY <1>2, <1>3, <2>1, CardWith, Zenon
<1>5. /\ card'.command = card.command /\ card'.position = card.position /\ card'.address = card.address
      /\ card'.program = card.program /\ card'.image = card.image
  BY <1>2, <1>3 DEF Cards
<1>6. card'.irqPending = card.irqPending BY <1>2, <1>3 DEF Cards
<1>7. host' \in {"off", "running", "leaving", "writing"}
  BY <1>s DEF HostStep, Quit, NothingToFlush, FlushFails, FlushOpens, FlushWrites, Kill, ResetCard, Sound, Ranges
<1>8. /\ Newest(Formatted) = 1 /\ kept \in Nat \ {0} /\ saved \in 1..MaxSaves + 1 /\ saved \in Nat \ {0}
  BY <1>s, FormattedIs, BoundsAssumption DEF Sound, Ranges
<1>9. kept' \in Nat \ {0} BY <1>8
    DEF HostStep, Quit, NothingToFlush, FlushFails, FlushOpens, FlushWrites, Kill, ResetCard, disk
<1>10. Shape' BY <1>1, <1>5, SameShape
<1>11. Wires' BY <1>s, <1>1, <1>5, <1>6 DEF Sound, Wires
<1>12. Protocol' BY <1>s, <1>1, <1>5 DEF Sound, Protocol
<1>13. Ranges' BY <1>s, <1>1, <1>4, <1>7, <1>9 DEF Sound, Ranges
<1>14. Stored'
  <2>1. /\ card.image \in [Cells -> Values] /\ WholeCopies(card.image) # {}
        /\ Newest(card.image) >= saved /\ card.image # NoFile
    BY ImageGood, HasFile
  <2> HIDE DEF NoFile
  <2>2. CASE Quit BY <1>s, <2>2 DEF Quit, Stored, disk, lib
  <2>3. CASE NothingToFlush BY <1>s, <2>1, <2>3 DEF NothingToFlush, Stored, lib
  <2>4. CASE FlushFails BY <1>s, <2>4 DEF FlushFails, Stored, disk, lib
  <2>5. CASE FlushOpens BY <1>s, <2>5 DEF FlushOpens, Stored, lib
  <2>6. CASE FlushWrites BY <1>5, <2>1, <2>6 DEF FlushWrites, Stored, lib
  <2>7. CASE Kill BY <1>s, <1>8, <2>7 DEF Kill, Stored, lib
  <2>8. CASE ResetCard BY <1>s, <2>8 DEF ResetCard, Stored, lib
  <2> QED BY <2>2, <2>3, <2>4, <2>5, <2>6, <2>7, <2>8 DEF HostStep
<1> QED BY <1>10, <1>11, <1>12, <1>13, <1>14 DEF Sound

-----------------------------------------------------------------------------
(* The invariant *)

\* CardInv is the wires and what the ranges say of the images.
LEMMA WholeInv == ASSUME Sound', Shape', Stored' PROVE IInv'
<1>1. card'.image \in [Cells -> Values] BY DEF Sound, Ranges, Cards
<1>2. file' = NoFile \/ file' \in [Cells -> Values] BY DEF Stored
<1>3. exiint' /\ host' = "running" => step' = "wait" BY DEF Sound, Protocol
<1>4. CardInv' BY <1>1, <1>2, <1>3 DEF CardInv, Sound, Wires, Values
<1> QED BY <1>4 DEF IInv, Sound, Shape

LEMMA LibraryMoves ==
  ASSUME IInv, Begin \/ SendHeader \/ SendPage \/ TransferHandler \/ Release \/ DoneHandler
               \/ ClockSelect \/ ClockRead \/ ClockRelease
  PROVE  Sound' /\ Shape' /\ Stored'
<1>1. UNCHANGED <<host, file, kept>> /\ saved' = saved
  BY DEF Begin, SendHeader, SendPage, TransferHandler, Release, DoneHandler,
         ClockSelect, ClockRead, ClockRelease, lib, disk
<1>2. CASE Begin
  <2>1. Stored' BY <1>1, <1>2, BeginSound, StoredOn
  <2> QED BY <1>2, <2>1, BeginSound, BeginShape
<1>3. CASE SendHeader
  <2>1. Addressed(card') BY <1>3, SendHeaderSound
  <2>2. card'.dirty = TRUE \/ (card'.image = card.image /\ card'.dirty = card.dirty)
    BY <2>1 DEF Addressed
  <2>3. Stored' BY <1>1, <2>2, StoredOn
  <2> QED BY <1>3, <2>3, SendHeaderSound, SendHeaderShape
<1>4. CASE SendPage \/ TransferHandler
  <2>1. Stored' BY <1>1, <1>4, SendPageSound, TransferHandlerSound, StoredOn
  <2> QED BY <1>4, <2>1, SendPageSound, TransferHandlerSound, PageShape
<1>5. CASE Release
  <2>1. LetGo(card, card') BY <1>5, ReleaseSound
  <2>2. card.command = "page_program" => card.position = 133
    BY <1>5, SoundIs DEF Release, Sound, Protocol
  <2>3. card'.dirty = TRUE \/ (card'.image = card.image /\ card'.dirty = card.dirty)
    BY <2>1, <2>2 DEF LetGo
  <2>4. Stored' BY <1>1, <2>3, StoredOn
  <2> QED BY <1>5, <2>4, ReleaseSound, ReleaseShape
<1>6. CASE DoneHandler
  <2>1. Stored' BY <1>1, <1>6, DoneHandlerSound, StoredOn
  <2> QED BY <1>6, <2>1, DoneHandlerSound, DoneHandlerShape
<1>7. CASE ClockSelect \/ ClockRead \/ ClockRelease
  <2>1. UNCHANGED lib BY <1>7 DEF ClockSelect, ClockRead, ClockRelease
  <2>2. Stored' BY <1>1, <1>7, ClockSound, StoredOn
  <2> QED BY <1>7, <2>1, <2>2, ClockSound, SameShape
<1> QED BY <1>2, <1>3, <1>4, <1>5, <1>6, <1>7

LEMMA InitIInv == ASSUME Init PROVE IInv
<1>1. /\ card = PowerOn(Formatted, FALSE) /\ cs = "none" /\ exiint = FALSE /\ tcint = FALSE
      /\ masks = {} /\ line = FALSE /\ step = "rest" /\ op = Command("none", 0, 0) /\ todo = <<>>
      /\ save = 0 /\ saved = Newest(Formatted) /\ kept = Newest(Formatted)
      /\ clock = "idle" /\ host = "off" /\ file = NoFile
  BY DEF Init
<1>2. /\ Formatted \in [Cells -> Values] /\ WholeCopies(Formatted) # {} /\ Newest(Formatted) = 1
  BY FormattedIs DEF Directories
<1>3. /\ card \in Cards /\ card.command = "none" /\ card.position = 0 /\ card.image = Formatted
      /\ ~card.irqPending /\ ~card.dirty
  BY <1>1, <1>2, OnPower, Zenon
<1>4. saved \in 1..MaxSaves + 1 /\ 0 \in 0..MaxSaves + 1 /\ kept \in Nat \ {0}
  BY <1>1, <1>2, BoundsAssumption
<1>5. CardInv BY <1>1, <1>2, <1>3 DEF CardInv, Asserted, Values
<1>6. Protocol BY <1>1, <1>3 DEF Protocol
<1>n. todo \in Seq(Commands) /\ \A i \in 1..Len(todo) : todo[i] \in QuietCommands BY <1>1
<1>7. Ranges BY <1>1, <1>3, <1>4, <1>n DEF Ranges
<1>8. Stored BY <1>1 DEF Stored
<1>9. Resting BY <1>1, <1>2, <1>3, <1>n DEF Resting
<1> QED BY <1>1, <1>5, <1>6, <1>7, <1>8, <1>9 DEF IInv

LEMMA StutterIInv == ASSUME IInv, UNCHANGED vars PROVE IInv'
<1>1. UNCHANGED <<card, cs, exiint, tcint, masks, line, clock, host, file, kept, runs>> /\ UNCHANGED lib
      /\ UNCHANGED <<step, op, todo, save, saved>>
  BY DEF vars, bus, lib, disk
<1>2. Shape' BY <1>1, SameShape
<1>3. Sound' BY <1>1, SoundIs DEF Sound, Wires, Protocol, Ranges
<1>4. Stored' BY <1>1 DEF IInv, Stored
<1> QED BY <1>2, <1>3, <1>4, WholeInv

LEMMA NextIInv == ASSUME IInv, Next PROVE IInv'
<1>1. CASE NewSave
  <2>1. UNCHANGED <<host, file, kept, card, saved>> BY <1>1 DEF NewSave, disk
  <2>2. Stored' BY <2>1, StoredOn
  <2> QED BY <1>1, <2>2, NewSaveMoves, WholeInv
<1>2. CASE SaveDone
  <2>1. UNCHANGED <<host, file, kept, card>> BY <1>2 DEF SaveDone, disk
  <2>2. Stored' BY <1>2, <2>1, SaveDoneMoves, StoredOn
  <2> QED BY <1>2, <2>2, SaveDoneMoves, WholeInv
<1>3. CASE Begin \/ SendHeader \/ SendPage \/ TransferHandler \/ Release \/ DoneHandler
           \/ ClockSelect \/ ClockRead \/ ClockRelease
  BY <1>3, LibraryMoves, WholeInv
<1>4. CASE Start BY <1>4, StartMoves, WholeInv
<1>5. CASE HostStep BY <1>5, HostMoves, WholeInv
<1> QED BY <1>1, <1>2, <1>3, <1>4, <1>5 DEF Next, Library, HostStep

\* The invariant is inductive, and so holds at every state.
THEOREM Inductive == Spec => []IInv
<1>1. Init => IInv BY InitIInv
<1>2. IInv /\ [Next]_vars => IInv' BY NextIInv, StutterIInv
<1> QED BY <1>1, <1>2, PTL DEF Spec

\* CardInv: the types, the interrupt line is what the status register says (mmio.c:150-163),
\* a command is under way only while the card is selected, the clock and the card are never
\* selected together, and the card's "done" reaches the bus only when a command that erases
\* or programs is waited for.
THEOREM CardTheorem == Spec => []CardInv
<1>1. IInv => CardInv BY DEF IInv
<1> QED BY <1>1, Inductive, PTL

-----------------------------------------------------------------------------
(* What the player and the library rely on *)

\* The launcher's choice of a directory is the library's (exi_card.c:455-510).
LEMMA SummaryIs ==
  ASSUME NEW f \in [Cells -> Values], WholeCopies(f) # {}
  PROVE  /\ Summary(f).version = Newest(f)
         /\ Summary(f).damaged <=> WholeCopies(f) # Directories
<1> DEFINE copy == IF WholeCopies(f) = Directories
                   THEN IF Version(f, 1) >= Version(f, 2) THEN 1 ELSE 2
                   ELSE CHOOSE d \in WholeCopies(f) : TRUE
<1>1. Summary(f).version = Version(f, copy) BY DEF Summary
<1>2. Summary(f).damaged <=> WholeCopies(f) # Directories BY Zenon DEF Summary
<1>3. copy \in Directories /\ Whole(f, copy)
      /\ (Whole(f, Other(copy)) => Version(f, Other(copy)) <= Version(f, copy))
  <2>1. CASE WholeCopies(f) = Directories
    <3>1. 1 \in Blocks /\ 2 \in Blocks BY DEF Blocks, Directories
    <3>2. Version(f, 1) \in Values /\ Version(f, 2) \in Values BY <3>1, VersionIs
    <3>3. Version(f, 1) \in Int /\ Version(f, 2) \in Int BY <3>2 DEF Values, Erased
    <3>4. Whole(f, 1) /\ Whole(f, 2) BY <2>1 DEF WholeCopies, Directories
    <3>5. CASE Version(f, 1) >= Version(f, 2)
      <4>1. copy = 1 BY <2>1, <3>5
      <4> HIDE DEF copy
      <4> QED BY <3>3, <3>4, <3>5, <4>1 DEF Directories, Other
    <3>6. CASE ~(Version(f, 1) >= Version(f, 2))
      <4>1. copy = 2 BY <2>1, <3>6
      <4> HIDE DEF copy
      <4> QED BY <3>3, <3>4, <3>6, <4>1 DEF Directories, Other
    <3> QED BY <3>5, <3>6
  <2>2. CASE WholeCopies(f) # Directories
    <3>1. copy \in WholeCopies(f) BY <2>2
    <3> HIDE DEF copy
    <3>2. copy \in Directories /\ Whole(f, copy) BY <3>1 DEF WholeCopies
    <3>3. ~Whole(f, Other(copy)) BY <2>2, <3>2 DEF WholeCopies, Directories, Other
    <3> QED BY <3>2, <3>3
  <2> QED BY <2>1, <2>2
<1> HIDE DEF copy
<1>4. Newest(f) = Version(f, copy) BY <1>3, NewestIs
<1> QED BY <1>1, <1>2, <1>4

LEMMA IntactIs == ASSUME IInv PROVE SaveIntact
<1>s. Stored /\ kept \in Nat \ {0} BY DEF IInv, Ranges
<1>1. /\ card.image \in [Cells -> Values] /\ saved \in Nat
      /\ WholeCopies(card.image) # {} /\ Newest(card.image) \in {saved, save}
      /\ Newest(card.image) >= saved /\ Newest(card.image) \in Nat
      /\ Newest(card.image) = save => \A u \in Units : card.image[Address(Data, u)] = save
  BY ImageGood, BoundsAssumption
<1>2. file # NoFile => WholeCopies(file) # {} /\ Newest(file) >= kept BY <1>s DEF Stored
<1>3. host = "running" => Newest(card.image) >= kept BY <1>s, <1>1 DEF Stored
<1>4. ASSUME file # NoFile
      PROVE  /\ Summary(file).version = Newest(file)
             /\ ~Summary(file).damaged <=> \A d \in Directories : Whole(file, d)
  <2>1. file \in [Cells -> Values] /\ WholeCopies(file) # {} BY <1>s, <1>4 DEF Stored
  <2>2. /\ Summary(file).version = Newest(file)
        /\ Summary(file).damaged <=> WholeCopies(file) # Directories
    BY <2>1, SummaryIs
  <2>3. WholeCopies(file) = Directories <=> \A d \in Directories : Whole(file, d) BY DEF WholeCopies
  <2> QED BY <2>2, <2>3, Zenon
<1> HIDE DEF NoFile
<1> QED BY <1>1, <1>2, <1>3, <1>4, Zenon DEF SaveIntact

\* SaveIntact: at every step of every save, across kills, failed writes, resets and restarts,
\* the card and its file hold a whole directory, of the last save done or of the one being
\* made, and the new one only with its data (exi_card.c:220-318, 455-510).
THEOREM SaveTheorem == Spec => []SaveIntact
<1>1. IInv => SaveIntact BY IntactIs
<1> QED BY <1>1, Inductive, PTL

\* A command that is waited for is on the card.
LEMMA LandedIs == ASSUME IInv, step = "wait" PROVE Landed(card.image, op)
<1>1. op.kind \in Loud BY SoundIs DEF Sound, Protocol
<1>2. step # "rest" OBVIOUS
<1>3. PICK d \in Directories, k \in 1..Last, l \in 0..Len(todo) : SavingAt(d, k, l) /\ op = Task(d, save, k)
  BY <1>1, <1>2, OpIs
<1>4. Made(card.image, d, k) BY <1>3 DEF SavingAt, Underway
<1>5. save \in Nat BY BoundsAssumption DEF IInv, Ranges
<1>6. /\ Target(d, k) \in Blocks
      /\ op.kind = "sector_erase" =>
           k \in {1, N + 2} /\ op = Command("sector_erase", Address(Target(d, k), 0), save)
      /\ op.kind = "page_program" =>
           /\ k \notin {1, N + 2} /\ Paged(k) \in 1..N
           /\ op = Command("page_program", Address(Target(d, k), Pages[Paged(k)]), save)
  BY <1>3, <1>5, TaskIs
<1>7. N \in Nat \ {0} /\ Last = 2 * N + 2 BY PagesAre DEF Last
<1> DEFINE b == Target(d, k)
<1>8. CASE op.kind = "sector_erase"
  <2>1. op.at = Address(b, 0) BY <1>6, <1>8 DEF Command
  <2>2. \A i \in 1..N : card.image[Address(b, Pages[i])] = Erased
    <3>1. CASE k = 1 BY <1>4, <1>7, <3>1 DEF Made, Target
    <3>2. CASE k = N + 2 BY <1>4, <1>7, <3>2 DEF Made, Target
    <3> QED BY <1>6, <1>8, <3>1, <3>2
  <2>b. b \in Blocks BY <1>6
  <2> HIDE DEF b
  <2>3. Block(op.at) = b
    <3>1. 0 \in 0..63 OBVIOUS
    <3> QED BY <2>1, <2>b, <3>1, BlockOf
  <2>4. ASSUME NEW a \in Cells, Block(a) = b PROVE card.image[a] = Erased
    <3>1. PICK e \in Blocks, u \in Units : a = Address(e, u) BY CellIs
    <3>2. u \in 0..63 BY PagesAre
    <3>5. Block(Address(e, u)) = e BY <3>2, BlockOf, Zenon
    <3>3. e = b BY <2>4, <3>1, <3>5
    <3>4. PICK i \in 1..N : u = Pages[i] BY PagesAre
    <3> QED BY <2>2, <3>1, <3>3, <3>4
  <2> QED BY <1>8, <2>3, <2>4 DEF Landed
<1>9. CASE op.kind = "page_program"
  <2>1. op.at = Address(b, Pages[Paged(k)]) /\ op.version = save BY <1>6, <1>9 DEF Command
  <2>2. card.image[Address(b, Pages[Paged(k)])] = save
    <3>1. CASE k <= N + 1
      <4>1. b = Data /\ Paged(k) \in 1..N /\ Paged(k) < k BY <1>6, <1>7, <1>9, <3>1 DEF Target, Paged
      <4> QED BY <1>4, <1>7, <4>1 DEF Made
    <3>2. CASE ~(k <= N + 1)
      <4>1. b = d /\ Paged(k) \in 1..N /\ Paged(k) < k - N - 1 /\ k >= N + 2
        BY <1>6, <1>7, <1>9, <3>2 DEF Target, Paged
      <4> QED BY <1>4, <4>1 DEF Made
    <3> QED BY <3>1, <3>2
  <2> QED BY <1>9, <2>1, <2>2 DEF Landed
<1> QED BY <1>1, <1>8, <1>9 DEF Loud

\* DoneMeansLanded: "done" comes once for a command, while it is waited for, and by then
\* the image shows it (exi_card.c:291-318, mmio.c:1053-1085).
THEOREM DoneTheorem == Spec => DoneMeansLanded
<1>1. IInv => (DoneHandler => step = "wait" /\ Landed(card.image, op)) BY DoneHandlerSound, LandedIs
<1>2. IInv /\ [Next]_vars => [DoneHandler => step = "wait" /\ Landed(card.image, op)]_vars BY <1>1
<1> QED BY <1>2, Inductive, PTL DEF Spec, DoneMeansLanded
=============================================================================
