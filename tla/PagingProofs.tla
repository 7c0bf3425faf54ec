---------------------------- MODULE PagingProofs ----------------------------
(***************************************************************************)
(* Proofs about the page tables of a task, for every page size, number of  *)
(* entries, layout of the address space, program and place in the heap.    *)
(***************************************************************************)
EXTENDS Paging, TLAPS

-----------------------------------------------------------------------------
(* The inductive invariant *)

StackLow == StackStart - StackSize

(* The physical address behind the program's last page. *)
ProgramEnd == paging_align_address((ptr + size) % AddrMod)

(* How far the program and the stack are mapped. *)
ProgramLimit ==
  CASE pc = "process_map_binary" -> ProgramStart
    [] pc = "binary_range" -> virt
    [] OTHER -> ProgramStart + (ProgramEnd - ptr)
StackLimit ==
  CASE pc \in {"process_map_binary", "binary_range"} -> StackLow
    [] pc = "stack_range" -> virt
    [] OTHER -> StackStart

(* The entry that the mapping calls made so far left for a page. *)
Expected(p) ==
  IF ProgramStart <= p /\ p < ProgramLimit
  THEN [frame |-> ptr + (p - ProgramStart), writable |-> TRUE]
  ELSE IF StackLow <= p /\ p < StackLimit
  THEN [frame |-> stack + (p - StackLow), writable |-> TRUE]
  ELSE [frame |-> p, writable |-> pc = "copying" /\ p = tmp]

(* The entries are those, page by page. *)
TablesAsExpected == \A p \in PageAddresses : paging_get(chunk, p) = Expected(p)

(* The two addresses of paging_map_range advance together and reach the    *)
(* end of the region when the count does.                                  *)
RangeAdvances ==
  /\ pc = "binary_range" => /\ phys >= ptr /\ phys - ptr = virt - ProgramStart
                            /\ phys + (PageSize * count) = ProgramEnd
  /\ pc = "stack_range"  => /\ phys >= stack /\ phys - stack = virt - StackLow
                            /\ phys + (PageSize * count) = stack + StackSize

(* copy_string_from_task holds the entry it will write back. *)
EntrySaved ==
  pc = "copying" => tmp \in HeapPtrs /\ old_entry = [frame |-> tmp, writable |-> FALSE]

PagingInv == TypeOK /\ RangeAdvances /\ TablesAsExpected /\ EntrySaved

-----------------------------------------------------------------------------
(* Division *)

(* Quotient and remainder. *)
LEMMA DivMod ==
  ASSUME NEW x \in Nat, NEW b \in Nat \ {0}
  PROVE  x \div b \in Nat /\ x % b \in 0 .. (b - 1) /\ x = (b * (x \div b)) + (x % b)
OBVIOUS

(* They are the only ones. *)
LEMMA DivModUnique ==
  ASSUME NEW b \in Nat \ {0}, NEW q \in Nat, NEW r \in 0 .. (b - 1)
  PROVE  /\ (b * q) + r \in Nat
         /\ ((b * q) + r) \div b = q /\ ((b * q) + r) % b = r
OBVIOUS

(* Rounding down gives a multiple. *)
LEMMA RoundDown ==
  ASSUME NEW b \in Nat \ {0}, NEW y \in Nat
  PROVE  y - (y % b) \in Nat /\ (y - (y % b)) % b = 0
<1>1. y \div b \in Nat /\ y % b \in 0 .. (b - 1) /\ y = (b * (y \div b)) + (y % b)
  BY DivMod
<1>2. b * (y \div b) \in Nat /\ y - (y % b) = (b * (y \div b)) + 0 /\ 0 \in 0 .. (b - 1)
  BY <1>1
<1>3. ((b * (y \div b)) + 0) % b = 0
  BY <1>1, <1>2, DivModUnique
<1> QED BY <1>2, <1>3

(* Multiples of the page size, and what is added to them. *)
LEMMA Multiples ==
  ASSUME NEW b \in Nat \ {0}, NEW x \in Nat, x % b = 0, NEW y \in Nat
  PROVE  /\ (x + y) % b = y % b
         /\ y <= x /\ y % b = 0 => (x - y) % b = 0
         /\ y < x => (y - (y % b)) + b <= x
         /\ x <= y => x <= y - (y % b)
<1> DEFINE q == x \div b
           u == y \div b
           r == y % b
<1>1. q \in Nat /\ x = b * q
  BY DivMod
<1>2. u \in Nat /\ r \in 0 .. (b - 1) /\ y = (b * u) + r
  BY DivMod
<1> HIDE DEF q, u, r
<1>3. b * q \in Nat /\ b * u \in Nat
  BY <1>1, <1>2
<1>4. \A c, d \in Nat : b * (c + d) = (b * c) + (b * d)
  OBVIOUS
<1>5. (x + y) % b = r
  <2>1. x + y = (b * (q + u)) + r /\ q + u \in Nat
    BY <1>1, <1>2, <1>3, <1>4
  <2>2. ((b * (q + u)) + r) % b = r
    BY <1>2, <2>1, DivModUnique
  <2> QED BY <2>1, <2>2
<1>6. y - r = b * u
  BY <1>2, <1>3
<1>7. \A c, d \in Nat : c < d => (b * c) + b <= b * d
  OBVIOUS
<1>8. ASSUME y < x PROVE (y - r) + b <= x
  <2>1. ~(q <= u)
    <3> SUFFICES ASSUME q <= u PROVE FALSE
      OBVIOUS
    <3>1. b * q <= b * u
      BY <1>1, <1>2
    <3> QED BY <1>1, <1>2, <1>3, <1>8, <3>1
  <2> QED BY <1>1, <1>2, <1>3, <1>6, <1>7, <2>1
<1>9. ASSUME x <= y PROVE x <= y - r
  <2>1. ~(u < q)
    BY <1>1, <1>2, <1>3, <1>7, <1>9
  <2>2. \A c, d \in Nat : c <= d => b * c <= b * d
    OBVIOUS
  <2> QED BY <1>1, <1>2, <1>6, <2>1, <2>2
<1>10. ASSUME y <= x, r = 0 PROVE (x - y) % b = 0
  <2>1. u <= q
    <3>1. ~(q < u)
      BY <1>1, <1>2, <1>3, <1>7, <1>10
    <3> QED BY <1>1, <1>2, <3>1
  <2>2. q - u \in Nat /\ b * ((q - u) + u) = (b * (q - u)) + (b * u)
    BY <1>1, <1>2, <1>4, <2>1
  <2>3. (q - u) + u = q /\ b * (q - u) \in Nat
    BY <1>1, <1>2, <2>2
  <2>4. x - y = (b * (q - u)) + 0
    BY <1>1, <1>2, <1>3, <1>10, <2>2, <2>3
  <2> QED BY <2>2, <2>4, DivModUnique
<1> QED BY <1>5, <1>8, <1>9, <1>10 DEF r

-----------------------------------------------------------------------------
(* Pages and indices *)

(* The page that an address lies on. *)
PageOf(addr) == addr - (addr % PageSize)

(* The sizes of a table and of the address space that a directory covers. *)
LEMMA Sizes4GB ==
  /\ PageSize \in Nat \ {0} /\ Entries \in Nat \ {0}
  /\ TableBytes \in Nat \ {0} /\ AddrMod \in Nat \ {0}
  /\ TableBytes = PageSize * Entries /\ AddrMod = TableBytes * Entries
  /\ AddrMod % PageSize = 0
<1>1. PageSize \in Nat \ {0} /\ Entries \in Nat \ {0}
  BY PagingAssumption
<1>2. \A a, b \in Nat \ {0} : a * b \in Nat \ {0} /\ a * b = b * a
  OBVIOUS
<1>3. TableBytes \in Nat \ {0} /\ TableBytes = PageSize * Entries
  BY <1>1, <1>2 DEF TableBytes
<1>4. AddrMod \in Nat \ {0} /\ AddrMod = TableBytes * Entries
  BY <1>1, <1>2, <1>3 DEF AddrMod
<1>5. AddrMod = (PageSize * (Entries * Entries)) + 0 /\ Entries * Entries \in Nat
  <2>1. \A a, b, c \in Nat : (a * b) * c = a * (b * c)
    OBVIOUS
  <2> QED BY <1>1, <1>2, <1>3, <1>4, <2>1
<1>6. ((PageSize * (Entries * Entries)) + 0) % PageSize = 0
  <2>1. 0 \in 0 .. (PageSize - 1)
    BY <1>1
  <2> QED BY <1>1, <1>5, <2>1, DivModUnique
<1> QED BY <1>1, <1>3, <1>4, <1>5, <1>6

(* The address of a page is a natural number, and its page is itself. *)
LEMMA PageFacts ==
  ASSUME NEW a \in PageAddresses
  PROVE  /\ a \in Nat /\ a \in Addresses /\ a % PageSize = 0 /\ PageOf(a) = a
         /\ a + PageSize <= AddrMod
<1>1. a \in Nat /\ a \in Addresses /\ a % PageSize = 0 /\ a < AddrMod
  BY Sizes4GB DEF PageAddresses, Addresses, paging_is_aligned
<1>2. (a - (a % PageSize)) + PageSize <= AddrMod
  BY <1>1, Sizes4GB, Multiples
<1> QED BY <1>1, <1>2, Sizes4GB DEF PageOf

(* Every address lies on a page, at an offset. *)
LEMMA PageOfFacts ==
  ASSUME NEW addr \in Addresses
  PROVE  /\ addr \in Nat /\ PageOf(addr) \in PageAddresses
         /\ addr % PageSize \in 0 .. (PageSize - 1)
         /\ PageOf(addr) + (addr % PageSize) = addr
         /\ \A x \in PageAddresses : (x <= addr <=> x <= PageOf(addr)) /\ (addr < x <=> PageOf(addr) < x)
<1>1. addr \in Nat /\ addr < AddrMod
  BY Sizes4GB DEF Addresses
<1>2. addr % PageSize \in 0 .. (PageSize - 1)
  BY <1>1, DivMod, Sizes4GB
<1>3. PageSize \in Nat \ {0}
  BY Sizes4GB
<1>4. PageOf(addr) \in Nat /\ PageOf(addr) % PageSize = 0
  BY <1>1, <1>3, RoundDown DEF PageOf
<1>5. PageOf(addr) \in PageAddresses /\ PageOf(addr) + (addr % PageSize) = addr /\ PageOf(addr) <= addr
  BY <1>1, <1>2, <1>4, Sizes4GB DEF PageOf, PageAddresses, Addresses, paging_is_aligned
<1>6. ASSUME NEW x \in PageAddresses, x <= addr PROVE x <= PageOf(addr)
  BY <1>1, <1>6, PageFacts, Multiples, Sizes4GB DEF PageOf
<1>7. ASSUME NEW x \in PageAddresses
      PROVE  (x <= addr <=> x <= PageOf(addr)) /\ (addr < x <=> PageOf(addr) < x)
  BY <1>1, <1>4, <1>5, <1>6, PageFacts
<1> QED BY <1>1, <1>2, <1>5, <1>7

(* The two indices of paging_get_indices name one entry for each page. *)
LEMMA IndexFacts ==
  ASSUME NEW addr \in Addresses
  PROVE  /\ directory_index(addr) \in Indices /\ table_index(addr) \in Indices
         /\ (directory_index(addr) * TableBytes) + (table_index(addr) * PageSize) = PageOf(addr)
         /\ directory_index(PageOf(addr)) = directory_index(addr)
         /\ table_index(PageOf(addr)) = table_index(addr)
<1> DEFINE d == addr \div TableBytes
           m == addr % TableBytes
           t == m \div PageSize
           r == m % PageSize
<1>0. addr \in Nat /\ addr < AddrMod
  BY Sizes4GB DEF Addresses
<1>1. d \in Nat /\ m \in Nat /\ m < TableBytes /\ addr = (TableBytes * d) + m
  <2>1. TableBytes \in Nat \ {0}
    BY Sizes4GB
  <2>2. d \in Nat /\ m \in 0 .. (TableBytes - 1) /\ addr = (TableBytes * d) + m
    BY <1>0, <2>1, DivMod
  <2> QED BY <2>1, <2>2
<1> HIDE DEF d, m
<1>2. t \in Nat /\ r \in 0 .. (PageSize - 1) /\ m = (PageSize * t) + r
  BY <1>1, DivMod, Sizes4GB
<1> HIDE DEF t, r
<1>3. \A b, x, y \in Nat : b * x < b * y => x < y
  OBVIOUS
<1>4. d < Entries
  <2>1. TableBytes * d \in Nat
    BY <1>1, Sizes4GB
  <2>2. TableBytes * d < TableBytes * Entries
    BY <1>0, <1>1, <2>1, Sizes4GB
  <2> QED BY <1>1, <1>3, <2>2, Sizes4GB
<1>5. t < Entries
  <2>1. PageSize * t \in Nat
    BY <1>2, Sizes4GB
  <2>2. PageSize * t < PageSize * Entries
    BY <1>1, <1>2, <2>1, Sizes4GB
  <2> QED BY <1>2, <1>3, <2>2, Sizes4GB
<1>6. TableBytes * d = PageSize * (Entries * d) /\ Entries * d \in Nat
  <2>1. \A a, b, c \in Nat : (a * b) * c = a * (b * c) /\ b * c \in Nat
    OBVIOUS
  <2> QED BY <1>1, <2>1, Sizes4GB
<1>7. addr = (PageSize * ((Entries * d) + t)) + r
  <2>1. \A b, c, e \in Nat : b * (c + e) = (b * c) + (b * e) /\ b * c \in Nat
    OBVIOUS
  <2>2. PageSize * ((Entries * d) + t) = (PageSize * (Entries * d)) + (PageSize * t)
    BY <1>2, <1>6, <2>1, Sizes4GB
  <2> QED BY <1>1, <1>2, <1>6, <2>1, <2>2, Sizes4GB
<1>8. addr % PageSize = r
  <2> DEFINE q == (Entries * d) + t
  <2>1. q \in Nat /\ PageSize \in Nat \ {0}
    BY <1>2, <1>6, Sizes4GB
  <2> HIDE DEF q
  <2>2. ((PageSize * q) + r) % PageSize = r
    BY <1>2, <2>1, DivModUnique
  <2> QED BY <1>7, <2>2 DEF q
<1>9. PageOf(addr) = (d * TableBytes) + (t * PageSize)
  <2>1. \A a, b \in Nat : a * b = b * a /\ a * b \in Nat
    OBVIOUS
  <2>2. TableBytes * d = d * TableBytes /\ PageSize * t = t * PageSize
        /\ TableBytes * d \in Nat /\ PageSize * t \in Nat
    BY <1>1, <1>2, <2>1, Sizes4GB
  <2> QED BY <1>0, <1>1, <1>2, <1>8, <2>2, Sizes4GB DEF PageOf
<1>10. directory_index(addr) = d /\ table_index(addr) = t
  BY DEF directory_index, table_index, d, m, t
<1>11. directory_index(PageOf(addr)) = d /\ table_index(PageOf(addr)) = t
  <2> DEFINE s == PageSize * t
  <2>1. s \in 0 .. (TableBytes - 1)
    BY <1>1, <1>2, Sizes4GB
  <2>2. PageOf(addr) = (TableBytes * d) + s
    <3>1. \A a, b \in Nat : a * b = b * a
      OBVIOUS
    <3>2. TableBytes * d = d * TableBytes /\ PageSize * t = t * PageSize
      BY <1>1, <1>2, <3>1, Sizes4GB
    <3> QED BY <1>9, <3>2
  <2>3. s \div PageSize = t
    <3>1. PageSize \in Nat \ {0} /\ 0 \in 0 .. (PageSize - 1)
      BY Sizes4GB
    <3>2. ((PageSize * t) + 0) \div PageSize = t
      BY <1>2, <3>1, DivModUnique
    <3>3. (PageSize * t) + 0 = s
      BY <2>1, Sizes4GB
    <3> QED BY <3>2, <3>3
  <2> HIDE DEF s
  <2>4. TableBytes \in Nat \ {0}
    BY Sizes4GB
  <2>5. ((TableBytes * d) + s) \div TableBytes = d /\ ((TableBytes * d) + s) % TableBytes = s
    BY <1>1, <2>1, <2>4, DivModUnique
  <2> QED BY <2>2, <2>3, <2>5 DEF directory_index, table_index
<1> QED BY <1>1, <1>2, <1>4, <1>5, <1>9, <1>10, <1>11, Sizes4GB DEF Indices

-----------------------------------------------------------------------------
(* The tables as a map from pages to entries *)

Tables == [Indices -> [Indices -> Pte]]

(* An entry is found for every address, the same for the whole page. *)
LEMMA GetFacts ==
  ASSUME NEW c \in Tables, NEW addr \in Addresses
  PROVE  paging_get(c, addr) \in Pte /\ paging_get(c, PageOf(addr)) = paging_get(c, addr)
<1>1. directory_index(addr) \in Indices /\ table_index(addr) \in Indices
  BY IndexFacts
<1>2. paging_get(c, addr) \in Pte
  BY <1>1 DEF paging_get, Tables
<1> QED BY <1>2, IndexFacts DEF paging_get

(* No two pages share an entry. *)
LEMMA IndicesInjective ==
  ASSUME NEW a \in PageAddresses, NEW b \in PageAddresses,
         directory_index(a) = directory_index(b), table_index(a) = table_index(b)
  PROVE  a = b
<1>1. PageOf(a) = PageOf(b)
  BY IndexFacts, PageFacts
<1> QED BY <1>1, PageFacts

(* paging_set replaces the entry of one page and no other. *)
LEMMA SetFacts ==
  ASSUME NEW c \in Tables, NEW a \in PageAddresses, NEW e \in Pte
  PROVE  /\ paging_set(c, a, e) \in Tables
         /\ \A p \in PageAddresses :
              paging_get(paging_set(c, a, e), p) = IF p = a THEN e ELSE paging_get(c, p)
<1>1. directory_index(a) \in Indices /\ table_index(a) \in Indices
  BY IndexFacts, PageFacts
<1>2. paging_set(c, a, e) \in Tables
  BY <1>1 DEF paging_set, Tables
<1>3. ASSUME NEW p \in PageAddresses
      PROVE  paging_get(paging_set(c, a, e), p) = IF p = a THEN e ELSE paging_get(c, p)
  <2>1. directory_index(p) \in Indices /\ table_index(p) \in Indices
    BY IndexFacts, PageFacts
  <2>2. p # a => directory_index(p) # directory_index(a) \/ table_index(p) # table_index(a)
    BY IndicesInjective
  <2> QED BY <1>1, <2>1, <2>2 DEF paging_get, paging_set, Tables
<1> QED BY <1>2, <1>3

(* paging_new_4gb maps every page to itself. *)
LEMMA NewFacts ==
  ASSUME NEW w \in BOOLEAN
  PROVE  /\ paging_new_4gb(w) \in Tables
         /\ \A p \in PageAddresses : paging_get(paging_new_4gb(w), p) = [frame |-> p, writable |-> w]
<1>1. ASSUME NEW i \in Indices, NEW b \in Indices
      PROVE  (i * TableBytes) + (b * PageSize) \in PageAddresses
  <2>0. Entries \in Nat /\ PageSize \in Nat \ {0} /\ i \in Nat /\ b \in Nat /\ i + 1 <= Entries /\ b + 1 <= Entries
    BY Sizes4GB DEF Indices
  <2> DEFINE q == (i * Entries) + b
  <2>1. i * Entries \in Nat /\ q \in Nat
    BY <2>0
  <2>2. (i * TableBytes) + (b * PageSize) = (PageSize * q) + 0
    <3>1. \A x, y, z \in Nat : x * (y * z) = z * (x * y)
      OBVIOUS
    <3>2. i * (Entries * PageSize) = PageSize * (i * Entries)
      BY <2>0, <3>1
    <3>3. \A x, y, z \in Nat : z * (x + y) = (z * x) + (y * z) /\ z * x \in Nat /\ y * z \in Nat
      OBVIOUS
    <3>4. PageSize * ((i * Entries) + b) = (PageSize * (i * Entries)) + (b * PageSize)
      BY <2>0, <2>1, <3>3
    <3>5. PageSize * q \in Nat
      BY <2>0, <2>1
    <3> QED BY <3>2, <3>4, <3>5 DEF TableBytes
  <2>3. q < Entries * Entries
    <3>1. \A x, y \in Nat : x + 1 <= y => (x * y) + y <= y * y
      OBVIOUS
    <3>2. (i * Entries) + Entries <= Entries * Entries
      BY <2>0, <3>1
    <3> QED BY <2>0, <2>1, <3>2
  <2>4. AddrMod = PageSize * (Entries * Entries)
    <3>1. \A x, y \in Nat : x * (x * y) = y * (x * x)
      OBVIOUS
    <3> QED BY <2>0, <3>1 DEF AddrMod, TableBytes
  <2> HIDE DEF q
  <2>5. PageSize * q < AddrMod /\ PageSize * q \in Nat
    <3>1. \A x, y, z \in Nat : z > 0 /\ x < y => z * x < z * y
      OBVIOUS
    <3>2. Entries * Entries \in Nat
      BY <2>0
    <3> QED BY <2>0, <2>1, <2>3, <2>4, <3>1, <3>2
  <2>6. ((PageSize * q) + 0) % PageSize = 0
    <3>1. 0 \in 0 .. (PageSize - 1)
      BY <2>0
    <3> QED BY <2>0, <2>1, <3>1, DivModUnique
  <2>7. (PageSize * q) + 0 \in Addresses
    BY <2>5, Sizes4GB DEF Addresses
  <2> QED BY <2>2, <2>6, <2>7 DEF PageAddresses, paging_is_aligned
<1>2. paging_new_4gb(w) \in Tables
  BY <1>1 DEF paging_new_4gb, Tables, Pte
<1>3. ASSUME NEW p \in PageAddresses
      PROVE  paging_get(paging_new_4gb(w), p) = [frame |-> p, writable |-> w]
  <2>1. /\ directory_index(p) \in Indices /\ table_index(p) \in Indices
        /\ (directory_index(p) * TableBytes) + (table_index(p) * PageSize) = p
    BY IndexFacts, PageFacts
  <2> QED BY <2>1 DEF paging_get, paging_new_4gb
<1> QED BY <1>2, <1>3

(* The address behind a page is that of the next one, or wraps to 0. *)
LEMMA NextPage ==
  ASSUME NEW a \in PageAddresses
  PROVE  /\ (a + PageSize) % AddrMod \in PageAddresses
         /\ a + PageSize < AddrMod => (a + PageSize) % AddrMod = a + PageSize
<1>1. a \in Nat /\ a % PageSize = 0 /\ a + PageSize <= AddrMod
  BY PageFacts
<1>2. PageSize % PageSize = 0 /\ 0 % PageSize = 0 /\ AddrMod % AddrMod = 0
  BY Sizes4GB
<1>3. (a + PageSize) % PageSize = 0
  <2>1. PageSize \in Nat \ {0}
    BY Sizes4GB
  <2> QED BY <1>1, <1>2, <2>1, Multiples
<1>4. \A x, m \in Nat : x < m => x % m = x
  OBVIOUS
<1>5. a + PageSize < AddrMod => (a + PageSize) % AddrMod = a + PageSize
  BY <1>1, <1>4, Sizes4GB
<1>6. a + PageSize = AddrMod => (a + PageSize) % AddrMod = 0
  BY <1>2
<1> QED BY <1>1, <1>2, <1>3, <1>5, <1>6, Sizes4GB DEF PageAddresses, Addresses, paging_is_aligned

(* paging_align_address gives the first page at or behind an address. *)
LEMMA AlignFacts ==
  ASSUME NEW a \in Nat, a + PageSize <= AddrMod
  PROVE  /\ paging_align_address(a) \in PageAddresses
         /\ paging_align_address(a) = a + (IF a % PageSize = 0 THEN 0 ELSE PageSize - (a % PageSize))
         /\ a <= paging_align_address(a)
         /\ \A x \in PageAddresses : a <= x => paging_align_address(a) <= x
<1> DEFINE r == a % PageSize
           up == IF r = 0 THEN a ELSE a + PageSize - r
<1>0. PageSize \in Nat \ {0} /\ AddrMod \in Nat \ {0}
  BY Sizes4GB
<1>1. r \in 0 .. (PageSize - 1) /\ a - r \in Nat /\ (a - r) % PageSize = 0
  BY <1>0, DivMod, RoundDown
<1>2. ((a - r) + PageSize) % PageSize = 0
  <2>1. PageSize % PageSize = 0
    BY <1>0
  <2> QED BY <1>0, <1>1, <2>1, Multiples
<1> HIDE DEF r
<1>3. up \in Nat /\ up < AddrMod /\ a <= up
  <2>1. r # 0 => r > 0
    BY <1>1
  <2> QED BY <1>0, <1>1, <2>1
<1>4. paging_align_address(a) = up
  <2>1. \A x, m \in Nat : x < m => x % m = x
    OBVIOUS
  <2>2. r # 0 => (a + PageSize - r) % AddrMod = a + PageSize - r
    BY <1>0, <1>3, <2>1
  <2> QED BY <2>2 DEF paging_align_address, paging_is_aligned, r
<1>5. up % PageSize = 0
  <2>1. CASE r = 0
    BY <2>1 DEF r
  <2>2. CASE r # 0
    <3>1. up = (a - r) + PageSize
      BY <1>0, <1>1, <2>2
    <3> QED BY <1>2, <3>1
  <2> QED BY <2>1, <2>2
<1>6. up \in PageAddresses
  BY <1>0, <1>3, <1>5 DEF PageAddresses, Addresses, paging_is_aligned
<1>7. ASSUME NEW x \in PageAddresses, a <= x PROVE up <= x
  <2>1. CASE r = 0
    BY <1>7, <2>1
  <2>2. CASE r # 0
    <3>1. x \in Nat /\ x % PageSize = 0
      BY PageFacts
    <3>2. a # x
      BY <2>2, <3>1 DEF r
    <3>3. a < x
      BY <1>7, <3>1, <3>2
    <3>4. (a - r) + PageSize <= x
      BY <1>0, <3>1, <3>3, Multiples DEF r
    <3> QED BY <1>0, <1>1, <2>2, <3>1, <3>4
  <2> QED BY <2>1, <2>2
<1>8. up = a + (IF r = 0 THEN 0 ELSE PageSize - r)
  BY <1>0, <1>1
<1> QED BY <1>3, <1>4, <1>6, <1>7, <1>8 DEF r

(* The calls of paging_map_to ask for whole pages, as many as the region   *)
(* takes.                                                                  *)
LEMMA RegionFacts ==
  ASSUME NEW v \in PageAddresses, NEW p \in PageAddresses, NEW n \in Nat, p + n + PageSize <= AddrMod
  PROVE  LET end == paging_align_address((p + n) % AddrMod)
         IN  /\ end \in PageAddresses /\ p + n <= end
             /\ end = p + n + (IF n % PageSize = 0 THEN 0 ELSE PageSize - (n % PageSize))
             /\ PagesTo(v, p, end) \in Nat
             /\ p + (PageSize * PagesTo(v, p, end)) = end
<1> DEFINE end == paging_align_address((p + n) % AddrMod)
<1>0. PageSize \in Nat \ {0} /\ AddrMod \in Nat \ {0}
  BY Sizes4GB
<1>1. p \in Nat /\ p % PageSize = 0 /\ v % PageSize = 0
  BY PageFacts
<1>2. (p + n) % AddrMod = p + n
  <2>1. \A x, m \in Nat : x < m => x % m = x
    OBVIOUS
  <2> QED BY <1>0, <1>1, <2>1
<1>3. (p + n) % PageSize = n % PageSize
  BY <1>0, <1>1, Multiples
<1>4. /\ end \in PageAddresses /\ p + n <= end
      /\ end = p + n + (IF n % PageSize = 0 THEN 0 ELSE PageSize - (n % PageSize))
  <2>1. p + n \in Nat /\ (p + n) + PageSize <= AddrMod
    BY <1>0, <1>1
  <2> QED BY <1>2, <1>3, <2>1, AlignFacts
<1>5. end \in Nat /\ end % PageSize = 0
  BY <1>4, PageFacts
<1> HIDE DEF end
<1>6. end >= p /\ end - p \in Nat /\ (end - p) % PageSize = 0
  <2>1. p <= end /\ end - p \in Nat
    BY <1>1, <1>4, <1>5
  <2> QED BY <1>0, <1>1, <1>5, <2>1, Multiples
<1>7. PagesTo(v, p, end) = (end - p) \div PageSize
  BY <1>1, <1>5, <1>6 DEF PagesTo, paging_is_aligned
<1>8. /\ (end - p) \div PageSize \in Nat
      /\ end - p = (PageSize * ((end - p) \div PageSize)) + 0
  BY <1>0, <1>6, DivMod
<1>9. PageSize * ((end - p) \div PageSize) \in Nat
  BY <1>0, <1>8
<1>10. p + (PageSize * ((end - p) \div PageSize)) = end
  BY <1>1, <1>5, <1>8, <1>9
<1> QED BY <1>4, <1>7, <1>8, <1>10 DEF end

(* The layout of the user's part of the address space. *)
LEMMA Layout ==
  /\ StackLow \in PageAddresses /\ StackStart \in PageAddresses
  /\ ProgramStart \in PageAddresses /\ KernelStack \in PageAddresses
  /\ StackSize \in Nat \ {0} /\ StackLow + StackSize = StackStart /\ StackStart <= ProgramStart
  /\ StackSize % PageSize = 0
  /\ \A p \in HeapPtrs : p \in PageAddresses /\ p >= KernelStack /\ p + StackSize + PageSize <= AddrMod
<1>1. /\ StackLow \in PageAddresses /\ StackStart \in PageAddresses
      /\ ProgramStart \in PageAddresses /\ KernelStack \in PageAddresses
      /\ StackSize \in Nat \ {0} /\ StackStart <= ProgramStart
      /\ \A p \in HeapPtrs : /\ p \in PageAddresses /\ p >= KernelStack
                             /\ p + StackSize <= AddrMod - PageSize
  BY PagingAssumption DEF StackLow
<1>2. StackLow \in Nat /\ StackStart \in Nat /\ StackLow % PageSize = 0 /\ StackStart % PageSize = 0
  BY <1>1, PageFacts
<1>3. StackLow + StackSize = StackStart /\ StackStart - StackLow = StackSize /\ StackLow <= StackStart
  BY <1>1, <1>2 DEF StackLow
<1>4. PageSize \in Nat \ {0} /\ AddrMod \in Nat
  BY Sizes4GB
<1>5. (StackStart - StackLow) % PageSize = 0
  BY <1>2, <1>3, <1>4, Multiples
<1>6. \A p \in HeapPtrs : p + StackSize + PageSize <= AddrMod
  BY <1>1, <1>4, PageFacts
<1> QED BY <1>1, <1>3, <1>5, <1>6

(* The last page of the program's region, behind its end. *)
LEMMA ProgramFacts ==
  ASSUME ptr \in HeapPtrs, size \in Sizes
  PROVE  LET limit == ProgramStart + (ProgramEnd - ptr)
         IN  /\ ptr \in PageAddresses /\ size \in Nat /\ ptr + size + PageSize <= AddrMod
             /\ ProgramEnd \in PageAddresses /\ ptr + size <= ProgramEnd
             /\ limit = paging_align_address(ProgramStart + size)
             /\ limit \in PageAddresses /\ ProgramStart + size <= limit
             /\ limit + PageSize <= KernelStack
<1>1. /\ ptr \in PageAddresses /\ size \in Nat /\ ptr + size <= AddrMod - PageSize
      /\ ProgramStart + size <= KernelStack - PageSize
  BY PagingAssumption
<1>2. /\ PageSize \in Nat \ {0} /\ AddrMod \in Nat
      /\ ptr \in Nat /\ ProgramStart \in Nat /\ KernelStack \in Nat
      /\ ProgramStart % PageSize = 0 /\ KernelStack % PageSize = 0 /\ KernelStack < AddrMod
  BY <1>1, Layout, PageFacts, Sizes4GB DEF PageAddresses, Addresses
<1>3. ptr + size + PageSize <= AddrMod
  BY <1>1, <1>2
<1>4. /\ ProgramEnd \in PageAddresses /\ ptr + size <= ProgramEnd
      /\ ProgramEnd = ptr + size + (IF size % PageSize = 0 THEN 0 ELSE PageSize - (size % PageSize))
  BY <1>1, <1>3, RegionFacts DEF ProgramEnd
<1> DEFINE u == paging_align_address(ProgramStart + size)
<1>5. KernelStack - PageSize \in PageAddresses
  <2>1. KernelStack - PageSize \in Nat /\ PageSize <= KernelStack
    BY <1>1, <1>2
  <2>2. PageSize % PageSize = 0
    BY <1>2
  <2>3. (KernelStack - PageSize) % PageSize = 0
    BY <1>2, <2>1, <2>2, Multiples
  <2> QED BY <1>2, <2>1, <2>3 DEF PageAddresses, Addresses, paging_is_aligned
<1>6. (ProgramStart + size) % PageSize = size % PageSize
  BY <1>1, <1>2, Multiples
<1>7. /\ u \in PageAddresses /\ ProgramStart + size <= u /\ u <= KernelStack - PageSize
      /\ u = ProgramStart + size + (IF size % PageSize = 0 THEN 0 ELSE PageSize - (size % PageSize))
  <2>1. ProgramStart + size \in Nat /\ (ProgramStart + size) + PageSize <= AddrMod
    BY <1>1, <1>2
  <2> QED BY <1>1, <1>5, <1>6, <2>1, AlignFacts
<1>8. u \in Nat /\ ProgramEnd \in Nat
  BY <1>4, <1>7, PageFacts
<1> HIDE DEF u
<1>9. ProgramStart + (ProgramEnd - ptr) = u
  <2> DEFINE x == IF size % PageSize = 0 THEN 0 ELSE PageSize - (size % PageSize)
  <2>1. x \in Int
    BY <1>1, <1>2
  <2>2. ProgramEnd = ptr + size + x /\ u = ProgramStart + size + x
    BY <1>4, <1>7
  <2> HIDE DEF x
  <2> QED BY <1>1, <1>2, <2>1, <2>2
<1> QED BY <1>1, <1>2, <1>3, <1>4, <1>7, <1>8, <1>9 DEF u

-----------------------------------------------------------------------------
(* The inductive invariant holds *)

(* No page lies between a page and the next one. *)
LEMMA Gap ==
  ASSUME NEW a \in PageAddresses, NEW p \in PageAddresses, p # a
  PROVE  p < a + PageSize <=> p < a
<1>1. a \in Nat /\ p \in Nat /\ a % PageSize = 0 /\ p % PageSize = 0 /\ PageSize \in Nat \ {0}
  BY PageFacts, Sizes4GB
<1>2. a < p => (a - (a % PageSize)) + PageSize <= p
  BY <1>1, Multiples
<1> QED BY <1>1, <1>2

(* A multiple of the page size with a factor above zero. *)
LEMMA OnePageLess ==
  ASSUME NEW n \in Nat, n > 0
  PROVE  /\ PageSize * n \in Nat /\ PageSize * (n - 1) \in Nat
         /\ PageSize * n = (PageSize * (n - 1)) + PageSize
<1>1. \A b \in Nat, m \in Nat : b * m \in Nat /\ b * (m + 1) = (b * m) + b
  OBVIOUS
<1>2. n - 1 \in Nat /\ (n - 1) + 1 = n /\ PageSize \in Nat
  BY Sizes4GB
<1> QED BY <1>1, <1>2

(* The calls of kzalloc for the program and the stack start the invariant. *)
LEMMA PagingInit == Init => PagingInv
<1> SUFFICES ASSUME Init PROVE PagingInv
  OBVIOUS
<1>0. PageSize \in Nat \ {0} /\ AddrMod \in Nat \ {0} /\ 0 \in PageAddresses
  BY Sizes4GB DEF PageAddresses, Addresses, paging_is_aligned
<1>1. /\ pc = "process_map_binary" /\ chunk = paging_new_4gb(FALSE) /\ size \in Sizes
      /\ ptr \in HeapPtrs /\ stack \in HeapPtrs /\ virt = 0 /\ phys = 0 /\ count = 0
      /\ tmp = 0 /\ old_entry = paging_get(chunk, 0)
  BY DEF Init
<1>2. /\ chunk \in Tables
      /\ \A p \in PageAddresses : paging_get(chunk, p) = [frame |-> p, writable |-> FALSE]
  BY <1>1, NewFacts
<1>3. TypeOK
  <2>1. old_entry \in Pte
    BY <1>0, <1>1, <1>2, GetFacts, PageFacts
  <2> QED BY <1>0, <1>1, <1>2, <2>1 DEF TypeOK, Tables
<1>4. RangeAdvances /\ EntrySaved
  BY <1>1 DEF RangeAdvances, EntrySaved
<1>5. ASSUME NEW p \in PageAddresses PROVE paging_get(chunk, p) = Expected(p)
  <2>1. ProgramLimit = ProgramStart /\ StackLimit = StackLow
    BY <1>1 DEF ProgramLimit, StackLimit
  <2>2. p \in Nat /\ ProgramStart \in Nat /\ StackLow \in Nat
    BY Layout, PageFacts
  <2>3. Expected(p) = [frame |-> p, writable |-> pc = "copying" /\ p = tmp]
    BY <2>1, <2>2 DEF Expected
  <2>4. (pc = "copying" /\ p = tmp) = FALSE
    BY <1>1
  <2> QED BY <1>2, <2>3, <2>4
<1> QED BY <1>3, <1>4, <1>5 DEF PagingInv, TablesAsExpected

(* What every step of the proof needs of the state before it. *)
LEMMA StateFacts ==
  ASSUME TypeOK
  PROVE  /\ chunk \in Tables /\ virt \in Nat /\ phys \in Nat /\ count \in Nat
         /\ virt \in PageAddresses /\ phys \in PageAddresses
         /\ ptr \in PageAddresses /\ ptr \in Nat /\ stack \in PageAddresses /\ stack \in Nat
         /\ ProgramStart \in Nat /\ StackLow \in Nat /\ StackStart \in Nat /\ ProgramEnd \in Nat
         /\ ProgramEnd < AddrMod /\ ProgramStart + (ProgramEnd - ptr) + PageSize <= KernelStack
         /\ ptr <= ProgramEnd /\ StackStart < AddrMod /\ KernelStack < AddrMod /\ KernelStack \in Nat
         /\ StackSize \in Nat \ {0} /\ StackLow + StackSize = StackStart /\ StackStart <= ProgramStart
         /\ stack + StackSize + PageSize <= AddrMod
         /\ PageSize \in Nat \ {0} /\ AddrMod \in Nat \ {0}
<1>1. /\ chunk \in Tables /\ virt \in PageAddresses /\ phys \in PageAddresses /\ count \in Nat
      /\ ptr \in HeapPtrs /\ stack \in HeapPtrs /\ size \in Sizes
  BY DEF TypeOK, Tables
<1>2. PageSize \in Nat \ {0} /\ AddrMod \in Nat \ {0}
  BY Sizes4GB
<1>3. ptr \in PageAddresses /\ stack \in PageAddresses /\ ProgramEnd \in PageAddresses
      /\ ptr + size <= ProgramEnd /\ size \in Nat
      /\ ProgramStart + (ProgramEnd - ptr) + PageSize <= KernelStack
  BY <1>1, Layout, ProgramFacts
<1>4. \A a \in PageAddresses : a \in Nat /\ a < AddrMod
  BY <1>2 DEF PageAddresses, Addresses
<1> QED BY <1>1, <1>2, <1>3, <1>4, Layout

(* process_map_binary and the mapping of the stack only set up the locals  *)
(* of paging_map_range.                                                    *)
LEMMA StartSteps ==
  ASSUME PagingInv, process_map_binary \/ map_stack \/ process_map_memory_returns
  PROVE  PagingInv'
<1> USE DEF PagingInv
<1> DEFINE limit == ProgramStart + (ProgramEnd - ptr)
<1>0. UNCHANGED <<chunk, ptr, size, stack, tmp, old_entry>> /\ ProgramEnd' = ProgramEnd
  BY DEF process_map_binary, map_stack, process_map_memory_returns, ProgramEnd
<1>1. (pc \in {"process_map_binary", "binary_range", "stack_range"}) /\ pc' # "copying" /\ pc # "copying"
  BY DEF process_map_binary, map_stack, process_map_memory_returns
<1>2. ASSUME ProgramLimit' = ProgramLimit, StackLimit' = StackLimit PROVE TablesAsExpected'
  <2> SUFFICES ASSUME NEW p \in PageAddresses PROVE paging_get(chunk', p) = Expected(p)'
    BY DEF TablesAsExpected
  <2>1. (pc' = "copying" /\ p = tmp') = FALSE /\ (pc = "copying" /\ p = tmp) = FALSE
    BY <1>1
  <2>2. Expected(p)' = Expected(p)
    BY <1>0, <1>2, <2>1 DEF Expected
  <2> QED BY <1>0, <2>2 DEF TablesAsExpected
<1>3. EntrySaved'
  BY <1>1 DEF EntrySaved
<1>4. CASE process_map_binary
  <2>1. /\ pc = "process_map_binary" /\ pc' = "binary_range" /\ virt' = ProgramStart
        /\ phys' = ptr /\ count' = PagesTo(ProgramStart, ptr, ProgramEnd)
    BY <1>4 DEF process_map_binary, StartRange, ProgramEnd
  <2>2. /\ ptr \in PageAddresses /\ ProgramStart \in PageAddresses /\ count' \in Nat
        /\ ptr + (PageSize * count') = ProgramEnd
    <3>1. ptr \in PageAddresses /\ size \in Nat /\ ptr + size + PageSize <= AddrMod
      BY ProgramFacts DEF TypeOK
    <3> QED BY <2>1, <3>1, Layout, RegionFacts DEF ProgramEnd
  <2>3. TypeOK'
    BY <1>0, <2>1, <2>2 DEF TypeOK
  <2>4. ptr \in Nat /\ ProgramStart \in Nat
    BY <2>2, PageFacts
  <2>5. RangeAdvances'
    BY <1>0, <2>1, <2>2, <2>4 DEF RangeAdvances
  <2>6. ProgramLimit' = ProgramLimit /\ StackLimit' = StackLimit
    BY <2>1 DEF ProgramLimit, StackLimit
  <2> QED BY <1>2, <1>3, <2>3, <2>5, <2>6
<1>5. CASE map_stack
  <2> DEFINE end == paging_align_address((stack + StackSize) % AddrMod)
  <2>1. /\ pc = "binary_range" /\ count = 0 /\ pc' = "stack_range" /\ virt' = StackLow
        /\ phys' = stack /\ count' = PagesTo(StackLow, stack, end)
    BY <1>5 DEF map_stack, StartRange, StackLow
  <2>2. /\ stack \in PageAddresses /\ StackLow \in PageAddresses /\ StackSize \in Nat
        /\ stack + StackSize + PageSize <= AddrMod /\ StackSize % PageSize = 0
    BY Layout DEF TypeOK
  <2>3. stack \in Nat /\ StackLow \in Nat
    BY <2>2, PageFacts
  <2>4. count' \in Nat /\ stack + (PageSize * count') = stack + StackSize
    BY <2>1, <2>2, <2>3, RegionFacts
  <2>5. TypeOK'
    BY <1>0, <2>1, <2>2, <2>4 DEF TypeOK
  <2>6. RangeAdvances'
    BY <1>0, <2>1, <2>3, <2>4 DEF RangeAdvances
  <2>7. virt = ProgramStart + (ProgramEnd - ptr)
    <3>1. /\ virt \in Nat /\ phys \in Nat /\ ptr \in Nat /\ ProgramStart \in Nat
          /\ ProgramEnd \in Nat /\ PageSize \in Nat
      BY StateFacts
    <3>2. phys - ptr = virt - ProgramStart /\ phys + (PageSize * count) = ProgramEnd
      BY <2>1 DEF RangeAdvances
    <3>3. PageSize * count = 0
      BY <2>1, <3>1
    <3> QED BY <3>1, <3>2, <3>3
  <2>8. ProgramLimit = virt /\ ProgramLimit' = limit'
    BY <2>1 DEF ProgramLimit
  <2>9. ProgramLimit' = ProgramLimit /\ StackLimit' = StackLimit
    BY <1>0, <2>1, <2>7, <2>8 DEF StackLimit
  <2> QED BY <1>2, <1>3, <2>5, <2>6, <2>9
<1>6. CASE process_map_memory_returns
  <2>1. /\ pc = "stack_range" /\ count = 0 /\ pc' = "ready"
        /\ UNCHANGED <<virt, phys, count>>
    BY <1>6 DEF process_map_memory_returns
  <2>2. TypeOK' /\ RangeAdvances'
    BY <1>0, <2>1 DEF TypeOK, RangeAdvances
  <2>3. virt = StackStart
    <3>1. /\ virt \in Nat /\ phys \in Nat /\ stack \in Nat /\ StackLow \in Nat
          /\ StackSize \in Nat /\ PageSize \in Nat /\ StackLow + StackSize = StackStart
      BY StateFacts
    <3>2. phys - stack = virt - StackLow /\ phys + (PageSize * count) = stack + StackSize
      BY <2>1 DEF RangeAdvances
    <3>3. PageSize * count = 0
      BY <2>1, <3>1
    <3> QED BY <3>1, <3>2, <3>3
  <2>4. ProgramLimit = limit /\ ProgramLimit' = limit'
    BY <2>1 DEF ProgramLimit
  <2>5. ProgramLimit' = ProgramLimit /\ StackLimit' = StackLimit
    BY <1>0, <2>1, <2>3, <2>4 DEF StackLimit
  <2> QED BY <1>2, <1>3, <2>2, <2>5
<1> QED BY <1>4, <1>5, <1>6

(* An iteration of paging_map_range maps the next page and no other. *)
LEMMA MapRangeStep ==
  ASSUME PagingInv, paging_map_range
  PROVE  PagingInv'
<1> DEFINE e == [frame |-> phys, writable |-> TRUE]
<1>0. TypeOK /\ RangeAdvances /\ TablesAsExpected
  BY DEF PagingInv
<1>1. /\ UNCHANGED <<pc, ptr, size, stack, tmp, old_entry>> /\ ProgramEnd' = ProgramEnd
      /\ pc \in {"binary_range", "stack_range"} /\ count > 0
      /\ chunk' = paging_set(chunk, virt, e)
      /\ virt' = (virt + PageSize) % AddrMod /\ phys' = (phys + PageSize) % AddrMod
      /\ count' = count - 1
  BY DEF paging_map_range, ProgramEnd
<1>2. /\ chunk \in Tables /\ virt \in Nat /\ phys \in Nat /\ count \in Nat
      /\ virt \in PageAddresses /\ phys \in PageAddresses /\ ptr \in Nat /\ stack \in Nat
      /\ PageSize \in Nat \ {0}
  BY <1>0, StateFacts
<1> DEFINE all  == PageSize * count
           rest == PageSize * count'
<1>3. all \in Nat /\ rest \in Nat /\ count' \in Nat /\ all = rest + PageSize
  BY <1>1, <1>2, OnePageLess
<1>4. e \in Pte
  BY <1>2 DEF Pte
<1> HIDE DEF e, all, rest
<1>5. /\ chunk' \in Tables
      /\ \A p \in PageAddresses : paging_get(chunk', p) = IF p = virt THEN e ELSE paging_get(chunk, p)
  BY <1>1, <1>2, <1>4, SetFacts
<1>6. virt' \in PageAddresses /\ phys' \in PageAddresses
  BY <1>1, <1>2, NextPage
<1>7. TypeOK'
  BY <1>0, <1>1, <1>3, <1>5, <1>6 DEF TypeOK, Tables
<1>8. EntrySaved'
  BY <1>1 DEF EntrySaved
<1>9. \A p : (pc = "copying" /\ p = tmp) = FALSE /\ (pc' = "copying" /\ p = tmp') = FALSE
  BY <1>1
<1>10. CASE pc = "binary_range"
  <2>1. phys >= ptr /\ phys - ptr = virt - ProgramStart /\ phys + all = ProgramEnd
    BY <1>0, <1>10 DEF RangeAdvances, all
  <2>2. phys + PageSize <= ProgramEnd /\ phys + PageSize < AddrMod
    BY <1>0, <1>2, <1>3, <2>1, StateFacts
  <2>3. virt + PageSize < AddrMod
    BY <1>0, <1>2, <2>1, <2>2, StateFacts
  <2>4. virt' = virt + PageSize /\ phys' = phys + PageSize
    BY <1>1, <1>2, <2>2, <2>3, NextPage
  <2>5. RangeAdvances'
    <3>1. phys' >= ptr /\ phys' - ptr = virt' - ProgramStart /\ phys' + rest = ProgramEnd
      BY <1>0, <1>2, <1>3, <2>1, <2>4, StateFacts
    <3> QED BY <1>1, <1>10, <3>1 DEF RangeAdvances, rest
  <2>6. ProgramLimit = virt /\ ProgramLimit' = virt' /\ StackLimit = StackLow /\ StackLimit' = StackLow
    BY <1>1, <1>10 DEF ProgramLimit, StackLimit
  <2>7. ASSUME NEW p \in PageAddresses PROVE paging_get(chunk', p) = Expected(p)'
    <3>0. p \in Nat /\ ProgramStart \in Nat /\ StackLow \in Nat
      BY <1>0, PageFacts, StateFacts
    <3>1. CASE p = virt
      <4>1. ProgramStart <= p /\ p < virt' /\ ptr + (p - ProgramStart) = phys
        BY <1>2, <2>1, <2>4, <3>0, <3>1
      <4>2. Expected(p)' = e
        BY <1>1, <2>6, <4>1 DEF Expected, e
      <4> QED BY <1>5, <3>1, <4>2
    <3>2. CASE p # virt
      <4>1. p < virt' <=> p < virt
        BY <1>2, <2>4, <3>2, Gap
      <4>2. Expected(p)' = Expected(p)
        BY <1>1, <1>9, <2>6, <4>1 DEF Expected
      <4> QED BY <1>0, <1>5, <3>2, <4>2 DEF TablesAsExpected
    <3> QED BY <3>1, <3>2
  <2> QED BY <1>7, <1>8, <2>5, <2>7 DEF PagingInv, TablesAsExpected
<1>11. CASE pc = "stack_range"
  <2>1. phys >= stack /\ phys - stack = virt - StackLow /\ phys + all = stack + StackSize
    BY <1>0, <1>11 DEF RangeAdvances, all
  <2>2. phys + PageSize <= stack + StackSize /\ phys + PageSize < AddrMod
    BY <1>0, <1>2, <1>3, <2>1, StateFacts
  <2>3. virt + PageSize <= StackStart /\ virt + PageSize < AddrMod
    BY <1>0, <1>2, <2>1, <2>2, StateFacts
  <2>4. virt' = virt + PageSize /\ phys' = phys + PageSize
    BY <1>1, <1>2, <2>2, <2>3, NextPage
  <2>5. RangeAdvances'
    <3>1. phys' >= stack /\ phys' - stack = virt' - StackLow /\ phys' + rest = stack + StackSize
      BY <1>0, <1>2, <1>3, <2>1, <2>4, StateFacts
    <3> QED BY <1>1, <1>11, <3>1 DEF RangeAdvances, rest
  <2> DEFINE limit == ProgramStart + (ProgramEnd - ptr)
  <2>6. ProgramLimit = limit /\ ProgramLimit' = limit' /\ StackLimit = virt /\ StackLimit' = virt'
    BY <1>1, <1>11 DEF ProgramLimit, StackLimit
  <2>61. ProgramLimit' = ProgramLimit
    BY <1>1, <2>6
  <2> HIDE DEF limit
  <2>7. ASSUME NEW p \in PageAddresses PROVE paging_get(chunk', p) = Expected(p)'
    <3>0. p \in Nat /\ ProgramStart \in Nat /\ StackLow \in Nat /\ StackStart \in Nat /\ StackStart <= ProgramStart
      BY <1>0, PageFacts, StateFacts
    <3>1. CASE p = virt
      <4>1. StackLow <= p /\ p < virt' /\ stack + (p - StackLow) = phys /\ ~(ProgramStart <= p)
        BY <1>2, <2>1, <2>3, <2>4, <3>0, <3>1
      <4>2. Expected(p)' = e
        BY <1>1, <2>6, <4>1 DEF Expected, e
      <4> QED BY <1>5, <3>1, <4>2
    <3>2. CASE p # virt
      <4>1. p < virt' <=> p < virt
        BY <1>2, <2>4, <3>2, Gap
      <4>2. Expected(p)' = Expected(p)
        BY <1>1, <1>9, <2>6, <2>61, <4>1 DEF Expected
      <4> QED BY <1>0, <1>5, <3>2, <4>2 DEF TablesAsExpected
    <3> QED BY <3>1, <3>2
  <2> QED BY <1>7, <1>8, <2>5, <2>7 DEF PagingInv, TablesAsExpected
<1> QED BY <1>1, <1>10, <1>11

(* A page of the heap is neither the program's nor the stack's. *)
LEMMA HeapPages ==
  ASSUME PagingInv, pc \in {"ready", "copying"}, NEW a \in HeapPtrs
  PROVE  /\ a \in PageAddresses
         /\ Expected(a) = [frame |-> a, writable |-> pc = "copying" /\ a = tmp]
         /\ ~(a < ProgramLimit) /\ ~(a < StackLimit)
<1>0. TypeOK
  BY DEF PagingInv
<1>1. a \in PageAddresses /\ a >= KernelStack
  BY Layout
<1>2. a \in Nat
  BY <1>1, PageFacts
<1> DEFINE limit == ProgramStart + (ProgramEnd - ptr)
<1>3. ProgramLimit = limit /\ StackLimit = StackStart
  BY DEF ProgramLimit, StackLimit
<1>4. limit + PageSize <= KernelStack /\ limit \in Nat /\ StackStart <= limit
      /\ StackStart \in Nat /\ KernelStack \in Nat /\ PageSize \in Nat
  BY <1>0, StateFacts
<1> HIDE DEF limit
<1>5. ~(a < ProgramLimit) /\ ~(a < StackLimit)
  BY <1>1, <1>2, <1>3, <1>4
<1> QED BY <1>1, <1>5 DEF Expected

(* copy_string_from_task maps the page, remembering the entry, and writes  *)
(* the entry back.                                                         *)
LEMMA TmpSteps ==
  ASSUME PagingInv, map_tmp \/ unmap_tmp
  PROVE  PagingInv'
<1>0. TypeOK /\ TablesAsExpected /\ EntrySaved
  BY DEF PagingInv
<1> DEFINE limit == ProgramStart + (ProgramEnd - ptr)
<1>1. /\ UNCHANGED <<ptr, size, stack, virt, phys, count>> /\ limit' = limit
      /\ pc \in {"ready", "copying"} /\ pc' \in {"ready", "copying"}
  BY DEF map_tmp, unmap_tmp, ProgramEnd
<1>2. ProgramLimit = limit /\ ProgramLimit' = limit' /\ StackLimit = StackStart /\ StackLimit' = StackStart
  BY <1>1 DEF ProgramLimit, StackLimit
<1> HIDE DEF limit
<1>3. RangeAdvances'
  BY <1>1 DEF RangeAdvances
<1>4. chunk \in Tables
  BY <1>0, StateFacts
<1>5. ASSUME NEW p \in PageAddresses,
             (pc' = "copying" /\ p = tmp') = (pc = "copying" /\ p = tmp)
      PROVE  Expected(p)' = Expected(p)
  BY <1>1, <1>2, <1>5 DEF Expected
<1>6. CASE map_tmp
  <2> DEFINE e == [frame |-> tmp', writable |-> TRUE]
  <2>1. /\ pc = "ready" /\ pc' = "copying" /\ tmp' \in HeapPtrs
        /\ old_entry' = paging_get(chunk, tmp') /\ chunk' = paging_set(chunk, tmp', e)
    BY <1>6 DEF map_tmp, FreePtrs
  <2>2. /\ tmp' \in PageAddresses /\ ~(tmp' < ProgramLimit) /\ ~(tmp' < StackLimit)
        /\ Expected(tmp') = [frame |-> tmp', writable |-> pc = "copying" /\ tmp' = tmp]
    BY <2>1, HeapPages
  <2>3. e \in Pte
    BY <2>2 DEF Pte
  <2> HIDE DEF e
  <2>4. /\ chunk' \in Tables
        /\ \A p \in PageAddresses : paging_get(chunk', p) = IF p = tmp' THEN e ELSE paging_get(chunk, p)
    BY <1>4, <2>1, <2>2, <2>3, SetFacts
  <2>5. (pc = "copying" /\ tmp' = tmp) = FALSE
    BY <2>1
  <2>6. old_entry' = [frame |-> tmp', writable |-> FALSE]
    BY <1>0, <2>1, <2>2, <2>5 DEF TablesAsExpected
  <2>7. old_entry' \in Pte
    BY <1>4, <2>1, <2>2, GetFacts, PageFacts
  <2>8. TypeOK'
    BY <1>0, <1>1, <2>1, <2>2, <2>4, <2>7 DEF TypeOK, Tables
  <2>9. EntrySaved'
    BY <2>1, <2>6 DEF EntrySaved
  <2>10. ASSUME NEW p \in PageAddresses PROVE paging_get(chunk', p) = Expected(p)'
    <3>1. CASE p = tmp'
      <4>1. (pc' = "copying" /\ p = tmp') = TRUE
        BY <2>1, <3>1
      <4>2. Expected(p)' = e
        BY <1>1, <1>2, <2>2, <3>1, <4>1 DEF Expected, e
      <4> QED BY <2>4, <3>1, <4>2
    <3>2. CASE p # tmp'
      <4>1. (pc' = "copying" /\ p = tmp') = (pc = "copying" /\ p = tmp)
        BY <2>1, <3>2
      <4> QED BY <1>0, <1>5, <2>4, <3>2, <4>1 DEF TablesAsExpected
    <3> QED BY <3>1, <3>2
  <2> QED BY <1>3, <2>8, <2>9, <2>10 DEF PagingInv, TablesAsExpected
<1>7. CASE unmap_tmp
  <2>1. /\ pc = "copying" /\ pc' = "ready" /\ UNCHANGED <<tmp, old_entry>>
        /\ chunk' = paging_set(chunk, tmp, old_entry)
    BY <1>7 DEF unmap_tmp
  <2>2. tmp \in HeapPtrs /\ old_entry = [frame |-> tmp, writable |-> FALSE] /\ old_entry \in Pte
    BY <1>0, <2>1 DEF EntrySaved, TypeOK
  <2>3. tmp \in PageAddresses /\ ~(tmp < ProgramLimit) /\ ~(tmp < StackLimit)
    BY <2>1, <2>2, HeapPages
  <2>4. /\ chunk' \in Tables
        /\ \A p \in PageAddresses :
             paging_get(chunk', p) = IF p = tmp THEN old_entry ELSE paging_get(chunk, p)
    <3>1. old_entry \in Pte /\ tmp \in PageAddresses /\ chunk' = paging_set(chunk, tmp, old_entry)
      BY <2>1, <2>2, <2>3
    <3> QED BY <1>4, <3>1, SetFacts
  <2>5. TypeOK' /\ EntrySaved'
    BY <1>0, <1>1, <2>1, <2>4 DEF TypeOK, Tables, EntrySaved
  <2>6. ASSUME NEW p \in PageAddresses PROVE paging_get(chunk', p) = Expected(p)'
    <3>0. (pc' = "copying" /\ p = tmp') = FALSE
      BY <2>1
    <3>1. CASE p = tmp
      <4>1. Expected(p)' = [frame |-> tmp, writable |-> FALSE]
        BY <1>1, <1>2, <2>3, <3>0, <3>1 DEF Expected
      <4> QED BY <2>2, <2>4, <3>1, <4>1
    <3>2. CASE p # tmp
      <4>1. (pc = "copying" /\ p = tmp) = FALSE
        BY <3>2
      <4> QED BY <1>0, <1>5, <2>4, <3>0, <3>2, <4>1 DEF TablesAsExpected
    <3> QED BY <3>1, <3>2
  <2> QED BY <1>3, <2>5, <2>6 DEF PagingInv, TablesAsExpected
<1> QED BY <1>6, <1>7

(* The tables hold, page by page, what the mapping calls of                *)
(* process_map_memory and copy_string_from_task have asked for so far.     *)
THEOREM PagingInvariant == Spec => []PagingInv
<1>1. PagingInv /\ [Next]_vars => PagingInv'
  <2> SUFFICES ASSUME PagingInv, [Next]_vars PROVE PagingInv'
    OBVIOUS
  <2>1. CASE Next
    BY <2>1, StartSteps, MapRangeStep, TmpSteps DEF Next
  <2>2. CASE UNCHANGED vars
    BY <2>2 DEF vars, PagingInv, TypeOK, RangeAdvances, TablesAsExpected, EntrySaved,
                ProgramEnd, Expected, ProgramLimit, StackLimit
  <2> QED BY <2>1, <2>2
<1> QED BY <1>1, PagingInit, PTL DEF Spec

-----------------------------------------------------------------------------
(* What the task finds in its address space *)

(* An address is translated by the entry of its page. *)
LEMMA Translation ==
  ASSUME PagingInv, NEW addr \in Addresses
  PROVE  /\ Writable(addr) = Expected(PageOf(addr)).writable
         /\ Physical(addr) = Expected(PageOf(addr)).frame + (addr % PageSize)
<1>1. chunk \in Tables /\ PageOf(addr) \in PageAddresses
  BY StateFacts, PageOfFacts DEF PagingInv
<1>2. paging_get(chunk, addr) = Expected(PageOf(addr))
  BY <1>1, GetFacts DEF PagingInv, TablesAsExpected
<1> QED BY <1>2 DEF Writable, Physical

(* When process_map_memory has returned, every byte of the program file    *)
(* and of the stack is where the task expects it, and stays there through  *)
(* every string copy.                                                      *)
THEOREM ProgramIsMapped == Spec => []ProcessMapped
<1>1. PagingInv => ProcessMapped
  <2> SUFFICES ASSUME PagingInv PROVE ProcessMapped
    OBVIOUS
  <2>0. TypeOK
    BY DEF PagingInv
  <2> SUFFICES ASSUME pc \in {"ready", "copying"}, NEW addr \in Addresses
      PROVE  /\ InProgram(addr) =>
                  Writable(addr) /\ Physical(addr) = ptr + (addr - ProgramStart)
             /\ InStack(addr) =>
                  Writable(addr) /\ Physical(addr) = stack + (addr - (StackStart - StackSize))
    BY <2>0 DEF ProcessMapped
  <2> DEFINE page == PageOf(addr)
             off  == addr % PageSize
             limit == ProgramStart + (ProgramEnd - ptr)
  <2>1. /\ addr \in Nat /\ page \in PageAddresses /\ off \in Nat /\ page + off = addr
        /\ \A x \in PageAddresses : (x <= addr <=> x <= page) /\ (addr < x <=> page < x)
    BY PageOfFacts, Sizes4GB
  <2>2. page \in Nat
    BY <2>1, PageFacts
  <2>3. Writable(addr) = Expected(page).writable /\ Physical(addr) = Expected(page).frame + off
    BY Translation
  <2>4. /\ ProgramLimit = limit /\ StackLimit = StackStart
        /\ limit \in PageAddresses /\ ProgramStart + size <= limit
        /\ StackStart \in PageAddresses /\ StackLow \in PageAddresses
        /\ ProgramStart \in PageAddresses /\ StackStart <= ProgramStart /\ size \in Nat
    BY <2>0, ProgramFacts, Layout DEF ProgramLimit, StackLimit, TypeOK
  <2>5. ptr \in Nat /\ stack \in Nat /\ ProgramStart \in Nat /\ StackLow \in Nat
        /\ StackStart \in Nat /\ limit \in Nat
    BY <2>0, <2>4, StateFacts, PageFacts
  <2> HIDE DEF page, off, limit
  <2>6. ASSUME InProgram(addr)
        PROVE  Writable(addr) /\ Physical(addr) = ptr + (addr - ProgramStart)
    <3>1. ProgramStart <= addr /\ addr < limit
      BY <2>1, <2>4, <2>5, <2>6 DEF InProgram
    <3>2. ProgramStart <= page /\ page < limit
      BY <2>1, <2>4, <3>1
    <3>3. Expected(page) = [frame |-> ptr + (page - ProgramStart), writable |-> TRUE]
      BY <2>4, <3>2 DEF Expected
    <3> QED BY <2>1, <2>2, <2>3, <2>5, <3>3
  <2>7. ASSUME InStack(addr)
        PROVE  Writable(addr) /\ Physical(addr) = stack + (addr - StackLow)
    <3>1. StackLow <= addr /\ addr < StackStart
      BY <2>1, <2>5, <2>7 DEF InStack, StackLow
    <3>2. StackLow <= page /\ page < StackStart /\ ~(ProgramStart <= page)
      <4>1. StackLow <= page /\ page < StackStart
        BY <2>1, <2>4, <3>1
      <4> QED BY <2>2, <2>4, <2>5, <4>1
    <3>3. Expected(page) = [frame |-> stack + (page - StackLow), writable |-> TRUE]
      BY <2>4, <3>2 DEF Expected
    <3> QED BY <2>1, <2>2, <2>3, <2>5, <3>3
  <2> QED BY <2>6, <2>7 DEF StackLow
<1> QED BY <1>1, PagingInvariant, PTL

(* Everywhere else the task's tables map an address to itself and protect  *)
(* it, the kernel's stack included, except the page of a string copy.      *)
THEOREM KernelIsIdentity == Spec => []KernelIdentity
<1>1. PagingInv => KernelIdentity
  <2> SUFFICES ASSUME PagingInv, NEW addr \in Addresses, KernelOwned(addr)
      PROVE  /\ Physical(addr) = addr
             /\ Writable(addr) => pc = "copying" /\ addr - (addr % PageSize) = tmp
    BY DEF KernelIdentity
  <2>0. TypeOK /\ RangeAdvances
    BY DEF PagingInv
  <2> DEFINE page == PageOf(addr)
             off  == addr % PageSize
             limit == ProgramStart + (ProgramEnd - ptr)
  <2>1. /\ addr \in Nat /\ page \in PageAddresses /\ off \in Nat /\ page + off = addr
        /\ \A x \in PageAddresses : (x <= addr <=> x <= page) /\ (addr < x <=> page < x)
    BY PageOfFacts, Sizes4GB
  <2>2. page \in Nat
    BY <2>1, PageFacts
  <2>3. Writable(addr) = Expected(page).writable /\ Physical(addr) = Expected(page).frame + off
    BY Translation
  <2>4. /\ limit \in PageAddresses /\ limit = paging_align_address(ProgramStart + size)
        /\ limit + PageSize <= KernelStack
        /\ StackStart \in PageAddresses /\ StackLow \in PageAddresses /\ KernelStack \in Nat
        /\ ProgramStart \in PageAddresses /\ StackStart <= ProgramStart /\ PageSize \in Nat
        /\ StackLow <= StackStart
    BY <2>0, ProgramFacts, Layout, StateFacts DEF TypeOK
  <2>5. /\ ptr \in Nat /\ ProgramStart \in Nat /\ StackLow \in Nat /\ StackStart \in Nat
        /\ limit \in Nat /\ ProgramStart <= limit
    BY <2>0, <2>4, StateFacts
  <2>6. ProgramLimit <= limit /\ ProgramLimit \in Nat
    <3>1. CASE pc = "process_map_binary"
      <4>1. ProgramLimit = ProgramStart
        BY <3>1 DEF ProgramLimit
      <4> QED BY <2>0, <2>5, <4>1, StateFacts
    <3>2. CASE pc = "binary_range"
      <4>1. ProgramLimit = virt
        BY <3>2 DEF ProgramLimit
      <4> DEFINE rest == PageSize * count
      <4>2. /\ phys - ptr = virt - ProgramStart /\ phys + rest = ProgramEnd
            /\ virt \in Nat /\ phys \in Nat /\ ProgramEnd \in Nat /\ rest \in Nat
        BY <2>0, <3>2, StateFacts DEF RangeAdvances
      <4> HIDE DEF rest
      <4> QED BY <2>5, <4>1, <4>2 DEF limit
    <3>3. CASE ~(pc \in {"process_map_binary", "binary_range"})
      <4>1. ProgramLimit = limit
        BY <3>3 DEF ProgramLimit, limit
      <4> QED BY <2>5, <4>1
    <3> QED BY <3>1, <3>2, <3>3
  <2>7. StackLimit <= StackStart /\ StackLimit \in Nat
    <3>1. CASE pc \in {"process_map_binary", "binary_range"}
      <4>1. StackLimit = StackLow
        BY <3>1 DEF StackLimit
      <4> QED BY <2>4, <2>5, <4>1
    <3>2. CASE pc = "stack_range"
      <4>1. StackLimit = virt
        BY <3>2 DEF StackLimit
      <4> DEFINE rest == PageSize * count
      <4>2. /\ phys - stack = virt - StackLow /\ phys + rest = stack + StackSize
            /\ virt \in Nat /\ phys \in Nat /\ stack \in Nat /\ rest \in Nat
            /\ StackSize \in Nat /\ StackLow + StackSize = StackStart
        BY <2>0, <3>2, StateFacts DEF RangeAdvances
      <4> HIDE DEF rest
      <4> QED BY <2>5, <4>1, <4>2
    <3>3. CASE ~(pc \in {"process_map_binary", "binary_range", "stack_range"})
      <4>1. StackLimit = StackStart
        BY <3>3 DEF StackLimit
      <4> QED BY <2>5, <4>1
    <3> QED BY <3>1, <3>2, <3>3
  <2> HIDE DEF page, off, limit
  <2>8. ~(ProgramStart <= addr /\ addr < limit) /\ ~(StackLow <= addr /\ addr < StackStart)
    <3>1. \/ addr < StackLow
          \/ addr >= StackStart /\ addr < ProgramStart
          \/ addr >= limit
          \/ addr >= KernelStack - PageSize
      BY <2>4 DEF KernelOwned, StackLow
    <3> QED BY <2>1, <2>4, <2>5, <2>6, <3>1
  <2>9. ~(ProgramStart <= page /\ page < limit) /\ ~(StackLow <= page /\ page < StackStart)
    BY <2>1, <2>4, <2>8
  <2>10. ~(ProgramStart <= page /\ page < ProgramLimit) /\ ~(StackLow <= page /\ page < StackLimit)
    BY <2>2, <2>5, <2>6, <2>7, <2>9
  <2>11. Expected(page) = [frame |-> page, writable |-> pc = "copying" /\ page = tmp]
    BY <2>10 DEF Expected
  <2>12. Physical(addr) = addr
    BY <2>1, <2>3, <2>11
  <2>13. Writable(addr) = (pc = "copying" /\ page = tmp)
    BY <2>3, <2>11
  <2> QED BY <2>12, <2>13 DEF page, PageOf
<1> QED BY <1>1, PagingInvariant, PTL

(* The two levels of tables implement the flat map: the index arithmetic   *)
(* of paging_get_indices is invisible, every step of the code is one       *)
(* replacement of one page's entry, or none.                               *)
THEOREM TablesImplementFlatMap == Spec => ImplementsFlat
<1>1. Init => Flat!Init
  <2> SUFFICES ASSUME Init PROVE FlatMap = [a \in PageAddresses |-> [frame |-> a, writable |-> FALSE]]
    BY DEF Flat!Init
  <2>1. \A p \in PageAddresses : paging_get(chunk, p) = [frame |-> p, writable |-> FALSE]
    BY NewFacts DEF Init
  <2> QED BY <2>1 DEF FlatMap
<1>2. PagingInv /\ [Next]_vars => [Flat!Next]_FlatMap
  <2> SUFFICES ASSUME PagingInv, [Next]_vars PROVE Flat!Next \/ FlatMap' = FlatMap
    OBVIOUS
  <2>0. TypeOK /\ chunk \in Tables
    BY StateFacts DEF PagingInv
  <2>1. ASSUME NEW a \in PageAddresses, NEW e \in Pte, chunk' = paging_set(chunk, a, e)
        PROVE  Flat!Next
    <3>1. \A p \in PageAddresses : paging_get(chunk', p) = IF p = a THEN e ELSE paging_get(chunk, p)
      BY <2>0, <2>1, SetFacts
    <3>2. FlatMap' = [FlatMap EXCEPT ![a] = e]
      BY <3>1 DEF FlatMap
    <3>3. Flat!MapPage(a, e)
      BY <3>2 DEF Flat!MapPage
    <3> QED BY <3>3 DEF Flat!Next
  <2>2. CASE chunk' = chunk
    BY <2>2 DEF FlatMap
  <2>3. CASE paging_map_range
    <3>1. [frame |-> phys, writable |-> TRUE] \in Pte /\ virt \in PageAddresses
      BY <2>0, StateFacts DEF Pte
    <3> QED BY <2>1, <2>3, <3>1 DEF paging_map_range
  <2>4. CASE map_tmp
    <3>1. tmp' \in PageAddresses
      BY <2>4, Layout DEF map_tmp, FreePtrs
    <3>2. [frame |-> tmp', writable |-> TRUE] \in Pte
      BY <3>1 DEF Pte
    <3> QED BY <2>1, <2>4, <3>1, <3>2 DEF map_tmp
  <2>5. CASE unmap_tmp
    BY <2>0, <2>1, <2>5 DEF unmap_tmp, TypeOK
  <2> QED BY <2>2, <2>3, <2>4, <2>5
        DEF Next, vars, process_map_binary, map_stack, process_map_memory_returns
<1> QED BY <1>1, <1>2, PagingInvariant, PTL DEF Spec, ImplementsFlat, Flat!Spec
=============================================================================
