------------------------ MODULE FirmwareUpdateProofs ------------------------
(***************************************************************************)
(* Proofs about FirmwareUpdate where one task updates, for every size of   *)
(* sectors, slots, headers and chunks: the device always boots from an     *)
(* image that was checked, and what the controller counts, the engine      *)
(* counts and the sector cache writes stay together.                       *)
(*                                                                         *)
(* (With two tasks this is false: END of one closes the session of the     *)
(* other between its request and the engine's turn.)                       *)
(***************************************************************************)
EXTENDS FirmwareUpdate, FiniteSetTheorems, TLAPS

-----------------------------------------------------------------------------
(***************************************************************************)
(* The inductive invariant.                                                *)
(***************************************************************************)
State == {"BUSY", "COMPLETE", "IO", "SIGNATURE", "MEM", "CRC"}
Status == {"none", "IDLE", "SUCCESS", "FAILED", "IO", "SIGNATURE", "MEM", "CRC"}
Place == {"idle", "handle", "write", "verify", "erase", "footer", "complete"}

FwSet ==
    [busy : BOOLEAN, sid : {0, 1}, state : SUBSET State, received : Nat, total : Nat,
     updated : Nat, base : Nat, offset : Nat, dest : {"firmware", "data"}]

Typed ==
    /\ ota \in [offset : 0 .. Word - 1, total : TotalLens \cup {0}]
    /\ gsid \in {0, 1}
    /\ fw \in FwSet
    /\ started \in {0, 1}
    /\ task \in [Tasks -> [pc : {"idle", "request", "start", "wait"},
                           len : 0 .. MaxChunk, status : Status]]
    /\ engine \in [pc : Place, cur : Tasks \cup {NoTask}, next : Tasks \cup {NoTask},
                   left : 0 .. MaxChunk]
    /\ cache \in [on : BOOLEAN, sector : Nat, fill : 0 .. SectorSize - 1]
    /\ footer \in 0 .. 3
    /\ good \subseteq {1, 2}
    /\ ack \in [of : {"none", "begin", "error", "chunk", "end"}, done : BOOLEAN, gap : BOOLEAN]

\* The request of the one task t goes from tls_fwup_request_sync into the list,
\* to the engine and back.
Turn(t) ==
    /\ "BUSY" \in fw.state <=> engine.pc # "idle"
    /\ engine.pc = "idle" => engine = Resting
    /\ engine.pc # "idle" => engine.cur = t /\ engine.next = NoTask
    /\ \/ /\ list = <<>> /\ started = 0 /\ engine.pc = "idle"
          /\ \/ task[t].pc = "idle"
             \/ task[t].pc = "request" /\ task[t].status = "IDLE"
             \/ task[t].pc = "wait" /\ task[t].status # "IDLE"
       \/ /\ list = <<t>> /\ task[t].status = "IDLE"
          /\ \/ task[t].pc = "start" /\ started = 0 /\ engine.pc = "idle"
             \/ task[t].pc = "wait" /\ started = 1 /\ engine.pc = "idle"
             \/ task[t].pc = "wait" /\ started = 0 /\ engine.pc # "idle"

\* The engine has a session as long as it has a request.
Session(t) ==
    /\ fw.busy => fw.sid = 1
    /\ ~fw.busy => fw = Cleared(FALSE, 0)
    /\ ~fw.busy /\ gsid = 0 => ota.offset = 0 /\ task[t].pc = "idle"
    /\ list # <<>> => fw.busy /\ gsid = 1

\* A request with less than a header restarts the device, so that a session that
\* goes on has all of the header, or nothing.
HasHeader == fw.received >= HdrLen

AtEnd == {"verify", "erase", "footer", "complete"}

Progress ==
    /\ ~HasHeader => fw.received = 0 /\ fw.updated = 0 /\ fw.total = 0 /\ fw.offset = 0
    /\ HasHeader => fw.total \in FileLens /\ fw.offset = fw.updated
    /\ HasHeader /\ engine.pc \in {"idle", "handle"} => fw.updated < fw.total
    /\ engine.pc = "write" => /\ HasHeader /\ engine.left > 0
                              /\ fw.updated < fw.total \/ fw.updated = 0
    /\ engine.pc \in AtEnd => HasHeader /\ fw.updated >= fw.total
    /\ engine.pc \in {"erase", "footer"} => fw.dest = "firmware"
    /\ engine.pc \in {"write"} \cup AtEnd => ~Ended

\* Data goes to the slot the device does not boot from, or behind the slots.
Aim ==
    \/ fw.dest = "firmware" /\ fw.base = SlotBase(TargetSlot)
    \/ fw.dest = "data" /\ fw.base = DataSector * SectorSize

Aimed ==
    /\ HasHeader /\ engine.pc \notin {"footer", "complete"} => Aim
    /\ engine.pc = "erase" => TargetSlot \in good
    /\ engine.pc = "footer" => \E s \in good : fw.base = SlotBase(s)

\* The sectors that may be written to.
Loose == SectorsOf(TargetSlot) \cup {s \in Nat : s >= DataSector}

\* The bytes in the cache are no more than those of its sector that came before
\* the next one, except in the first sector, where a session given up can have
\* left more.
Level(pos) ==
    cache.fill # 0 /\ cache.sector = pos \div SectorSize =>
        cache.fill <= pos % SectorSize \/ cache.sector = fw.base \div SectorSize

CacheSafe ==
    /\ engine.pc \notin {"footer", "complete"} /\ cache.fill # 0 => cache.sector \in Loose
    /\ engine.pc = "write" => cache.sector \in Loose
    /\ fw.busy /\ engine.pc \notin AtEnd => cache.on
    /\ HasHeader /\ engine.pc \in {"idle", "handle"} => Level(fw.base + fw.offset)
    /\ engine.pc = "write" => Level(fw.base + fw.offset + engine.left)

\* What the controller has counted and what the engine has.
Agreed == fw.busy /\ gsid = fw.sid /\ ~Ended /\ ~ack.gap
Taken(t) == engine.pc = "write" \/ (list = <<>> /\ task[t].pc = "wait")

Offsets(t) ==
    /\ ota.offset <= ota.total
    /\ task[t].pc # "idle" => (ota.offset + task[t].len) % Word <= ota.total
    /\ Agreed =>
          /\ task[t].pc = "idle" /\ ota.offset # 0 => fw.received = ota.offset
          /\ task[t].pc # "idle" /\ ~Taken(t) /\ engine.pc \notin AtEnd =>
                fw.received = ota.offset
          /\ Taken(t) => fw.received = ota.offset + task[t].len
    /\ HasHeader /\ ~Ended =>
          fw.received = HdrLen + fw.updated + (IF engine.pc = "write" THEN engine.left ELSE 0)

IInv(t) ==
    /\ Typed /\ BootSafe /\ Progress /\ Aimed /\ CacheSafe
    /\ engine.pc = "footer" => footer = 0
    /\ Turn(t) /\ Session(t) /\ Offsets(t)

-----------------------------------------------------------------------------
(***************************************************************************)
(* Sectors and addresses.                                                  *)
(***************************************************************************)
\* Products grow with their factors.
LEMMA Larger ==
    ASSUME NEW a \in Nat, NEW b \in Nat, NEW m \in Nat, a <= b
    PROVE  a * m \in Nat /\ b * m \in Nat /\ a * m <= b * m
<1>1. b = a + (b - a) /\ b - a \in Nat
  OBVIOUS
<1>2. (b - a) * m \in Nat /\ a * m \in Nat
  OBVIOUS
<1>3. b * m = a * m + (b - a) * m
  BY <1>1
<1> QED BY <1>2, <1>3

\* The sector of an address and the place in it.
LEMMA Divided ==
    ASSUME NEW a \in Nat
    PROVE  /\ a \div SectorSize \in Nat
           /\ a % SectorSize \in 0 .. SectorSize - 1
           /\ a = (a \div SectorSize) * SectorSize + (a % SectorSize)
<1>1. SectorSize \in Nat \ {0}
  BY Sizes
<1> QED BY <1>1

\* They are unique.
LEMMA DividedOnce ==
    ASSUME NEW k \in Nat, NEW r \in 0 .. SectorSize - 1
    PROVE  /\ (k * SectorSize + r) \div SectorSize = k
           /\ (k * SectorSize + r) % SectorSize = r
<1> DEFINE a == k * SectorSize + r
           d == a \div SectorSize
           e == a % SectorSize
<1>1. SectorSize \in Nat \ {0} /\ k * SectorSize \in Nat /\ a \in Nat
  BY Sizes
<1>2. d \in Nat /\ e \in 0 .. SectorSize - 1 /\ a = d * SectorSize + e
  BY <1>1, Divided
<1> HIDE DEF d, e
<1>3. ~(d < k)
  <2>1. SUFFICES ASSUME d < k PROVE FALSE
    OBVIOUS
  <2>2. (d + 1) * SectorSize <= k * SectorSize
    BY <1>1, <1>2, <2>1, Larger
  <2>3. (d + 1) * SectorSize = d * SectorSize + SectorSize
    BY <1>1, <1>2
  <2> QED BY <1>1, <1>2, <2>2, <2>3
<1>4. ~(k < d)
  <2>1. SUFFICES ASSUME k < d PROVE FALSE
    OBVIOUS
  <2>2. (k + 1) * SectorSize <= d * SectorSize
    BY <1>1, <1>2, <2>1, Larger
  <2>3. (k + 1) * SectorSize = k * SectorSize + SectorSize
    BY <1>1
  <2> QED BY <1>1, <1>2, <2>2, <2>3
<1>5. d = k
  BY <1>2, <1>3, <1>4
<1>6. e = r
  BY <1>1, <1>2, <1>5
<1> QED BY <1>5, <1>6 DEF d, e

\* The sectors of two slots and those behind them are apart, and so are their
\* addresses.
LEMMA Areas ==
    /\ SlotSector(1) \in Nat /\ SlotSector(2) \in Nat /\ DataSector \in Nat
    /\ SlotSector(1) = 1 /\ SlotSector(2) = 1 + SlotSectors
    /\ DataSector = 1 + SlotSectors + SlotSectors
<1>1. /\ (1 - 1) * SlotSectors = 0 /\ (2 - 1) * SlotSectors = SlotSectors
      /\ (3 - 1) * SlotSectors = SlotSectors + SlotSectors
  BY Sizes
<1> QED BY <1>1, Sizes DEF SlotSector, DataSector

LEMMA LooseOK ==
    ASSUME footer \in {1, 2}
    PROVE  /\ Loose \subseteq Nat
           /\ 0 \notin Loose
           /\ Loose \cap SectorsOf(footer) = {}
<1>1. SlotSectors \in Nat \ {0}
  BY Sizes
<1>2. \A s \in Loose : s \in Nat /\ s # 0 /\ s \notin SectorsOf(footer)
  BY <1>1, Areas DEF Loose, SectorsOf, TargetSlot
<1> QED BY <1>2

\* An address of a slot or behind the slots is that of one of the three.
LEMMA BasesOK ==
    /\ SlotBase(1) \in Nat \ {0} /\ SlotBase(2) \in Nat \ {0}
    /\ DataSector * SectorSize \in Nat \ {0}
    /\ SlotBase(1) # SlotBase(2)
    /\ DataSector * SectorSize \notin {SlotBase(1), SlotBase(2)}
<1>1. SectorSize \in Nat \ {0} /\ SlotSectors \in Nat \ {0}
  BY Sizes
<1> DEFINE p == SlotSectors * SectorSize
<1>2. p \in Nat /\ SectorSize <= p
  BY <1>1, Larger, 1 * SectorSize = SectorSize
<1>3. /\ SlotBase(1) = SectorSize
      /\ SlotBase(2) = SectorSize + p
      /\ DataSector * SectorSize = SectorSize + p + p
  BY <1>1, Areas DEF SlotBase
<1> HIDE DEF p
<1> QED BY <1>1, <1>2, <1>3

\* The sector of the byte at offset n from the beginning of the sector k.
LEMMA SectorAt ==
    ASSUME NEW k \in Nat, NEW n \in Nat
    PROVE  /\ (k * SectorSize + n) \div SectorSize = k + (n \div SectorSize)
           /\ (k * SectorSize + n) % SectorSize = n % SectorSize
<1> DEFINE d == n \div SectorSize
           e == n % SectorSize
<1>1. d \in Nat /\ e \in 0 .. SectorSize - 1 /\ n = d * SectorSize + e
  BY Divided
<1> HIDE DEF d, e
<1>2. k * SectorSize + n = (k + d) * SectorSize + e
  BY <1>1, Sizes
<1>3. k + d \in Nat
  BY <1>1
<1>4. /\ ((k + d) * SectorSize + e) \div SectorSize = k + d
      /\ ((k + d) * SectorSize + e) % SectorSize = e
  BY <1>1, <1>3, DividedOnce
<1> QED BY <1>2, <1>4 DEF d, e

\* In a slot the sector of an offset is one of the slot.
LEMMA SectorInSlot ==
    ASSUME NEW n \in Nat, n < SlotSectors * SectorSize
    PROVE  n \div SectorSize < SlotSectors
<1> DEFINE d == n \div SectorSize
<1>1. d \in Nat /\ d * SectorSize <= n
  BY Divided, Sizes
<1> HIDE DEF d
<1>2. SUFFICES ASSUME SlotSectors <= d PROVE FALSE
  BY <1>1, Sizes DEF d
<1>3. SlotSectors * SectorSize <= d * SectorSize
  BY <1>1, <1>2, Larger, Sizes
<1> QED BY <1>1, <1>3, Sizes

\* Where the write of n bytes at offset q ends.
LEMMA NextSector ==
    ASSUME NEW q \in Nat, NEW n \in 1 .. SectorSize
    PROVE  IF (q % SectorSize) + n < SectorSize
           THEN /\ (q + n) \div SectorSize = q \div SectorSize
                /\ (q + n) % SectorSize = (q % SectorSize) + n
           ELSE /\ (q + n) \div SectorSize = (q \div SectorSize) + 1
                /\ (q + n) % SectorSize = (q % SectorSize) + n - SectorSize
<1> DEFINE d == q \div SectorSize
           e == q % SectorSize
<1>1. d \in Nat /\ e \in 0 .. SectorSize - 1 /\ q = d * SectorSize + e
  BY Divided
<1> HIDE DEF d, e
<1>2. SectorSize \in Nat /\ n \in Nat
  BY Sizes
<1>3. CASE e + n < SectorSize
  <2>1. q + n = d * SectorSize + (e + n) /\ e + n \in 0 .. SectorSize - 1
    BY <1>1, <1>2, <1>3
  <2>2. (q + n) \div SectorSize = d /\ (q + n) % SectorSize = e + n
    BY <1>1, <2>1, DividedOnce
  <2> QED BY <1>3, <2>2 DEF d, e
<1>4. CASE ~(e + n < SectorSize)
  <2>1. q + n = (d + 1) * SectorSize + (e + n - SectorSize)
    BY <1>1, <1>2
  <2>2. e + n - SectorSize \in 0 .. SectorSize - 1 /\ d + 1 \in Nat
    BY <1>1, <1>2, <1>4
  <2>3. /\ (q + n) \div SectorSize = d + 1
        /\ (q + n) % SectorSize = e + n - SectorSize
    BY <2>1, <2>2, DividedOnce
  <2> QED BY <1>4, <2>3 DEF d, e
<1> QED BY <1>3, <1>4

-----------------------------------------------------------------------------
(***************************************************************************)
(* The sector cache.                                                       *)
(***************************************************************************)
CacheSet == [on : BOOLEAN, sector : Nat, fill : 0 .. SectorSize - 1]
TouchSet == [on : BOOLEAN, sector : Nat, fill : Nat, touched : SUBSET Nat]

LEMMA FlushOK ==
    ASSUME NEW c \in TouchSet
    PROVE  /\ Flush(c) \in TouchSet
           /\ Flush(c).on = c.on
           /\ Flush(c).sector = c.sector
           /\ Flush(c).fill = 0
           /\ Flush(c).touched = c.touched \cup {c.sector}
BY DEF Flush, TouchSet

LEMMA CacheBytesOK ==
    ASSUME NEW c \in TouchSet, NEW n \in Nat, NEW b, b = CacheBytes(c, n)
    PROVE  /\ b \in TouchSet
           /\ b.on = c.on
           /\ IF c.fill + n >= SectorSize
              THEN b.sector = c.sector + 1 /\ b.fill = 0 /\ b.touched = c.touched \cup {c.sector}
              ELSE b.sector = c.sector /\ b.fill = c.fill + n /\ b.touched = c.touched
<1>1. CASE c.fill + n >= SectorSize
  <2>1. PICK d : d = Flush(c)
    OBVIOUS
  <2>2. /\ d \in TouchSet /\ d.on = c.on /\ d.sector = c.sector /\ d.fill = 0
        /\ d.touched = c.touched \cup {c.sector}
    BY <2>1, FlushOK
  <2>3. b = [d EXCEPT !.sector = d.sector + 1]
    BY <1>1, <2>1 DEF CacheBytes
  <2> QED BY <1>1, <2>2, <2>3 DEF TouchSet
<1>2. CASE ~(c.fill + n >= SectorSize)
  <2>1. b = [c EXCEPT !.fill = c.fill + n]
    BY <1>2 DEF CacheBytes
  <2> QED BY <1>2, <2>1 DEF TouchSet
<1> QED BY <1>1, <1>2

\* The two pieces of a write of n bytes at the place r of the sector of c0.
LEMMA PiecesOK ==
    ASSUME NEW r \in 0 .. SectorSize - 1, NEW n \in 1 .. SectorSize, NEW start \in BOOLEAN,
           NEW first, first = IF n > SectorSize - r THEN SectorSize - r ELSE n,
           NEW c0 \in TouchSet, c0.fill < SectorSize, c0.fill <= r \/ start,
           NEW c1, c1 = CacheBytes(c0, first),
           NEW c, c = IF n > first THEN CacheBytes(c1, n - first) ELSE c1
    PROVE  /\ c.on = c0.on
           /\ c.sector \in {c0.sector, c0.sector + 1}
           /\ c.sector = c0.sector + 1 => start \/ r + n >= SectorSize
           /\ c.fill \in 0 .. SectorSize - 1
           /\ c.touched \subseteq {c0.sector} \cup c0.touched
           /\ c.fill # 0 => IF r + n < SectorSize
                            THEN c.sector = c0.sector => c.fill <= r + n \/ start
                            ELSE c.sector = c0.sector + 1 => c.fill <= r + n - SectorSize
<1>1. /\ SectorSize \in Nat \ {0} /\ first \in Nat
      /\ c0.sector \in Nat /\ c0.fill \in Nat
  BY Sizes DEF TouchSet
<1>2. /\ c1 \in TouchSet /\ c1.on = c0.on
      /\ IF c0.fill + first >= SectorSize
         THEN c1.sector = c0.sector + 1 /\ c1.fill = 0 /\ c1.touched = c0.touched \cup {c0.sector}
         ELSE c1.sector = c0.sector /\ c1.fill = c0.fill + first /\ c1.touched = c0.touched
  <2>1. PICK m \in Nat : m = first
    BY <1>1
  <2>2. c1 = CacheBytes(c0, m)
    BY <2>1
  <2>3. /\ c1 \in TouchSet /\ c1.on = c0.on
        /\ IF c0.fill + m >= SectorSize
           THEN c1.sector = c0.sector + 1 /\ c1.fill = 0 /\ c1.touched = c0.touched \cup {c0.sector}
           ELSE c1.sector = c0.sector /\ c1.fill = c0.fill + m /\ c1.touched = c0.touched
    BY <2>2, CacheBytesOK
  <2> QED BY <2>1, <2>3
<1>3. CASE n <= SectorSize - r
  <2>1. c = c1 /\ first = n
    BY <1>1, <1>3
  <2> QED BY <1>1, <1>2, <1>3, <2>1
<1>4. CASE ~(n <= SectorSize - r)
  <2>1. PICK m \in 1 .. SectorSize - 1 : m = n - (SectorSize - r)
    BY <1>1, <1>4
  <2>2. /\ c = CacheBytes(c1, m) /\ first = SectorSize - r /\ r + n = SectorSize + m
        /\ m \in Nat /\ m < SectorSize
    BY <1>1, <1>4, <2>1
  <2>3. /\ c.on = c1.on
        /\ IF c1.fill + m >= SectorSize
           THEN c.sector = c1.sector + 1 /\ c.fill = 0 /\ c.touched = c1.touched \cup {c1.sector}
           ELSE c.sector = c1.sector /\ c.fill = c1.fill + m /\ c.touched = c1.touched
    BY <1>2, <2>2, CacheBytesOK
  <2>4. CASE c0.fill + first >= SectorSize
    BY <1>1, <1>2, <2>2, <2>3, <2>4
  <2>5. CASE ~(c0.fill + first >= SectorSize)
    BY <1>1, <1>2, <2>2, <2>3, <2>5
  <2> QED BY <2>4, <2>5
<1> QED BY <1>3, <1>4

\* n bytes are written to the address a, at offset q from the sector lo on.  The
\* offset is in the sector sec, where they end in the sector new, and no more is
\* cached of sec than what is before the offset, but in the first sector.
WriteAt(lo, q, n, a, sec, new) ==
    /\ a = lo * SectorSize + q
    /\ sec = lo + (q \div SectorSize)
    /\ new = lo + ((q + n) \div SectorSize)
    /\ cache.fill # 0 /\ cache.sector = sec => cache.fill <= q % SectorSize \/ sec = lo

\* tls_fls_fast_write touches no sector but that of the offset and the one that was
\* cached, and goes on to the next sector no earlier than the bytes do, but in the
\* first sector.
LEMMA FastWriteOK ==
    ASSUME NEW lo \in Nat, NEW q \in Nat, NEW n \in 1 .. MaxChunk, cache \in CacheSet,
           NEW a, NEW sec, NEW new, WriteAt(lo, q, n, a, sec, new), NEW c, c = FastWrite(a, n)
    PROVE  /\ c.on = cache.on
           /\ c.sector \in {sec, sec + 1}
           /\ c.sector = sec + 1 => sec = lo \/ new = sec + 1
           /\ c.fill \in 0 .. SectorSize - 1
           /\ c.touched \subseteq {sec} \cup (IF cache.fill # 0 THEN {cache.sector} ELSE {})
           /\ c.fill # 0 /\ c.sector = new => c.fill <= (q + n) % SectorSize \/ new = lo
<1>1. PICK r \in 0 .. SectorSize - 1, e \in Int :
        /\ r = q % SectorSize /\ e = (q + n) % SectorSize
        /\ a \div SectorSize = sec
        /\ a % SectorSize = r
        /\ IF r + n < SectorSize THEN new = sec /\ e = r + n
                                 ELSE new = sec + 1 /\ e = r + n - SectorSize
  <2> DEFINE r == q % SectorSize
             d == q \div SectorSize
  <2>1. n \in 1 .. SectorSize
    BY Sizes
  <2>2. r \in 0 .. SectorSize - 1 /\ d \in Nat
    BY Divided
  <2>3. /\ a \div SectorSize = sec
        /\ a % SectorSize = r
    BY SectorAt DEF WriteAt
  <2>4. IF r + n < SectorSize
        THEN (q + n) \div SectorSize = d /\ (q + n) % SectorSize = r + n
        ELSE (q + n) \div SectorSize = d + 1 /\ (q + n) % SectorSize = r + n - SectorSize
    BY <2>1, NextSector
  <2> DEFINE d1 == (q + n) \div SectorSize
             r1 == (q + n) % SectorSize
  <2>5. sec = lo + d /\ new = lo + d1
    BY DEF WriteAt
  <2> HIDE DEF r, d, d1, r1
  <2>6. IF r + n < SectorSize THEN d1 = d /\ r1 = r + n
                              ELSE d1 = d + 1 /\ r1 = r + n - SectorSize
    BY <2>4 DEF r, d, d1, r1
  <2>7. IF r + n < SectorSize THEN new = sec /\ r1 = r + n
                              ELSE new = sec + 1 /\ r1 = r + n - SectorSize
    BY <2>2, <2>5, <2>6
  <2>8. (q + n) % SectorSize = r1 /\ q % SectorSize = r
    BY DEF r, r1
  <2>9. r1 \in Int
    BY <2>1, <2>2, <2>7, Sizes
  <2> QED BY <2>2, <2>3, <2>7, <2>8, <2>9
<1>2. sec \in Nat /\ n \in 1 .. SectorSize
  <2>1. q \div SectorSize \in Nat
    BY Divided
  <2>2. n \in 1 .. SectorSize
    BY Sizes
  <2> QED BY <2>1, <2>2 DEF WriteAt
<1>3. cache.fill # 0 /\ cache.sector = sec => cache.fill <= r \/ sec = lo
  BY <1>1 DEF WriteAt
<1> DEFINE t == IF cache.fill # 0 THEN {cache.sector} ELSE {}
<1>4. PICK fl : fl = IF cache.sector # sec /\ cache.fill # 0 THEN Flush(Untouched) ELSE Untouched
  OBVIOUS
<1>5. PICK c0 : c0 = [fl EXCEPT !.sector = sec]
  OBVIOUS
<1>6. PICK first, c1 :
        /\ first = IF n > SectorSize - r THEN SectorSize - r ELSE n
        /\ c1 = CacheBytes(c0, first)
  OBVIOUS
<1>7. c = IF n > first THEN CacheBytes(c1, n - first) ELSE c1
  BY <1>1, <1>4, <1>5, <1>6 DEF FastWrite
<1>8. /\ c0 \in TouchSet /\ c0.on = cache.on /\ c0.sector = sec
      /\ c0.fill < SectorSize /\ (c0.fill <= r \/ sec = lo)
      /\ c0.touched \subseteq t
  <2>1. /\ Untouched \in TouchSet /\ Untouched.on = cache.on
        /\ Untouched.sector = cache.sector /\ Untouched.fill = cache.fill
        /\ Untouched.touched = {}
    BY Sizes DEF Untouched, TouchSet, CacheSet
  <2>2. /\ fl \in TouchSet /\ fl.on = cache.on
        /\ fl.fill < SectorSize /\ (fl.fill <= r \/ sec = lo)
        /\ fl.touched \subseteq t
    <3>1. CASE cache.sector # sec /\ cache.fill # 0
      <4>1. fl = Flush(Untouched)
        BY <1>4, <3>1
      <4>2. /\ fl \in TouchSet /\ fl.on = cache.on /\ fl.fill = 0
            /\ fl.touched = {} \cup {cache.sector}
        BY <2>1, <4>1, FlushOK
      <4>3. 0 <= r /\ 0 < SectorSize
        BY <1>1, Sizes
      <4> QED BY <3>1, <4>2, <4>3
    <3>2. CASE ~(cache.sector # sec /\ cache.fill # 0)
      <4>1. fl = Untouched
        BY <1>4, <3>2
      <4>2. cache.fill \in 0 .. SectorSize - 1
        BY DEF CacheSet
      <4>3. cache.fill < SectorSize /\ (cache.fill <= r \/ sec = lo)
        BY <1>1, <1>3, <3>2, <4>2, Sizes
      <4> QED BY <2>1, <4>1, <4>3
    <3> QED BY <3>1, <3>2
  <2> QED BY <1>2, <1>5, <2>2 DEF TouchSet
<1>9. /\ c.on = cache.on
      /\ c.sector \in {sec, sec + 1}
      /\ c.sector = sec + 1 => sec = lo \/ r + n >= SectorSize
      /\ c.fill \in 0 .. SectorSize - 1
      /\ c.touched \subseteq {sec} \cup t
      /\ c.fill # 0 => IF r + n < SectorSize
                       THEN c.sector = sec => c.fill <= r + n \/ sec = lo
                       ELSE c.sector = sec + 1 => c.fill <= r + n - SectorSize
  <2>1. PICK start \in BOOLEAN : start <=> sec = lo
    OBVIOUS
  <2>2. /\ c.on = c0.on
        /\ c.sector \in {c0.sector, c0.sector + 1}
        /\ c.sector = c0.sector + 1 => start \/ r + n >= SectorSize
        /\ c.fill \in 0 .. SectorSize - 1
        /\ c.touched \subseteq {c0.sector} \cup c0.touched
        /\ c.fill # 0 => IF r + n < SectorSize
                         THEN c.sector = c0.sector => c.fill <= r + n \/ start
                         ELSE c.sector = c0.sector + 1 => c.fill <= r + n - SectorSize
    <3> HIDE DEF t
    <3> QED BY <1>1, <1>2, <1>6, <1>7, <1>8, <2>1, PiecesOK
  <2> HIDE DEF t
  <2> QED BY <1>8, <2>1, <2>2
<1>10. (q + n) % SectorSize = e
  BY <1>1
<1>11. c.sector = sec + 1 => sec = lo \/ new = sec + 1
  BY <1>1, <1>2, <1>9, Sizes
<1>12. c.fill # 0 /\ c.sector = new => c.fill <= e \/ new = lo
  BY <1>1, <1>2, <1>9, Sizes
<1> QED BY <1>9, <1>10, <1>11, <1>12

-----------------------------------------------------------------------------
(***************************************************************************)
(* A restart, and the end of the engine's turn with a request.             *)
(***************************************************************************)

\* A restart leaves an image that was checked, or no footer.
LEMMA RestartedOK ==
    ASSUME NEW t, Tasks = {t}, Restarted, good' \subseteq {1, 2},
           footer' \in good' \/ footer' = 0
    PROVE  IInv(t)'
<1>1. /\ ota' = [offset |-> 0, total |-> 0] /\ gsid' = 0 /\ fw' = Cleared(FALSE, 0)
      /\ list' = <<>> /\ started' = 0 /\ task'[t] = Idle
      /\ task' = [u \in Tasks |-> Idle] /\ engine' = Resting /\ cache' = NoCache
      /\ ack' = [of |-> "none", done |-> TRUE, gap |-> FALSE]
  BY DEF Restarted
<1>2. 0 \in Nat /\ 0 \in 0 .. Word - 1 /\ 0 \in 0 .. MaxChunk /\ 0 \in 0 .. SectorSize - 1
  BY Sizes
<1>3. Typed'
  <2>1. fw' \in FwSet
    BY <1>1 DEF FwSet, State, Cleared
  <2>2. engine' \in [pc : Place, cur : Tasks \cup {NoTask}, next : Tasks \cup {NoTask},
                     left : 0 .. MaxChunk]
    BY <1>1, <1>2 DEF Resting, Place
  <2>3. task' \in [Tasks -> [pc : {"idle", "request", "start", "wait"},
                             len : 0 .. MaxChunk, status : Status]]
    BY <1>1, <1>2 DEF Idle, Status
  <2>4. cache' \in [on : BOOLEAN, sector : Nat, fill : 0 .. SectorSize - 1]
    BY <1>1, <1>2 DEF NoCache
  <2>5. ota' \in [offset : 0 .. Word - 1, total : TotalLens \cup {0}]
    BY <1>1, <1>2
  <2>6. footer' \in 0 .. 3
    <3>1. \A s \in {1, 2} : s \in 0 .. 3
      OBVIOUS
    <3>2. 0 \in 0 .. 3
      OBVIOUS
    <3> QED BY <3>1, <3>2
  <2>7. gsid' \in {0, 1} /\ started' \in {0, 1}
    BY <1>1
  <2>8. ack' \in [of : {"none", "begin", "error", "chunk", "end"}, done : BOOLEAN, gap : BOOLEAN]
    BY <1>1
  <2> QED BY <2>1, <2>2, <2>3, <2>4, <2>5, <2>6, <2>7, <2>8 DEF Typed
<1>4. /\ engine'.pc = "idle" /\ cache'.fill = 0 /\ fw'.state = {} /\ fw'.busy = FALSE
      /\ fw'.received = 0 /\ fw'.total = 0 /\ fw'.updated = 0 /\ fw'.offset = 0
      /\ task'[t].pc = "idle" /\ ota'.offset = 0 /\ ota'.total = 0
  BY <1>1 DEF Resting, NoCache, Cleared, Idle
<1>5. ~HasHeader'
  BY <1>4, Sizes DEF HasHeader
<1>6. BootSafe'
  BY <1>1 DEF BootSafe, Cleared
<1>7. Progress'
  BY <1>4, <1>5 DEF Progress, AtEnd
<1>8. Aimed'
  BY <1>4, <1>5 DEF Aimed
<1>9. CacheSafe'
  BY <1>4, <1>5 DEF CacheSafe
<1>10. Turn(t)'
  BY <1>1, <1>4 DEF Turn
<1>11. Session(t)'
  BY <1>1, <1>4 DEF Session, Cleared
<1>12. Offsets(t)'
  BY <1>4, <1>5 DEF Offsets, Agreed
<1> QED BY <1>3, <1>4, <1>6, <1>7, <1>8, <1>9, <1>10, <1>11, <1>12 DEF IInv

\* Nothing was flashed.
LEMMA UntouchedOK ==
    ASSUME Typed
    PROVE  /\ Flashed(Untouched) => UNCHANGED flash
           /\ Cached(Untouched) => UNCHANGED cache
<1>1. Untouched.touched = {} /\ Untouched.on = cache.on
      /\ Untouched.sector = cache.sector /\ Untouched.fill = cache.fill
  BY DEF Untouched
<1>2. Flashed(Untouched) => good' = good /\ footer' = footer
  BY <1>1 DEF Flashed
<1>3. Cached(Untouched) => cache' = [on |-> cache.on, sector |-> cache.sector, fill |-> cache.fill]
  BY <1>1 DEF Cached
<1>4. cache = [on |-> cache.on, sector |-> cache.sector, fill |-> cache.fill]
  BY DEF Typed
<1> QED BY <1>2, <1>3, <1>4 DEF flash

\* The engine has a request: that of the task, whose session is open.
LEMMA Handling ==
    ASSUME NEW t, IInv(t), engine.pc # "idle"
    PROVE  /\ engine.cur = t /\ engine.next = NoTask /\ list = <<t>>
           /\ task[t].pc = "wait" /\ started = 0 /\ task[t].status = "IDLE"
           /\ fw.busy /\ fw.sid = 1 /\ gsid = 1 /\ "BUSY" \in fw.state
<1>1. /\ engine.cur = t /\ engine.next = NoTask /\ list = <<t>>
      /\ task[t].pc = "wait" /\ started = 0 /\ task[t].status = "IDLE"
      /\ "BUSY" \in fw.state
  BY DEF IInv, Turn
<1>2. fw.busy /\ fw.sid = 1 /\ gsid = 1
  BY <1>1 DEF IInv, Session
<1> QED BY <1>1, <1>2

\* As long as the engine has a request that is not about the footer, the device
\* has an image to boot from.
LEMMA Bootable ==
    ASSUME NEW t, IInv(t), engine.pc \notin {"idle", "footer"}
    PROVE  footer \in good /\ footer \in {1, 2}
<1>1. fw.busy
  BY DEF IInv, Turn, Session
<1>2. Cleared(FALSE, 0).busy = FALSE
  BY DEF Cleared
<1>3. footer \in good
  BY <1>1, <1>2 DEF IInv, BootSafe
<1> QED BY <1>3 DEF IInv, Typed

\* The only request leaves the list.
LEMMA RemoveOnly ==
    ASSUME NEW t
    PROVE  RemoveFirst(<<t>>, t) = <<>>
<1>1. Len(<<t>>) = 1 /\ <<t>>[1] = t /\ 1 .. 1 = {1}
  OBVIOUS
<1>2. SelectInSeq(<<t>>, LAMBDA v : v = t) = 1
  <2>1. {i \in 1 .. Len(<<t>>) : <<t>>[i] = t} = {1}
    BY <1>1
  <2> QED BY <2>1 DEF SelectInSeq, Min
<1>3. RemoveFirst(<<t>>, t) = RemoveAt(<<t>>, 1)
  BY <1>1, <1>2 DEF RemoveFirst
<1>4. RemoveAt(<<t>>, 1) = SubSeq(<<t>>, 1, 1 - 1) \o SubSeq(<<t>>, 1 + 1, Len(<<t>>))
  BY DEF RemoveAt
<1> QED BY <1>1, <1>3, <1>4

Failures == {"IO", "SIGNATURE", "MEM", "CRC", "COMPLETE"}

\* The end of a turn with the engine's data f.
LEMMA FinishOK ==
    ASSUME NEW t, Tasks = {t}, IInv(t), engine.pc \notin {"idle", "footer"},
           NEW status \in Status \ {"none", "IDLE"}, NEW f \in FwSet, Finish(f, status, Untouched),
           f.busy = fw.busy, f.sid = fw.sid,
           f.updated < f.total =>
              /\ engine.pc \in {"handle", "write"}
              /\ f.received >= HdrLen /\ f.total \in FileLens /\ f.offset = f.updated
              /\ \/ f.dest = "firmware" /\ f.base = SlotBase(TargetSlot)
                 \/ f.dest = "data" /\ f.base = DataSector * SectorSize
              /\ cache.fill # 0 /\ cache.sector = (f.base + f.offset) \div SectorSize =>
                    \/ cache.fill <= (f.base + f.offset) % SectorSize
                    \/ cache.sector = f.base \div SectorSize
              /\ f.state \cap Failures = {} =>
                    /\ gsid = fw.sid /\ ~ack.gap => f.received = ota.offset + task[t].len
                    /\ f.received = HdrLen + f.updated
    PROVE  IInv(t)'
<1>1. UNCHANGED flash /\ footer \in good /\ footer \in {1, 2} /\ good \subseteq {1, 2}
  BY UntouchedOK, Bootable DEF IInv, Typed, Finish
<1>2. CASE f.updated >= f.total
  <2>1. Restarted
    BY <1>2 DEF Finish
  <2> QED BY <1>1, <2>1, RestartedOK DEF flash
<1>3. CASE ~(f.updated >= f.total)
  <2>1. f.updated < f.total
    BY <1>3 DEF FwSet
  <2>2. engine.cur = t /\ engine.next = NoTask /\ list = <<t>> /\ task[t].pc = "wait"
        /\ started = 0 /\ task[t].status = "IDLE"
    BY DEF IInv, Turn
  <2>3. RemoveFirst(list, engine.cur) = <<>>
    BY <2>2, RemoveOnly
  <2>4. /\ list' = <<>> /\ fw' = [f EXCEPT !.state = f.state \ {"BUSY"}]
        /\ task' = [task EXCEPT ![t].status = status] /\ engine' = Resting
        /\ UNCHANGED <<ota, gsid, started, ack, cache>>
    BY <1>3, <2>2, <2>3, UntouchedOK DEF Finish, NextTurn, IInv
  <2>5. /\ engine.pc \in {"handle", "write"}
        /\ f.received >= HdrLen /\ f.total \in FileLens /\ f.offset = f.updated
    BY <2>1
  <2>6. /\ fw'.busy = f.busy /\ fw'.sid = f.sid /\ fw'.state = f.state \ {"BUSY"}
        /\ fw'.received = f.received /\ fw'.total = f.total /\ fw'.updated = f.updated
        /\ fw'.base = f.base /\ fw'.offset = f.offset /\ fw'.dest = f.dest
        /\ fw' \in FwSet
    BY <2>4 DEF FwSet, State
  <2>7. /\ task' \in [Tasks -> [pc : {"idle", "request", "start", "wait"},
                                len : 0 .. MaxChunk, status : Status]]
        /\ task'[t].pc = "wait" /\ task'[t].len = task[t].len /\ task'[t].status = status
    BY <2>2, <2>4 DEF IInv, Typed
  <2>8. /\ engine' \in [pc : Place, cur : Tasks \cup {NoTask}, next : Tasks \cup {NoTask},
                        left : 0 .. MaxChunk]
        /\ engine'.pc = "idle"
    BY <2>4, Sizes DEF Resting, Place
  <2>9. TargetSlot' = TargetSlot /\ Loose' = Loose
    BY <1>1 DEF flash, TargetSlot, Loose
  <2>10. fw.busy /\ fw.sid = 1 /\ gsid = 1
    BY <2>2 DEF IInv, Session
  <2>11. HasHeader'
    BY <2>5, <2>6 DEF HasHeader
  <2>12. Typed'
    BY <1>1, <2>4, <2>6, <2>7, <2>8 DEF IInv, Typed, flash
  <2>13. BootSafe'
    BY <1>1 DEF BootSafe, flash
  <2>14. Progress'
    BY <2>1, <2>5, <2>6, <2>8, <2>11 DEF Progress, AtEnd
  <2>15. Aimed'
    BY <2>1, <2>6, <2>8, <2>9 DEF Aimed, Aim
  <2>16. CacheSafe'
    <3>1. cache.on /\ (cache.fill # 0 => cache.sector \in Loose)
      BY <2>5, <2>10 DEF IInv, CacheSafe, AtEnd
    <3>2. Level(fw.base + fw.offset)'
      BY <2>1, <2>4, <2>6 DEF Level
    <3> QED BY <2>4, <2>8, <2>9, <3>1, <3>2 DEF CacheSafe, AtEnd
  <2>17. Turn(t)'
    <3>1. /\ status # "IDLE" /\ "BUSY" \notin f.state \ {"BUSY"}
          /\ list' = <<>> /\ started' = 0 /\ engine' = Resting
      BY <2>2, <2>4
    <3> QED BY <2>6, <2>7, <2>8, <3>1 DEF Turn
  <2>18. Session(t)'
    BY <2>4, <2>6, <2>10 DEF Session
  <2>19. Offsets(t)'
    <3>1. /\ ota.offset <= ota.total
          /\ (ota.offset + task[t].len) % Word <= ota.total
      BY <2>2 DEF IInv, Offsets
    <3>2. ~Ended' => f.state \cap Failures = {}
      BY <2>6 DEF Ended, Failures
    <3>3. Agreed' => f.received = ota.offset + task[t].len
      BY <2>1, <2>4, <2>6, <2>10, <3>2 DEF Agreed
    <3>4. ~Ended' => f.received = HdrLen + f.updated
      BY <2>1, <3>2
    <3>5. f.received = HdrLen + f.updated => f.received = HdrLen + f.updated + 0
      BY Sizes DEF FwSet
    <3>6. Taken(t)'
      BY <2>4, <2>7 DEF Taken
    <3> QED BY <2>4, <2>6, <2>7, <2>8, <3>1, <3>3, <3>4, <3>5, <3>6 DEF Offsets
  <2> QED BY <2>8, <2>12, <2>13, <2>14, <2>15, <2>16, <2>17, <2>18, <2>19 DEF IInv
<1> QED BY <1>2, <1>3

\* The sectors of a write of n bytes at the offset q from the place that the data
\* goes to are among those that may be written to, and so is the one after the
\* first.
LEMMA InLoose ==
    ASSUME NEW lo \in {SlotSector(TargetSlot), DataSector}, NEW q \in Nat,
           q < SlotSectors * SectorSize
    PROVE  /\ lo \in Nat /\ lo \in Loose /\ lo + 1 \in Loose
           /\ lo + (q \div SectorSize) \in Loose
<1>1. SlotSectors \in Nat /\ SlotSectors >= 2
  BY Sizes
<1>2. q \div SectorSize \in Nat /\ q \div SectorSize < SlotSectors
  BY SectorInSlot, Divided
<1>3. lo \in Nat /\ \A k \in Nat : k < SlotSectors => lo + k \in Loose
  <2>1. CASE lo = DataSector
    BY <2>1, Areas DEF Loose
  <2>2. CASE lo = SlotSector(TargetSlot)
    <3>1. lo \in Nat
      BY <2>2, Areas DEF TargetSlot
    <3>2. \A k \in Nat : k < SlotSectors => lo + k \in lo .. lo + SlotSectors - 1
      BY <1>1, <3>1
    <3>3. lo .. lo + SlotSectors - 1 \subseteq Loose
      BY <2>2 DEF Loose, SectorsOf
    <3> QED BY <3>1, <3>2, <3>3
  <2> QED BY <2>1, <2>2
<1>4. lo + 0 \in Loose /\ lo + 1 \in Loose
  BY <1>1, <1>3
<1>5. lo + (q \div SectorSize) \in Loose
  BY <1>2, <1>3
<1> QED BY <1>3, <1>4, <1>5

\* What was flashed in sectors that may be written to leaves the footer and the
\* slot it names as they were.
LEMMA FlashedOK ==
    ASSUME NEW c, Flashed(c), c.touched \subseteq Loose, footer \in good, good \subseteq {1, 2}
    PROVE  footer' = footer /\ footer' \in good' /\ good' \subseteq good
<1>1. footer \in {1, 2}
  OBVIOUS
<1>2. 0 \notin c.touched /\ SectorsOf(footer) \cap c.touched = {}
  BY <1>1, LooseOK
<1> QED BY <1>2 DEF Flashed

\* Data goes to the cache.
LEMMA WriteOK ==
    ASSUME NEW t, Tasks = {t}, IInv(t), engine.pc = "handle",
           NEW f \in FwSet, NEW n \in 1 .. MaxChunk,
           fw' = f, engine' = [engine EXCEPT !.pc = "write", !.left = n],
           NEW c, c = FastWrite(f.base + f.offset, n), Flashed(c), Cached(c),
           UNCHANGED <<ota, gsid, list, started, task, ack>>,
           f.busy = fw.busy, f.sid = fw.sid, "BUSY" \in f.state, f.state \cap Failures = {},
           f.received >= HdrLen, f.total \in FileLens, f.offset = f.updated,
           f.updated < f.total \/ f.updated = 0,
           \/ f.dest = "firmware" /\ f.base = SlotBase(TargetSlot)
           \/ f.dest = "data" /\ f.base = DataSector * SectorSize,
           cache.fill # 0 /\ cache.sector = (f.base + f.offset) \div SectorSize =>
              \/ cache.fill <= (f.base + f.offset) % SectorSize
              \/ cache.sector = f.base \div SectorSize,
           gsid = fw.sid /\ ~ack.gap => f.received = ota.offset + task[t].len,
           f.received = HdrLen + f.updated + n
    PROVE  IInv(t)'
<1>1. footer \in good /\ footer \in {1, 2} /\ good \subseteq {1, 2}
  BY Bootable DEF IInv, Typed
<1>2. engine.cur = t /\ engine.next = NoTask /\ list = <<t>> /\ task[t].pc = "wait"
      /\ started = 0 /\ task[t].status = "IDLE" /\ fw.busy /\ fw.sid = 1 /\ gsid = 1
  BY Handling
<1>3. PICK lo \in {SlotSector(TargetSlot), DataSector} : f.base = lo * SectorSize
  BY DEF SlotBase
<1>4. /\ f.offset \in Nat /\ f.offset + n \in Nat /\ n \in Nat /\ SectorSize \in Nat \ {0}
      /\ f.offset + n < SlotSectors * SectorSize /\ f.offset < SlotSectors * SectorSize
  <2>1. /\ f.total \in Nat /\ f.total + MaxChunk < SlotSectors * SectorSize
        /\ SlotSectors * SectorSize \in Nat /\ MaxChunk \in Nat /\ SectorSize \in Nat \ {0}
    BY Sizes
  <2> QED BY <2>1 DEF FwSet
<1>5. lo \in Nat /\ lo \in Loose /\ lo + 1 \in Loose
      /\ lo + (f.offset \div SectorSize) \in Loose
      /\ lo + ((f.offset + n) \div SectorSize) \in Loose
  BY <1>4, InLoose
<1>6. /\ cache \in CacheSet /\ cache.on
      /\ cache.fill # 0 => cache.sector \in Loose
  BY <1>2 DEF IInv, Typed, CacheSet, CacheSafe, AtEnd
<1>7. PICK sec, new, p :
        /\ sec = lo + (f.offset \div SectorSize)
        /\ new = lo + ((f.offset + n) \div SectorSize)
        /\ p = lo * SectorSize + (f.offset + n)
        /\ p = f.base + f.offset + n
        /\ p \div SectorSize = new
        /\ p % SectorSize = (f.offset + n) % SectorSize
        /\ f.base \div SectorSize = lo
        /\ (f.base + f.offset) \div SectorSize = sec
        /\ (f.base + f.offset) % SectorSize = f.offset % SectorSize
        /\ f.base + f.offset = lo * SectorSize + f.offset
  <2>1. /\ (lo * SectorSize + (f.offset + n)) \div SectorSize
            = lo + ((f.offset + n) \div SectorSize)
        /\ (lo * SectorSize + (f.offset + n)) % SectorSize = (f.offset + n) % SectorSize
        /\ (lo * SectorSize + f.offset) \div SectorSize = lo + (f.offset \div SectorSize)
        /\ (lo * SectorSize + f.offset) % SectorSize = f.offset % SectorSize
    BY <1>4, <1>5, SectorAt
  <2>2. (lo * SectorSize + 0) \div SectorSize = lo
    BY <1>4, <1>5, DividedOnce
  <2>3. lo * SectorSize + (f.offset + n) = f.base + f.offset + n /\ lo * SectorSize + 0 = f.base
    BY <1>3, <1>4, <1>5
  <2> QED BY <1>3, <2>1, <2>2, <2>3
<1>8. /\ c.on = cache.on
      /\ c.sector \in {sec, sec + 1}
      /\ c.sector = sec + 1 => sec = lo \/ new = sec + 1
      /\ c.fill \in 0 .. SectorSize - 1
      /\ c.touched \subseteq {sec} \cup (IF cache.fill # 0 THEN {cache.sector} ELSE {})
      /\ c.fill # 0 /\ c.sector = new => c.fill <= (f.offset + n) % SectorSize \/ new = lo
  <2>1. PICK q, a : q = f.offset /\ a = f.base + f.offset
    OBVIOUS
  <2>2. WriteAt(lo, q, n, a, sec, new) /\ c = FastWrite(a, n)
    BY <1>7, <2>1 DEF WriteAt
  <2>3. lo \in Nat /\ q \in Nat /\ cache \in CacheSet
    BY <1>4, <1>5, <1>6, <2>1
  <2>4. /\ c.on = cache.on
        /\ c.sector \in {sec, sec + 1}
        /\ c.sector = sec + 1 => sec = lo \/ new = sec + 1
        /\ c.fill \in 0 .. SectorSize - 1
        /\ c.touched \subseteq {sec} \cup (IF cache.fill # 0 THEN {cache.sector} ELSE {})
        /\ c.fill # 0 /\ c.sector = new => c.fill <= (q + n) % SectorSize \/ new = lo
    BY ONLY <2>2, <2>3, n \in 1 .. MaxChunk, FastWriteOK
  <2> QED BY <2>1, <2>4
<1>9. c.touched \subseteq Loose /\ c.sector \in Loose
  <2>1. sec \in Loose /\ new \in Loose /\ lo + 1 \in Loose
    BY <1>5, <1>7
  <2> QED BY <1>6, <1>8, <2>1
<1>10. footer' = footer /\ footer' \in good' /\ good' \subseteq good
  BY <1>1, <1>9, FlashedOK
<1>11. /\ cache' = [on |-> c.on, sector |-> c.sector, fill |-> c.fill]
       /\ cache'.on = c.on /\ cache'.sector = c.sector /\ cache'.fill = c.fill
  BY DEF Cached
<1>12. /\ engine' \in [pc : Place, cur : Tasks \cup {NoTask}, next : Tasks \cup {NoTask},
                       left : 0 .. MaxChunk]
       /\ engine'.pc = "write" /\ engine'.left = n
       /\ engine'.cur = t /\ engine'.next = NoTask
  <2>1. n \in 0 .. MaxChunk
    BY Sizes
  <2> QED BY <1>2, <2>1 DEF IInv, Typed, Place
<1>13. TargetSlot' = TargetSlot /\ Loose' = Loose
  BY <1>10 DEF TargetSlot, Loose
<1>14. HasHeader'
  BY DEF HasHeader
<1>15. Typed'
  <2>1. cache' \in [on : BOOLEAN, sector : Nat, fill : 0 .. SectorSize - 1]
    <3>1. c.sector \in Nat
      BY <1>9, Areas, Sizes DEF Loose, SectorsOf, TargetSlot
    <3> QED BY <1>6, <1>8, <1>11, <3>1
  <2>2. footer' \in 0 .. 3 /\ good' \subseteq {1, 2}
    BY <1>1, <1>10 DEF IInv, Typed
  <2> QED BY <1>12, <2>1, <2>2 DEF IInv, Typed
<1>16. BootSafe'
  BY <1>10 DEF BootSafe
<1>17. Progress'
  BY <1>12, <1>14, Sizes DEF Progress, AtEnd, Ended, Failures
<1>18. Aimed'
  BY <1>12, <1>13 DEF Aimed, Aim
<1>19. CacheSafe'
  <2>1. c.fill # 0 /\ c.sector = p \div SectorSize =>
           c.fill <= p % SectorSize \/ c.sector = f.base \div SectorSize
    BY <1>7, <1>8
  <2>2. Level(fw.base + fw.offset + engine.left)'
    BY <1>7, <1>11, <1>12, <2>1 DEF Level
  <2> QED BY <1>6, <1>8, <1>9, <1>11, <1>12, <1>13, <2>2 DEF CacheSafe, AtEnd
<1>20. Turn(t)'
  BY <1>2, <1>12 DEF Turn
<1>21. Session(t)'
  BY <1>2 DEF Session
<1>22. Offsets(t)'
  <2>1. /\ ota.offset <= ota.total
        /\ (ota.offset + task[t].len) % Word <= ota.total
    BY <1>2 DEF IInv, Offsets
  <2>2. Taken(t)'
    BY <1>12 DEF Taken
  <2> QED BY <1>2, <1>12, <2>1, <2>2 DEF Offsets, Agreed
<1> QED BY <1>12, <1>15, <1>16, <1>17, <1>18, <1>19, <1>20, <1>21, <1>22 DEF IInv

-----------------------------------------------------------------------------
(***************************************************************************)
(* One lemma per action.                                                   *)
(***************************************************************************)

\* What is said of the engine, the cache and the flash alone.
LEMMA Quiet ==
    ASSUME NEW t, IInv(t), UNCHANGED <<fw, engine, cache, flash>>
    PROVE  /\ BootSafe' /\ Progress' /\ Aimed' /\ CacheSafe'
           /\ engine'.pc = "footer" => footer' = 0
<1>1. TargetSlot' = TargetSlot /\ Loose' = Loose /\ HasHeader' = HasHeader /\ Ended' = Ended
  BY DEF flash, TargetSlot, Loose, HasHeader, Ended
<1>2. BootSafe'
  BY DEF IInv, BootSafe, flash
<1>3. Progress'
  BY <1>1 DEF IInv, Progress
<1>4. Aimed'
  BY <1>1 DEF IInv, Aimed, Aim, flash
<1>5. CacheSafe'
  BY <1>1 DEF IInv, CacheSafe, Level
<1> QED BY <1>2, <1>3, <1>4, <1>5 DEF IInv, flash

\* While the task is not inside a request, or its request was not queued, the
\* engine rests.
LEMMA Rests ==
    ASSUME NEW t, IInv(t), list = <<>>
    PROVE  /\ engine.pc = "idle" /\ engine = Resting /\ started = 0
           /\ "BUSY" \notin fw.state
BY DEF IInv, Turn

LEMMA FileBeginStep ==
    ASSUME NEW t, Tasks = {t}, IInv(t), FileBegin(t)
    PROVE  IInv(t)'
<1>1. PICK total \in TotalLens : ota' = [offset |-> 0, total |-> total]
  BY DEF FileBegin
<1>2. /\ task[t].pc = "idle" /\ UNCHANGED <<gsid, fw, list, started, task, engine, cache, flash>>
      /\ ack' = [of |-> "begin", done |-> TRUE, gap |-> FALSE]
  BY DEF FileBegin
<1>3. list = <<>> /\ engine.pc = "idle"
  BY <1>2, Rests DEF IInv, Turn
<1>4. Typed'
  <2>1. ota' \in [offset : 0 .. Word - 1, total : TotalLens \cup {0}]
    <3>1. 0 \in 0 .. Word - 1
      BY Sizes
    <3> QED BY <1>1, <3>1
  <2> QED BY <1>2, <2>1 DEF IInv, Typed, flash
<1>5. /\ BootSafe' /\ Progress' /\ Aimed' /\ CacheSafe'
      /\ engine'.pc = "footer" => footer' = 0
  BY <1>2, Quiet
<1>6. Turn(t)'
  BY <1>2 DEF IInv, Turn
<1>7. ota'.offset = 0 /\ ota'.total = total /\ 0 <= total
  BY <1>1, Sizes
<1>8. Session(t)'
  BY <1>2, <1>7 DEF IInv, Session
<1>9. Offsets(t)'
  BY <1>2, <1>3, <1>7 DEF IInv, Offsets, Agreed, Taken, HasHeader, Ended, AtEnd
<1> QED BY <1>4, <1>5, <1>6, <1>8, <1>9 DEF IInv

LEMMA ChunkRefusedStep ==
    ASSUME NEW t, Tasks = {t}, IInv(t), ChunkRefused(t)
    PROVE  IInv(t)'
<1>1. /\ UNCHANGED <<ota, gsid, fw, list, started, task, engine, cache, flash>>
      /\ ack' = [ack EXCEPT !.of = "error", !.done = FALSE]
  BY DEF ChunkRefused
<1>2. /\ ack' \in [of : {"none", "begin", "error", "chunk", "end"}, done : BOOLEAN, gap : BOOLEAN]
      /\ ack'.gap = ack.gap
  BY <1>1 DEF IInv, Typed
<1>3. Typed'
  BY <1>1, <1>2 DEF IInv, Typed, flash
<1>4. /\ BootSafe' /\ Progress' /\ Aimed' /\ CacheSafe'
      /\ engine'.pc = "footer" => footer' = 0
  BY <1>1, Quiet
<1>5. Turn(t)' /\ Session(t)'
  BY <1>1 DEF IInv, Turn, Session
<1>6. Offsets(t)'
  BY <1>1, <1>2 DEF IInv, Offsets, Agreed, Taken, HasHeader, Ended
<1> QED BY <1>3, <1>4, <1>5, <1>6 DEF IInv

\* A device that runs has a footer, but for the moment in which it is rewritten.
LEMMA FooterOK ==
    ASSUME NEW t, IInv(t), Started, engine.pc # "footer"
    PROVE  footer \in good /\ footer \in {1, 2}
BY DEF IInv, Started, BootSafe, Typed

LEMMA ChunkStep ==
    ASSUME NEW t, Tasks = {t}, IInv(t), Started, Chunk(t)
    PROVE  IInv(t)'
<1>0. PICK payload \in Payloads, offset \in 0 .. Word - 1 :
        LET len == FileLen(payload)
            called == [task EXCEPT ![t] = [pc |-> "request", len |-> len, status |-> "IDLE"]]
        IN
        /\ ChunkFits(offset, len)
        /\ \/ /\ offset = 0 /\ ~fw.busy
              /\ Enter
              /\ task' = called
              /\ UNCHANGED ack
           \/ /\ offset = 0 /\ fw.busy
              /\ gsid' = 0
              /\ ack' = [ack EXCEPT !.of = "error", !.done = FALSE]
              /\ UNCHANGED <<fw, cache, task>>
           \/ /\ offset # 0
              /\ task' = called
              /\ UNCHANGED <<gsid, fw, cache, ack>>
  BY DEF Chunk
<1>1. PICK len, called :
        /\ len = FileLen(payload)
        /\ called = [task EXCEPT ![t] = [pc |-> "request", len |-> len, status |-> "IDLE"]]
        /\ ChunkFits(offset, len)
        /\ \/ /\ offset = 0 /\ ~fw.busy
              /\ Enter
              /\ task' = called
              /\ UNCHANGED ack
           \/ /\ offset = 0 /\ fw.busy
              /\ gsid' = 0
              /\ ack' = [ack EXCEPT !.of = "error", !.done = FALSE]
              /\ UNCHANGED <<fw, cache, task>>
           \/ /\ offset # 0
              /\ task' = called
              /\ UNCHANGED <<gsid, fw, cache, ack>>
  BY <1>0
<1>2. task[t].pc = "idle" /\ UNCHANGED <<ota, list, started, engine, flash>>
  BY DEF Chunk
<1>3. list = <<>> /\ engine.pc = "idle" /\ engine = Resting /\ started = 0
      /\ "BUSY" \notin fw.state
  BY <1>2, Rests DEF IInv, Turn
<1>4. /\ len \in 0 .. MaxChunk /\ offset = ota.offset
      /\ (ota.offset + len) % Word <= ota.total
  <2>1. len \in Nat
    BY <1>1, Sizes DEF FileLen
  <2> QED BY <1>1, <2>1, Sizes DEF ChunkFits
<1>5. /\ called \in [Tasks -> [pc : {"idle", "request", "start", "wait"},
                               len : 0 .. MaxChunk, status : Status]]
      /\ called[t].pc = "request" /\ called[t].len = len /\ called[t].status = "IDLE"
  BY <1>1, <1>4 DEF IInv, Typed, Status
<1>6. footer \in good
  BY <1>3, FooterOK
<1>7. ota.offset <= ota.total
  BY DEF IInv, Offsets
<1>8. CASE offset = 0 /\ ~fw.busy /\ Enter /\ task' = called /\ UNCHANGED ack
  <2>1. /\ gsid' = 1 /\ fw' = Cleared(TRUE, 1) /\ cache' = [cache EXCEPT !.on = TRUE]
    BY <1>8 DEF Enter
  <2>2. /\ fw' \in FwSet /\ fw'.busy = TRUE /\ fw'.sid = 1 /\ fw'.state = {}
        /\ fw'.received = 0 /\ fw'.total = 0 /\ fw'.updated = 0 /\ fw'.offset = 0
    BY <2>1 DEF Cleared, FwSet, State
  <2>3. /\ cache' \in [on : BOOLEAN, sector : Nat, fill : 0 .. SectorSize - 1]
        /\ cache'.on = TRUE /\ cache'.sector = cache.sector /\ cache'.fill = cache.fill
    BY <2>1 DEF IInv, Typed
  <2>4. ~HasHeader'
    BY <2>2, Sizes DEF HasHeader
  <2>5. Loose' = Loose
    BY <1>2 DEF flash, Loose, TargetSlot
  <2>6. Typed'
    BY <1>2, <1>5, <1>8, <2>1, <2>2, <2>3 DEF IInv, Typed, flash
  <2>7. BootSafe'
    BY <1>2, <1>6 DEF BootSafe, flash
  <2>8. Progress'
    BY <1>2, <1>3, <2>2, <2>4 DEF Progress, AtEnd
  <2>9. Aimed'
    BY <1>2, <1>3, <2>4 DEF Aimed
  <2>10. CacheSafe'
    BY <1>2, <1>3, <2>3, <2>4, <2>5 DEF IInv, CacheSafe
  <2>11. Turn(t)'
    BY <1>2, <1>3, <1>5, <1>8, <2>2 DEF Turn
  <2>12. Session(t)'
    BY <1>2, <1>3, <2>1, <2>2 DEF Session
  <2>13. Offsets(t)'
    BY <1>2, <1>3, <1>4, <1>5, <1>7, <1>8, <2>2, <2>4 DEF Offsets, Taken
  <2> QED BY <1>2, <1>3, <2>6, <2>7, <2>8, <2>9, <2>10, <2>11, <2>12, <2>13 DEF IInv
<1>9. CASE /\ offset = 0 /\ fw.busy /\ gsid' = 0
           /\ ack' = [ack EXCEPT !.of = "error", !.done = FALSE]
           /\ UNCHANGED <<fw, cache, task>>
  <2>1. ack' \in [of : {"none", "begin", "error", "chunk", "end"}, done : BOOLEAN, gap : BOOLEAN]
    BY <1>9 DEF IInv, Typed
  <2>2. Typed'
    BY <1>2, <1>9, <2>1 DEF IInv, Typed, flash
  <2>3. /\ BootSafe' /\ Progress' /\ Aimed' /\ CacheSafe'
        /\ engine'.pc = "footer" => footer' = 0
    BY <1>2, <1>9, Quiet
  <2>4. fw.sid = 1
    BY <1>9 DEF IInv, Session
  <2>5. Turn(t)' /\ Session(t)'
    BY <1>2, <1>3, <1>9, <2>4 DEF IInv, Turn, Session
  <2>6. ~Agreed'
    BY <1>9, <2>4 DEF Agreed
  <2>7. Offsets(t)'
    BY <1>2, <1>9, <2>6 DEF IInv, Offsets, HasHeader, Ended
  <2> QED BY <2>2, <2>3, <2>5, <2>7 DEF IInv
<1>10. CASE offset # 0 /\ task' = called /\ UNCHANGED <<gsid, fw, cache, ack>>
  <2>1. Typed'
    BY <1>2, <1>5, <1>10 DEF IInv, Typed, flash
  <2>2. /\ BootSafe' /\ Progress' /\ Aimed' /\ CacheSafe'
        /\ engine'.pc = "footer" => footer' = 0
    BY <1>2, <1>10, Quiet
  <2>3. Turn(t)'
    BY <1>2, <1>3, <1>5, <1>10 DEF Turn
  <2>4. Session(t)'
    BY <1>2, <1>3, <1>4, <1>10 DEF IInv, Session
  <2>5. Offsets(t)'
    <3>1. Agreed => fw.received = ota.offset
      BY <1>2, <1>4, <1>10 DEF IInv, Offsets
    <3>2. HasHeader /\ ~Ended => fw.received = HdrLen + fw.updated + 0
      BY <1>3 DEF IInv, Offsets
    <3>3. ~Taken(t)' /\ Agreed' = Agreed /\ HasHeader' = HasHeader /\ Ended' = Ended
      BY <1>2, <1>3, <1>5, <1>10 DEF Taken, Agreed, HasHeader, Ended
    <3> QED BY <1>2, <1>3, <1>4, <1>5, <1>7, <1>10, <3>1, <3>2, <3>3 DEF Offsets
  <2> QED BY <2>1, <2>2, <2>3, <2>4, <2>5 DEF IInv
<1> QED BY <1>1, <1>8, <1>9, <1>10

\* A chunk handler ends: the request counts if the engine was given it.
LEMMA AnswerOK ==
    ASSUME NEW t, Tasks = {t}, IInv(t), task[t].pc # "idle", list = <<>>,
           NEW success \in BOOLEAN, Answer(t, success),
           Agreed /\ success => fw.received = (ota.offset + task[t].len) % Word,
           UNCHANGED <<gsid, fw, list, started, engine, cache, flash>>
    PROVE  IInv(t)'
<1>1. engine.pc = "idle" /\ engine = Resting /\ started = 0 /\ "BUSY" \notin fw.state
  BY Rests
<1> DEFINE new == (ota.offset + task[t].len) % Word
<1>2. new \in 0 .. Word - 1 /\ new <= ota.total
  <2>1. ota.offset + task[t].len \in Nat
    BY Sizes DEF IInv, Typed
  <2>2. new <= ota.total
    BY DEF IInv, Offsets
  <2> QED BY <2>1, <2>2, Sizes
<1>3. /\ ota' \in [offset : 0 .. Word - 1, total : TotalLens \cup {0}]
      /\ ota'.offset = new /\ ota'.total = ota.total
  <2> HIDE DEF new
  <2>1. ota' = [ota EXCEPT !.offset = new]
    BY DEF Answer, new
  <2> QED BY <1>2, <2>1 DEF IInv, Typed
<1>4. /\ task' \in [Tasks -> [pc : {"idle", "request", "start", "wait"},
                              len : 0 .. MaxChunk, status : Status]]
      /\ task'[t].pc = "idle"
  <2>1. task' = [task EXCEPT ![t] = Idle]
    BY DEF Answer
  <2>2. Idle \in [pc : {"idle", "request", "start", "wait"}, len : 0 .. MaxChunk, status : Status]
    BY Sizes DEF Idle, Status
  <2> QED BY <2>1, <2>2 DEF IInv, Typed, Idle
<1>5. /\ ack' \in [of : {"none", "begin", "error", "chunk", "end"}, done : BOOLEAN, gap : BOOLEAN]
      /\ ack'.gap = (ack.gap \/ ~success)
  <2>1. ack.gap \in BOOLEAN
    BY DEF IInv, Typed
  <2>2. ack' = [of |-> "chunk", done |-> success, gap |-> ack.gap \/ ~success]
    BY DEF Answer
  <2> QED BY <2>1, <2>2
<1> HIDE DEF new
<1>6. Typed'
  BY <1>3, <1>4, <1>5 DEF IInv, Typed, flash
<1>7. /\ BootSafe' /\ Progress' /\ Aimed' /\ CacheSafe'
      /\ engine'.pc = "footer" => footer' = 0
  BY Quiet
<1>8. Turn(t)'
  BY <1>1, <1>4 DEF Turn
<1>9. Session(t)'
  BY <1>4 DEF IInv, Session
<1>10. Offsets(t)'
  <2>1. Agreed' => fw.received = new
    <3>1. Agreed' => Agreed /\ success
      BY <1>5 DEF Agreed, Ended
    <3> QED BY <3>1 DEF new
  <2>2. HasHeader /\ ~Ended => fw.received = HdrLen + fw.updated + 0
    BY <1>1 DEF IInv, Offsets
  <2>3. ~Taken(t)' /\ HasHeader' = HasHeader /\ Ended' = Ended
    BY <1>1, <1>4 DEF Taken, HasHeader, Ended
  <2> QED BY <1>1, <1>2, <1>3, <1>4, <2>1, <2>2, <2>3 DEF Offsets
<1> QED BY <1>6, <1>7, <1>8, <1>9, <1>10 DEF IInv

LEMMA RequestRefusedStep ==
    ASSUME NEW t, Tasks = {t}, IInv(t), RequestRefused(t)
    PROVE  IInv(t)'
<1>1. /\ task[t].pc = "request" /\ Answer(t, task[t].len = 0)
      /\ UNCHANGED <<gsid, fw, list, started, engine, cache, flash>>
  BY DEF RequestRefused
<1>2. list = <<>> /\ engine.pc = "idle"
  BY <1>1, Rests DEF IInv, Turn
<1>3. Agreed => fw.received = ota.offset
  BY <1>1, <1>2 DEF IInv, Offsets, Taken, AtEnd
<1>4. task[t].len = 0 => (ota.offset + task[t].len) % Word = ota.offset
  <2>1. ota.offset \in 0 .. Word - 1 /\ Word \in Nat
    BY Sizes DEF IInv, Typed
  <2>2. ota.offset + 0 = ota.offset /\ ota.offset % Word = ota.offset
    BY <2>1
  <2> QED BY <2>2
<1>5. PICK success \in BOOLEAN : success <=> task[t].len = 0
  OBVIOUS
<1>6. success = (task[t].len = 0)
  BY <1>5
<1>7. Answer(t, success)
  BY <1>1, <1>6
<1> QED BY <1>1, <1>2, <1>3, <1>4, <1>5, <1>7, AnswerOK

LEMMA RequestStep ==
    ASSUME NEW t, Tasks = {t}, IInv(t), Request(t)
    PROVE  IInv(t)'
<1>1. /\ task[t].pc = "request" /\ gsid = fw.sid
      /\ list' = Append(list, t) /\ task' = Queued(t)
      /\ UNCHANGED <<ota, gsid, fw, started, engine, cache, flash, ack>>
  BY DEF Request
<1>2. list = <<>> /\ engine.pc = "idle" /\ engine = Resting /\ started = 0
      /\ "BUSY" \notin fw.state /\ task[t].status = "IDLE"
  BY <1>1, Rests DEF IInv, Turn
<1>3. list' = <<t>>
  BY <1>1, <1>2
<1>4. /\ task' \in [Tasks -> [pc : {"idle", "request", "start", "wait"},
                              len : 0 .. MaxChunk, status : Status]]
      /\ task'[t].pc = "start" /\ task'[t].len = task[t].len /\ task'[t].status = "IDLE"
  <2>1. task' = [task EXCEPT ![t].pc = "start"]
    BY <1>1, <1>2 DEF Queued
  <2> QED BY <1>2, <2>1 DEF IInv, Typed
<1>5. Typed'
  BY <1>1, <1>4 DEF IInv, Typed, flash
<1>6. /\ BootSafe' /\ Progress' /\ Aimed' /\ CacheSafe'
      /\ engine'.pc = "footer" => footer' = 0
  BY <1>1, Quiet
<1>7. Turn(t)'
  BY <1>1, <1>2, <1>3, <1>4 DEF Turn
<1>8. Session(t)'
  <2>1. fw.busy
    <3>1. Cleared(FALSE, 0).sid = 0
      BY DEF Cleared
    <3> QED BY <1>1, <3>1 DEF IInv, Session
  <2> QED BY <1>1, <2>1 DEF IInv, Session
<1>9. Offsets(t)'
  <2>1. ~Taken(t) /\ ~Taken(t)'
    BY <1>1, <1>2, <1>3, <1>4 DEF Taken
  <2>2. Agreed' = Agreed /\ HasHeader' = HasHeader /\ Ended' = Ended
    BY <1>1 DEF Agreed, HasHeader, Ended
  <2> QED BY <1>1, <1>2, <1>4, <2>1, <2>2 DEF IInv, Offsets
<1> QED BY <1>5, <1>6, <1>7, <1>8, <1>9 DEF IInv

LEMMA StartEngineStep ==
    ASSUME NEW t, Tasks = {t}, IInv(t), StartEngine(t)
    PROVE  IInv(t)'
<1>1. /\ task[t].pc = "start" /\ started' = started + 1
      /\ task' = [task EXCEPT ![t].pc = "wait"]
      /\ UNCHANGED <<ota, gsid, fw, list, engine, cache, flash, ack>>
  BY DEF StartEngine
<1>2. list = <<t>> /\ engine.pc = "idle" /\ engine = Resting /\ started = 0 /\ started' = 1
      /\ "BUSY" \notin fw.state /\ task[t].status = "IDLE"
  BY <1>1 DEF IInv, Turn
<1>3. /\ task' \in [Tasks -> [pc : {"idle", "request", "start", "wait"},
                              len : 0 .. MaxChunk, status : Status]]
      /\ task'[t].pc = "wait" /\ task'[t].len = task[t].len /\ task'[t].status = "IDLE"
  BY <1>1, <1>2 DEF IInv, Typed
<1>4. Typed'
  BY <1>1, <1>2, <1>3 DEF IInv, Typed, flash
<1>5. /\ BootSafe' /\ Progress' /\ Aimed' /\ CacheSafe'
      /\ engine'.pc = "footer" => footer' = 0
  BY <1>1, Quiet
<1>6. Turn(t)'
  BY <1>1, <1>2, <1>3 DEF Turn
<1>7. Session(t)'
  BY <1>1, <1>2 DEF IInv, Session
<1>8. Offsets(t)'
  <2>1. ~Taken(t) /\ ~Taken(t)'
    BY <1>1, <1>2 DEF Taken
  <2>2. Agreed' = Agreed /\ HasHeader' = HasHeader /\ Ended' = Ended
    BY <1>1 DEF Agreed, HasHeader, Ended
  <2> QED BY <1>1, <1>2, <1>3, <2>1, <2>2 DEF IInv, Offsets
<1> QED BY <1>4, <1>5, <1>6, <1>7, <1>8 DEF IInv

LEMMA ReturnStep ==
    ASSUME NEW t, Tasks = {t}, IInv(t), Return(t)
    PROVE  IInv(t)'
<1>1. /\ task[t].pc = "wait" /\ task[t].status # "IDLE"
      /\ Answer(t, task[t].status = "SUCCESS")
      /\ UNCHANGED <<gsid, fw, list, started, engine, cache, flash>>
  BY DEF Return
<1>2. list = <<>> /\ engine.pc = "idle"
  BY <1>1, Rests DEF IInv, Turn
<1>3. Agreed => fw.received = ota.offset + task[t].len
  BY <1>1, <1>2 DEF IInv, Offsets, Taken
<1>4. (ota.offset + task[t].len) % Word = ota.offset + task[t].len
  <2>1. /\ ota.offset \in Nat /\ task[t].len \in 0 .. MaxChunk /\ ota.offset <= ota.total
        /\ ota.total \in TotalLens \cup {0} /\ {MaxChunk, ReqLen, Word} \subseteq Nat
    BY Sizes DEF IInv, Typed, Offsets
  <2>2. ota.total \in Nat /\ ota.total + MaxChunk + ReqLen < Word
    BY <2>1, Sizes
  <2>3. ota.offset + task[t].len \in 0 .. Word - 1
    BY <2>1, <2>2
  <2> QED BY <2>1, <2>3
<1>5. PICK success \in BOOLEAN : success <=> task[t].status = "SUCCESS"
  OBVIOUS
<1>6. success = (task[t].status = "SUCCESS")
  BY <1>5
<1>7. Answer(t, success)
  BY <1>1, <1>6
<1> QED BY <1>1, <1>2, <1>3, <1>4, <1>7, AnswerOK

LEMMA EndStep ==
    ASSUME NEW t, Tasks = {t}, IInv(t), Started, End(t)
    PROVE  IInv(t)'
<1>1. /\ task[t].pc = "idle" /\ fw' = IF Exits THEN Cleared(FALSE, 0) ELSE fw
      /\ ack' = [ack EXCEPT !.of = "end", !.done = Exits]
      /\ UNCHANGED <<ota, gsid, list, started, task, engine, cache, flash>>
  BY DEF End
<1>2. list = <<>> /\ engine.pc = "idle" /\ engine = Resting /\ "BUSY" \notin fw.state
  BY <1>1, Rests DEF IInv, Turn
<1>3. /\ ack' \in [of : {"none", "begin", "error", "chunk", "end"}, done : BOOLEAN, gap : BOOLEAN]
      /\ ack'.gap = ack.gap
  <2>1. fw.busy \in BOOLEAN
    BY DEF IInv, Typed, FwSet
  <2>2. Exits \in BOOLEAN
    BY <2>1 DEF Exits
  <2> QED BY <1>1, <2>2 DEF IInv, Typed
<1>4. CASE Exits
  <2>1. /\ fw' \in FwSet /\ fw'.busy = FALSE /\ fw'.state = {}
        /\ fw'.received = 0 /\ fw'.total = 0 /\ fw'.updated = 0 /\ fw'.offset = 0
    BY <1>1, <1>4 DEF Cleared, FwSet, State
  <2>2. gsid = 1
    BY <1>4 DEF Exits, IInv, Session
  <2>3. footer \in good
    BY <1>2, FooterOK
  <2>4. ~HasHeader'
    BY <2>1, Sizes DEF HasHeader
  <2>5. Loose' = Loose
    BY <1>1 DEF flash, Loose, TargetSlot
  <2>6. Typed'
    BY <1>1, <1>3, <2>1 DEF IInv, Typed, flash
  <2>7. BootSafe'
    BY <1>1, <2>3 DEF BootSafe, flash
  <2>8. Progress'
    BY <1>1, <1>2, <2>1, <2>4 DEF Progress, AtEnd
  <2>9. Aimed'
    BY <1>1, <1>2, <2>4 DEF Aimed
  <2>10. CacheSafe'
    BY <1>1, <1>2, <2>1, <2>4, <2>5 DEF IInv, CacheSafe
  <2>11. Turn(t)'
    BY <1>1, <1>2, <2>1 DEF IInv, Turn
  <2>12. Session(t)'
    <3>1. fw' = Cleared(FALSE, 0)
      BY <1>1, <1>4
    <3>2. list' = <<>> /\ gsid' = 1
      BY <1>1, <1>2, <2>2
    <3> QED BY <3>1, <3>2 DEF Session, Cleared
  <2>13. Offsets(t)'
    BY <1>1, <2>1, <2>4 DEF IInv, Offsets, Agreed
  <2> QED BY <1>1, <1>2, <2>6, <2>7, <2>8, <2>9, <2>10, <2>11, <2>12, <2>13 DEF IInv
<1>5. CASE ~Exits
  <2>1. fw' = fw
    BY <1>1, <1>5
  <2>2. Typed'
    BY <1>1, <1>3, <2>1 DEF IInv, Typed, flash
  <2>3. /\ BootSafe' /\ Progress' /\ Aimed' /\ CacheSafe'
        /\ engine'.pc = "footer" => footer' = 0
    BY <1>1, <2>1, Quiet
  <2>4. Turn(t)' /\ Session(t)'
    BY <1>1, <2>1 DEF IInv, Turn, Session
  <2>5. Offsets(t)'
    BY <1>1, <1>3, <2>1 DEF IInv, Offsets, Agreed, Taken, HasHeader, Ended
  <2> QED BY <2>2, <2>3, <2>4, <2>5 DEF IInv
<1> QED BY <1>4, <1>5

\* The only request has no successor.
LEMMA AfterOnly ==
    ASSUME NEW t
    PROVE  After(t, <<t>>) = NoTask
BY DEF After

LEMMA TakeStep ==
    ASSUME NEW t, Tasks = {t}, IInv(t), Started, Take
    PROVE  IInv(t)'
<1>1. /\ engine.pc = "idle" /\ started > 0 /\ started' = started - 1
      /\ fw' = [fw EXCEPT !.state = fw.state \cup {"BUSY"}]
      /\ engine' = [pc |-> "handle", cur |-> Head(list),
                    next |-> After(Head(list), list), left |-> 0]
      /\ UNCHANGED <<ota, gsid, list, task, cache, flash, ack>>
  BY DEF Take
<1>2. list = <<t>> /\ started = 1 /\ started' = 0 /\ task[t].pc = "wait"
      /\ task[t].status = "IDLE" /\ fw.busy /\ fw.sid = 1 /\ gsid = 1
  <2>1. list = <<t>> /\ started = 1 /\ task[t].pc = "wait" /\ task[t].status = "IDLE"
    BY <1>1 DEF IInv, Turn, Typed
  <2> QED BY <1>1, <2>1 DEF IInv, Session
<1>3. /\ engine' \in [pc : Place, cur : Tasks \cup {NoTask}, next : Tasks \cup {NoTask},
                      left : 0 .. MaxChunk]
      /\ engine'.pc = "handle" /\ engine'.cur = t /\ engine'.next = NoTask
  <2>1. Head(list) = t /\ After(Head(list), list) = NoTask
    BY <1>2, AfterOnly
  <2> QED BY <1>1, <2>1, Sizes DEF Place
<1>4. /\ fw' \in FwSet /\ fw'.state = fw.state \cup {"BUSY"} /\ fw'.busy = fw.busy
      /\ fw'.sid = fw.sid /\ fw'.received = fw.received /\ fw'.total = fw.total
      /\ fw'.updated = fw.updated /\ fw'.base = fw.base /\ fw'.offset = fw.offset
      /\ fw'.dest = fw.dest
  BY <1>1 DEF IInv, Typed, FwSet, State
<1>5. /\ TargetSlot' = TargetSlot /\ Loose' = Loose /\ HasHeader' = HasHeader /\ Ended' = Ended
      /\ Agreed' = Agreed /\ footer \in good
  BY <1>1, <1>4, FooterOK DEF flash, TargetSlot, Loose, HasHeader, Ended, Agreed
<1>6. Typed'
  BY <1>1, <1>2, <1>3, <1>4 DEF IInv, Typed, flash
<1>7. BootSafe'
  BY <1>1, <1>5 DEF BootSafe, flash
<1>8. Progress'
  BY <1>1, <1>3, <1>4, <1>5 DEF IInv, Progress, AtEnd
<1>9. Aimed'
  BY <1>1, <1>3, <1>4, <1>5 DEF IInv, Aimed, Aim
<1>10. CacheSafe'
  BY <1>1, <1>3, <1>4, <1>5 DEF IInv, CacheSafe, AtEnd, Level
<1>11. Turn(t)'
  BY <1>1, <1>2, <1>3, <1>4 DEF Turn
<1>12. Session(t)'
  BY <1>1, <1>2, <1>4 DEF Session
<1>13. Offsets(t)'
  <2>1. ~Taken(t) /\ ~Taken(t)'
    BY <1>1, <1>2, <1>3 DEF Taken
  <2> QED BY <1>1, <1>2, <1>3, <1>4, <1>5, <2>1 DEF IInv, Offsets, AtEnd
<1> QED BY <1>3, <1>6, <1>7, <1>8, <1>9, <1>10, <1>11, <1>12, <1>13 DEF IInv

LEMMA HandleEndedStep ==
    ASSUME NEW t, Tasks = {t}, IInv(t), HandleEnded
    PROVE  IInv(t)'
<1>1. engine.pc = "handle" /\ Ended /\ Finish(fw, "FAILED", Untouched)
  BY DEF HandleEnded
<1>2. fw \in FwSet /\ fw.state \cap Failures # {}
  BY <1>1 DEF IInv, Typed, Ended, Failures
<1>3. fw.updated < fw.total => HasHeader
  BY Sizes DEF IInv, Progress
<1>4. fw.updated < fw.total =>
         /\ fw.received >= HdrLen /\ fw.total \in FileLens /\ fw.offset = fw.updated
         /\ \/ fw.dest = "firmware" /\ fw.base = SlotBase(TargetSlot)
            \/ fw.dest = "data" /\ fw.base = DataSector * SectorSize
         /\ Level(fw.base + fw.offset)
  BY <1>1, <1>3 DEF IInv, Progress, Aimed, Aim, CacheSafe, HasHeader
<1>5. "FAILED" \in Status \ {"none", "IDLE"}
  BY DEF Status
<1> QED BY <1>1, <1>2, <1>4, <1>5, FinishOK DEF Level

\* A request that is dealt with without a write, because there is no data in it or
\* its data cannot be written.
LEMMA NoWriteOK ==
    ASSUME NEW t, Tasks = {t}, IInv(t), engine.pc = "handle", NEW f \in FwSet,
           NEW left \in 0 .. MaxChunk,
           \/ left = 0 /\ Finish(f, "SUCCESS", Untouched)
           \/ Finish([f EXCEPT !.state = f.state \cup {"IO"}], "IO", Untouched),
           f.busy = fw.busy, f.sid = fw.sid,
           f.updated < f.total =>
              /\ f.received >= HdrLen /\ f.total \in FileLens /\ f.offset = f.updated
              /\ \/ f.dest = "firmware" /\ f.base = SlotBase(TargetSlot)
                 \/ f.dest = "data" /\ f.base = DataSector * SectorSize
              /\ cache.fill # 0 /\ cache.sector = (f.base + f.offset) \div SectorSize =>
                    \/ cache.fill <= (f.base + f.offset) % SectorSize
                    \/ cache.sector = f.base \div SectorSize
              /\ gsid = fw.sid /\ ~ack.gap => f.received = ota.offset + task[t].len
              /\ f.received = HdrLen + f.updated + left
    PROVE  IInv(t)'
<1>1. CASE left = 0 /\ Finish(f, "SUCCESS", Untouched)
  <2>1. "SUCCESS" \in Status \ {"none", "IDLE"}
    BY DEF Status
  <2>2. f.updated < f.total => f.received = HdrLen + f.updated
    BY <1>1, Sizes DEF FwSet
  <2> QED BY <1>1, <2>1, <2>2, FinishOK
<1>2. CASE Finish([f EXCEPT !.state = f.state \cup {"IO"}], "IO", Untouched)
  <2>1. PICK g : g = [f EXCEPT !.state = f.state \cup {"IO"}]
    OBVIOUS
  <2>2. /\ g \in FwSet /\ g.busy = f.busy /\ g.sid = f.sid /\ g.received = f.received
        /\ g.total = f.total /\ g.updated = f.updated /\ g.base = f.base
        /\ g.offset = f.offset /\ g.dest = f.dest /\ g.state \cap Failures # {}
    BY <2>1 DEF FwSet, State, Failures
  <2>3. Finish(g, "IO", Untouched) /\ "IO" \in Status \ {"none", "IDLE"}
    BY <1>2, <2>1 DEF Status
  <2> QED BY <2>2, <2>3, FinishOK
<1> QED BY <1>1, <1>2

\* What follows when the engine has read the header.
LEMMA ProceedOK ==
    ASSUME NEW t, Tasks = {t}, IInv(t), engine.pc = "handle", NEW f \in FwSet,
           NEW left \in 0 .. MaxChunk, Proceed(f, left),
           f.busy = fw.busy, f.sid = fw.sid, "BUSY" \in f.state, f.state \cap Failures = {},
           /\ f.received >= HdrLen /\ f.total \in FileLens /\ f.offset = f.updated
           /\ f.updated < f.total \/ f.updated = 0
           /\ \/ f.dest = "firmware" /\ f.base = SlotBase(TargetSlot)
              \/ f.dest = "data" /\ f.base = DataSector * SectorSize
           /\ cache.fill # 0 /\ cache.sector = (f.base + f.offset) \div SectorSize =>
                 \/ cache.fill <= (f.base + f.offset) % SectorSize
                 \/ cache.sector = f.base \div SectorSize
           /\ gsid = fw.sid /\ ~ack.gap => f.received = ota.offset + task[t].len
           /\ f.received = HdrLen + f.updated + left
    PROVE  IInv(t)'
<1>1. CASE left = 0 /\ Finish(f, "SUCCESS", Untouched)
  BY <1>1, NoWriteOK
<1>2. CASE Finish([f EXCEPT !.state = f.state \cup {"IO"}], "IO", Untouched)
  BY <1>2, NoWriteOK
<1>3. CASE /\ left > 0
           /\ engine' = [engine EXCEPT !.pc = "write", !.left = left]
           /\ fw' = f
           /\ LET c == FastWrite(f.base + f.offset, left) IN Flashed(c) /\ Cached(c)
           /\ UNCHANGED <<ota, gsid, list, started, task, ack>>
  <2>1. PICK c : c = FastWrite(f.base + f.offset, left) /\ Flashed(c) /\ Cached(c)
    BY <1>3
  <2>2. left \in 1 .. MaxChunk
    BY <1>3
  <2> QED BY <1>3, <2>1, <2>2, WriteOK
<1> QED BY <1>1, <1>2, <1>3 DEF Proceed

\* What the engine knows when it begins to handle a request of an open session.
LEMMA HandleFacts ==
    ASSUME NEW t, Tasks = {t}, IInv(t), engine.pc = "handle", ~Ended
    PROVE  /\ fw \in FwSet /\ task[t].len \in Nat /\ task[t].len \in 0 .. MaxChunk
           /\ engine.cur = t /\ "BUSY" \in fw.state /\ fw.state \cap Failures = {}
           /\ fw.received < HdrLen =>
                 fw.received = 0 /\ fw.updated = 0 /\ fw.total = 0 /\ fw.offset = 0
           /\ fw.received >= HdrLen =>
                 /\ fw.total \in FileLens /\ fw.offset = fw.updated /\ fw.updated < fw.total
                 /\ \/ fw.dest = "firmware" /\ fw.base = SlotBase(TargetSlot)
                    \/ fw.dest = "data" /\ fw.base = DataSector * SectorSize
                 /\ Level(fw.base + fw.offset)
                 /\ fw.received = HdrLen + fw.updated
           /\ gsid = fw.sid /\ ~ack.gap => fw.received = ota.offset
<1>1. /\ engine.cur = t /\ list = <<t>> /\ task[t].pc = "wait" /\ fw.busy
      /\ "BUSY" \in fw.state
  BY Handling
<1>2. fw \in FwSet /\ task[t].len \in Nat /\ task[t].len \in 0 .. MaxChunk
  BY Sizes DEF IInv, Typed
<1>3. fw.state \cap Failures = {}
  BY DEF Ended, Failures
<1>4. fw.received \in Nat /\ HdrLen \in Nat
  BY <1>2, Sizes DEF FwSet
<1>5. fw.received < HdrLen =>
         fw.received = 0 /\ fw.updated = 0 /\ fw.total = 0 /\ fw.offset = 0
  BY <1>4 DEF IInv, Progress, HasHeader
<1>6. fw.received >= HdrLen =>
         /\ fw.total \in FileLens /\ fw.offset = fw.updated /\ fw.updated < fw.total
         /\ \/ fw.dest = "firmware" /\ fw.base = SlotBase(TargetSlot)
            \/ fw.dest = "data" /\ fw.base = DataSector * SectorSize
         /\ Level(fw.base + fw.offset)
  BY DEF IInv, Progress, Aimed, Aim, CacheSafe, HasHeader
<1>7. fw.received >= HdrLen => fw.received = HdrLen + fw.updated + 0
  BY DEF IInv, Offsets, HasHeader
<1>8. HdrLen + fw.updated + 0 = HdrLen + fw.updated
  BY <1>2, <1>4 DEF FwSet
<1>9. gsid = fw.sid /\ ~ack.gap => fw.received = ota.offset
  BY <1>1 DEF IInv, Offsets, Agreed, Taken, AtEnd
<1> QED BY <1>1, <1>2, <1>3, <1>5, <1>6, <1>7, <1>8, <1>9

LEMMA HandleBytesStep ==
    ASSUME NEW t, Tasks = {t}, IInv(t), HandleBytes
    PROVE  IInv(t)'
<1>1. engine.pc = "handle" /\ ~Ended /\ engine.cur = t
  BY Handling DEF HandleBytes
<1>0. PICK n \in 0 .. MaxChunk : n = task[t].len
  BY <1>1, HandleFacts
<1>2. PICK f :
        /\ n = task[t].len /\ f = [fw EXCEPT !.received = fw.received + n]
        /\ \/ fw.received >= HdrLen /\ Proceed(f, n)
           \/ f.received < HdrLen /\ Proceed(f, 0)
  BY <1>0, <1>1 DEF HandleBytes
<1>3. /\ fw \in FwSet /\ "BUSY" \in fw.state /\ fw.state \cap Failures = {}
      /\ n \in Nat /\ MaxChunk \in Nat /\ HdrLen \in Nat /\ ota.offset \in Nat
  BY <1>1, HandleFacts, Sizes DEF IInv, Typed
<1>4. /\ f \in FwSet /\ f.received = fw.received + n /\ f.busy = fw.busy /\ f.sid = fw.sid
      /\ f.state = fw.state /\ f.total = fw.total /\ f.updated = fw.updated
      /\ f.base = fw.base /\ f.offset = fw.offset /\ f.dest = fw.dest
  BY <1>2, <1>3 DEF FwSet
<1>5. /\ fw.received \in Nat /\ fw.updated \in Nat /\ fw.total \in Nat
      /\ fw.base \in Nat /\ fw.offset \in Nat
  BY <1>3 DEF FwSet
<1>6. CASE fw.received >= HdrLen /\ Proceed(f, n)
  <2>1. /\ fw.total \in FileLens /\ fw.offset = fw.updated /\ fw.updated < fw.total
        /\ \/ fw.dest = "firmware" /\ fw.base = SlotBase(TargetSlot)
           \/ fw.dest = "data" /\ fw.base = DataSector * SectorSize
        /\ Level(fw.base + fw.offset)
        /\ fw.received = HdrLen + fw.updated
        /\ gsid = fw.sid /\ ~ack.gap => fw.received = ota.offset
    BY <1>1, <1>6, HandleFacts
  <2>2. /\ f.received >= HdrLen /\ f.received = HdrLen + f.updated + n
        /\ gsid = fw.sid /\ ~ack.gap => f.received = ota.offset + task[t].len
    BY <1>2, <1>3, <1>4, <1>5, <1>6, <2>1
  <2>3. cache.fill # 0 /\ cache.sector = (f.base + f.offset) \div SectorSize =>
           \/ cache.fill <= (f.base + f.offset) % SectorSize
           \/ cache.sector = f.base \div SectorSize
    BY <1>4, <2>1 DEF Level
  <2> QED BY <1>1, <1>3, <1>4, <1>6, <2>1, <2>2, <2>3, ProceedOK
<1>7. CASE f.received < HdrLen /\ Proceed(f, 0)
  <2>1. fw.received < HdrLen
    BY <1>3, <1>4, <1>5, <1>7
  <2>2. fw.updated = 0 /\ fw.total = 0
    BY <1>1, <2>1, HandleFacts
  <2>3. ~(f.updated < f.total) /\ 0 \in 0 .. MaxChunk
    BY <1>3, <1>4, <2>2
  <2>4. Finish(f, "SUCCESS", Untouched)
    BY <1>7 DEF Proceed
  <2> QED BY <1>1, <1>4, <2>3, <2>4, NoWriteOK
<1> QED BY <1>2, <1>6, <1>7

LEMMA HandleHeaderStep ==
    ASSUME NEW t, Tasks = {t}, IInv(t), HandleHeader
    PROVE  IInv(t)'
<1>1. engine.pc = "handle" /\ ~Ended /\ engine.cur = t /\ fw.received < HdrLen
  BY Handling DEF HandleHeader
<1>2. /\ fw \in FwSet /\ "BUSY" \in fw.state /\ fw.state \cap Failures = {}
      /\ fw.received = 0 /\ fw.updated = 0 /\ fw.total = 0 /\ fw.offset = 0
      /\ gsid = fw.sid /\ ~ack.gap => fw.received = ota.offset
      /\ task[t].len \in Nat /\ task[t].len \in 0 .. MaxChunk
      /\ MaxChunk \in Nat /\ HdrLen \in Nat \ {0} /\ ota.offset \in Nat
  BY <1>1, HandleFacts, Sizes DEF IInv, Typed
<1>3. ASSUME NEW e \in {"SIGNATURE", "IO"},
             Finish([fw EXCEPT !.received = HdrLen, !.state = fw.state \cup {e}], e, Untouched)
      PROVE  IInv(t)'
  <2>1. PICK f : f = [fw EXCEPT !.received = HdrLen, !.state = fw.state \cup {e}]
    OBVIOUS
  <2>2. /\ f \in FwSet /\ f.busy = fw.busy /\ f.sid = fw.sid
        /\ f.updated = 0 /\ f.total = 0
    BY <1>2, <2>1 DEF FwSet, State
  <2>3. e \in Status \ {"none", "IDLE"} /\ ~(f.updated < f.total)
    BY <2>2 DEF Status
  <2> QED BY <1>1, <1>3, <2>1, <2>2, <2>3, FinishOK
<1>4. ASSUME NEW f \in FwSet, NEW left \in 0 .. MaxChunk, Proceed(f, left),
             f.busy = fw.busy /\ f.sid = fw.sid /\ f.state = fw.state,
             f.received = task[t].len /\ task[t].len = HdrLen + left,
             f.updated = 0 /\ f.offset = 0 /\ f.total \in FileLens,
             \/ f.dest = "firmware" /\ f.base = SlotBase(TargetSlot)
             \/ f.dest = "data" /\ f.base = DataSector * SectorSize
      PROVE  IInv(t)'
  <2>1. f.base \in Nat /\ left \in Nat
    BY <1>2 DEF FwSet
  <2>2. /\ f.received >= HdrLen /\ f.received = HdrLen + f.updated + left
        /\ gsid = fw.sid /\ ~ack.gap => f.received = ota.offset + task[t].len
        /\ f.base + f.offset = f.base
    BY <1>2, <1>4, <2>1
  <2>3. cache.fill # 0 /\ cache.sector = (f.base + f.offset) \div SectorSize =>
           \/ cache.fill <= (f.base + f.offset) % SectorSize
           \/ cache.sector = f.base \div SectorSize
    BY <2>2
  <2>4. "BUSY" \in f.state /\ f.state \cap Failures = {}
    BY <1>2, <1>4
  <2>5. f.offset = f.updated /\ (f.updated < f.total \/ f.updated = 0)
    BY <1>4
  <2> QED BY <1>1, <1>4, <2>2, <2>3, <2>4, <2>5, ProceedOK
<1>5. PICK n, left, g :
        /\ n = task[t].len /\ left = g.received - HdrLen /\ left >= 0
        /\ g = [fw EXCEPT !.received = fw.received + n, !.updated = 0]
        /\ \/ \E e \in {"SIGNATURE", "IO"} :
                 Finish([fw EXCEPT !.received = HdrLen, !.state = fw.state \cup {e}],
                        e, Untouched)
           \/ \E total \in FileLens :
                 Proceed([g EXCEPT !.total = total, !.dest = "firmware",
                                   !.base = SlotBase(TargetSlot)], left)
           \/ \E total \in FileLens :
                 Proceed([g EXCEPT !.total = total, !.dest = "data",
                                   !.base = DataSector * SectorSize], left)
  BY <1>1 DEF HandleHeader
<1>6. /\ g \in FwSet /\ g.busy = fw.busy /\ g.sid = fw.sid /\ g.state = fw.state
      /\ g.received = n /\ g.updated = 0 /\ g.offset = 0
  <2>1. fw.received + n = n /\ n \in Nat
    <3>1. n = task[t].len
      BY <1>5
    <3> QED BY <1>2, <3>1
  <2>2. g = [fw EXCEPT !.received = n, !.updated = 0]
    BY <1>5, <2>1
  <2> QED BY <1>2, <2>1, <2>2 DEF FwSet
<1>7. left \in 0 .. MaxChunk /\ task[t].len = HdrLen + left
  <2>1. left = g.received - HdrLen /\ left >= 0 /\ n = task[t].len
    BY <1>5
  <2>2. left = task[t].len - HdrLen
    BY <1>6, <2>1
  <2> QED BY <1>2, <2>1, <2>2
<1>8. ASSUME NEW total \in FileLens, NEW base \in Nat, NEW dest \in {"firmware", "data"},
             \/ dest = "firmware" /\ base = SlotBase(TargetSlot)
             \/ dest = "data" /\ base = DataSector * SectorSize,
             Proceed([g EXCEPT !.total = total, !.dest = dest, !.base = base], left)
      PROVE  IInv(t)'
  <2>1. PICK f : f = [g EXCEPT !.total = total, !.dest = dest, !.base = base]
    OBVIOUS
  <2>2. Proceed(f, left)
    BY <1>8, <2>1
  <2>3. total \in Nat
    BY Sizes
  <2>4. /\ f \in FwSet /\ f.busy = fw.busy /\ f.sid = fw.sid /\ f.state = fw.state
        /\ f.received = n /\ f.updated = 0 /\ f.offset = 0
        /\ f.total = total /\ f.dest = dest /\ f.base = base
    BY <1>6, <2>1, <2>3 DEF FwSet
  <2> QED BY <1>4, <1>5, <1>7, <1>8, <2>2, <2>4
<1>9. SlotBase(TargetSlot) \in Nat /\ DataSector * SectorSize \in Nat
  BY BasesOK DEF TargetSlot
<1>10. CASE \E e \in {"SIGNATURE", "IO"} :
               Finish([fw EXCEPT !.received = HdrLen, !.state = fw.state \cup {e}], e, Untouched)
  BY <1>3, <1>10
<1>11. CASE \E total \in FileLens :
              Proceed([g EXCEPT !.total = total, !.dest = "firmware",
                                !.base = SlotBase(TargetSlot)], left)
  BY <1>8, <1>9, <1>11
<1>12. CASE \E total \in FileLens :
               Proceed([g EXCEPT !.total = total, !.dest = "data",
                                 !.base = DataSector * SectorSize], left)
  BY <1>8, <1>9, <1>12
<1> QED BY <1>5, <1>10, <1>11, <1>12

\* The engine is in the middle of a write or of what follows the last one.
LEMMA InsideFacts ==
    ASSUME NEW t, Tasks = {t}, IInv(t), engine.pc \in {"write"} \cup AtEnd
    PROVE  /\ fw \in FwSet /\ engine.left \in Nat
           /\ fw.received >= HdrLen /\ fw.total \in FileLens /\ fw.offset = fw.updated
           /\ fw.state \cap Failures = {} /\ "BUSY" \in fw.state
           /\ engine.pc \in AtEnd => fw.updated >= fw.total
BY Handling, Sizes DEF IInv, Typed, Progress, HasHeader, AtEnd, Ended, Failures

LEMMA WrittenStep ==
    ASSUME NEW t, Tasks = {t}, IInv(t), Written
    PROVE  IInv(t)'
<1>1. /\ engine.pc = "write" /\ engine.cur = t /\ engine.next = NoTask /\ list = <<t>>
      /\ task[t].pc = "wait" /\ started = 0 /\ task[t].status = "IDLE"
      /\ fw.busy /\ fw.sid = 1 /\ gsid = 1
  BY Handling DEF Written
<1>2. /\ fw \in FwSet /\ engine.left \in Nat /\ fw.received >= HdrLen /\ fw.total \in FileLens
      /\ fw.offset = fw.updated /\ fw.state \cap Failures = {} /\ "BUSY" \in fw.state
  BY <1>1, InsideFacts
<1>3. /\ fw.offset \in Nat /\ fw.updated \in Nat /\ fw.base \in Nat /\ fw.received \in Nat
      /\ fw.total \in Nat /\ HdrLen \in Nat
  BY <1>2, Sizes DEF FwSet
<1>4. PICK f : f = [fw EXCEPT !.offset = fw.offset + engine.left,
                              !.updated = fw.updated + engine.left]
  OBVIOUS
<1>5. /\ f \in FwSet /\ f.busy = fw.busy /\ f.sid = fw.sid /\ f.state = fw.state
      /\ f.received = fw.received /\ f.total = fw.total /\ f.base = fw.base /\ f.dest = fw.dest
      /\ f.offset = fw.offset + engine.left /\ f.updated = fw.updated + engine.left
  <2>1. fw \in FwSet /\ fw.offset + engine.left \in Nat /\ fw.updated + engine.left \in Nat
    BY <1>2, <1>3
  <2> QED BY <1>4, <2>1 DEF FwSet
<1>6. \/ fw.dest = "firmware" /\ fw.base = SlotBase(TargetSlot)
      \/ fw.dest = "data" /\ fw.base = DataSector * SectorSize
  <2>1. HasHeader /\ engine.pc \notin {"footer", "complete"}
    BY <1>1, <1>2 DEF HasHeader
  <2>2. Aim
    BY <2>1 DEF IInv, Aimed
  <2> QED BY <2>2 DEF Aim
<1>7. fw.received = HdrLen + fw.updated + engine.left
  BY <1>1, <1>2 DEF IInv, Offsets, HasHeader, Ended, Failures
<1>8. gsid = fw.sid /\ ~ack.gap => fw.received = ota.offset + task[t].len
  BY <1>1, <1>2 DEF IInv, Offsets, Agreed, Taken, Ended, Failures
<1>9. CASE f.updated < f.total /\ Finish(f, "SUCCESS", Untouched)
  <2>1. f.base + f.offset = fw.base + fw.offset + engine.left
    BY <1>2, <1>3, <1>5
  <2>2. Level(fw.base + fw.offset + engine.left)
    BY <1>1 DEF IInv, CacheSafe
  <2>3. cache.fill # 0 /\ cache.sector = (f.base + f.offset) \div SectorSize =>
           \/ cache.fill <= (f.base + f.offset) % SectorSize
           \/ cache.sector = f.base \div SectorSize
    BY <1>5, <2>1, <2>2 DEF Level
  <2>4. f.offset = f.updated /\ f.received = HdrLen + f.updated
    BY <1>2, <1>3, <1>5, <1>7
  <2>5. "SUCCESS" \in Status \ {"none", "IDLE"}
    BY DEF Status
  <2> QED BY <1>1, <1>2, <1>5, <1>6, <1>8, <1>9, <2>3, <2>4, <2>5, FinishOK
<1>10. ASSUME NEW c, c = Destroy(Untouched), f.updated >= f.total, fw' = f, Flashed(c), Cached(c),
              engine' = [engine EXCEPT !.pc = "verify"],
              UNCHANGED <<ota, gsid, list, started, task, ack>>
       PROVE  IInv(t)'
  <2>1. /\ cache \in CacheSet /\ cache.on /\ cache.sector \in Loose
    BY <1>1 DEF IInv, Typed, CacheSet, CacheSafe, AtEnd
  <2>2. /\ Untouched \in TouchSet /\ Untouched.on = cache.on
        /\ Untouched.sector = cache.sector /\ Untouched.fill = cache.fill
        /\ Untouched.touched = {}
    BY <2>1, Sizes DEF Untouched, TouchSet, CacheSet
  <2>3. /\ c.fill = 0 /\ c.sector = cache.sector /\ c.touched = {} \cup {cache.sector}
        /\ c.on = FALSE
    <3>1. PICK d : d = Flush(Untouched)
      OBVIOUS
    <3>2. /\ d \in TouchSet /\ d.fill = 0 /\ d.sector = cache.sector
          /\ d.touched = {} \cup {cache.sector}
      BY <2>2, <3>1, FlushOK
    <3>3. c = [d EXCEPT !.on = FALSE]
      BY <1>10, <2>1, <2>2, <3>1 DEF Destroy
    <3> QED BY <3>2, <3>3 DEF TouchSet
  <2>4. c.touched \subseteq Loose
    BY <2>1, <2>3
  <2>5. footer \in good /\ good \subseteq {1, 2}
    BY <1>1, Bootable DEF IInv, Typed
  <2>6. footer' = footer /\ footer' \in good' /\ good' \subseteq good
    BY <1>10, <2>4, <2>5, FlashedOK
  <2>7. /\ engine' \in [pc : Place, cur : Tasks \cup {NoTask}, next : Tasks \cup {NoTask},
                        left : 0 .. MaxChunk]
        /\ engine'.pc = "verify" /\ engine'.cur = t /\ engine'.next = NoTask
    BY <1>1, <1>10 DEF IInv, Typed, Place
  <2>8. /\ cache' = [on |-> c.on, sector |-> c.sector, fill |-> c.fill]
        /\ cache'.fill = 0
    BY <1>10, <2>3 DEF Cached
  <2>9. cache' \in [on : BOOLEAN, sector : Nat, fill : 0 .. SectorSize - 1]
    <3>1. cache.sector \in Nat /\ 0 \in 0 .. SectorSize - 1
      BY <2>1, Sizes DEF CacheSet
    <3>2. c.on \in BOOLEAN /\ c.sector \in Nat /\ c.fill \in 0 .. SectorSize - 1
      BY <2>3, <3>1
    <3> QED BY <2>8, <3>2
  <2>10. TargetSlot' = TargetSlot
    BY <2>6 DEF TargetSlot
  <2>11. HasHeader' /\ ~Ended'
    BY <1>2, <1>5, <1>10 DEF HasHeader, Ended, Failures
  <2>12. Typed'
    BY <1>5, <1>10, <2>5, <2>6, <2>7, <2>9 DEF IInv, Typed
  <2>13. BootSafe'
    BY <2>6 DEF BootSafe
  <2>14. Progress'
    BY <1>2, <1>5, <1>10, <2>7, <2>11 DEF Progress, AtEnd
  <2>15. Aimed'
    BY <1>5, <1>6, <1>10, <2>7, <2>10 DEF Aimed, Aim
  <2>16. CacheSafe'
    BY <2>7, <2>8 DEF CacheSafe, AtEnd
  <2>17. Turn(t)'
    BY <1>1, <1>2, <1>5, <1>10, <2>7 DEF Turn
  <2>18. Session(t)'
    BY <1>1, <1>5, <1>10 DEF Session
  <2>19. Offsets(t)'
    <3>1. ~Taken(t)'
      BY <1>1, <1>10, <2>7 DEF Taken
    <3>2. /\ ota.offset <= ota.total
          /\ (ota.offset + task[t].len) % Word <= ota.total
      BY <1>1 DEF IInv, Offsets
    <3>3. f.received = HdrLen + f.updated + 0
      BY <1>2, <1>3, <1>5, <1>7
    <3> QED BY <1>1, <1>10, <2>7, <3>1, <3>2, <3>3 DEF Offsets, AtEnd
  <2> QED BY <2>7, <2>12, <2>13, <2>14, <2>15, <2>16, <2>17, <2>18, <2>19 DEF IInv
<1>11. \/ f.updated < f.total /\ Finish(f, "SUCCESS", Untouched)
       \/ /\ f.updated >= f.total /\ fw' = f
          /\ Flashed(Destroy(Untouched)) /\ Cached(Destroy(Untouched))
          /\ engine' = [engine EXCEPT !.pc = "verify"]
          /\ UNCHANGED <<ota, gsid, list, started, task, ack>>
  BY <1>4 DEF Written
<1> QED BY <1>9, <1>10, <1>11

LEMMA VerifyFailsStep ==
    ASSUME NEW t, Tasks = {t}, IInv(t), VerifyFails
    PROVE  IInv(t)'
<1>1. engine.pc = "verify"
  BY DEF VerifyFails
<1>2. PICK e \in {"MEM", "IO", "CRC"} :
        Finish([fw EXCEPT !.state = fw.state \cup {e}], e, Untouched)
  BY DEF VerifyFails
<1>3. PICK f : f = [fw EXCEPT !.state = fw.state \cup {e}]
  OBVIOUS
<1>4. fw \in FwSet /\ fw.updated >= fw.total
  BY <1>1, InsideFacts DEF AtEnd
<1>5. f \in FwSet /\ f.busy = fw.busy /\ f.sid = fw.sid /\ ~(f.updated < f.total)
  BY <1>3, <1>4 DEF FwSet, State
<1>6. e \in Status \ {"none", "IDLE"}
  BY DEF Status
<1> QED BY <1>1, <1>2, <1>3, <1>5, <1>6, FinishOK

LEMMA CompleteStep ==
    ASSUME NEW t, Tasks = {t}, IInv(t), Complete
    PROVE  IInv(t)'
<1>1. /\ engine.pc = "complete"
      /\ Finish([fw EXCEPT !.state = fw.state \cup {"COMPLETE"}], "SUCCESS", Untouched)
  BY DEF Complete
<1>2. PICK f : f = [fw EXCEPT !.state = fw.state \cup {"COMPLETE"}]
  OBVIOUS
<1>3. fw \in FwSet /\ fw.updated >= fw.total
  BY <1>1, InsideFacts DEF AtEnd
<1>4. f \in FwSet /\ f.busy = fw.busy /\ f.sid = fw.sid /\ ~(f.updated < f.total)
  BY <1>2, <1>3 DEF FwSet, State
<1>5. "SUCCESS" \in Status \ {"none", "IDLE"}
  BY DEF Status
<1> QED BY <1>1, <1>2, <1>4, <1>5, FinishOK

\* The steps of the engine after the last data that do not end its turn.
LEMMA EndingOK ==
    ASSUME NEW t, Tasks = {t}, IInv(t), engine.pc \in AtEnd,
           NEW pc \in AtEnd \ {"verify"}, engine' = [engine EXCEPT !.pc = pc],
           UNCHANGED <<ota, gsid, fw, list, started, task, cache, ack>>,
           pc \in {"erase", "footer"} => fw.dest = "firmware",
           good' \subseteq {1, 2}, footer' \in 0 .. 3,
           footer' \in good' \/ (footer' = 0 /\ pc = "footer"), pc = "footer" => footer' = 0,
           pc = "erase" => Aim /\ footer' = footer /\ TargetSlot \in good'
                           /\ (cache.fill # 0 => cache.sector \in Loose),
           pc = "footer" => \E s \in good' : fw.base = SlotBase(s)
    PROVE  IInv(t)'
<1>1. /\ engine' \in [pc : Place, cur : Tasks \cup {NoTask}, next : Tasks \cup {NoTask},
                      left : 0 .. MaxChunk]
      /\ engine'.pc = pc /\ engine'.cur = engine.cur /\ engine'.next = engine.next
  BY DEF IInv, Typed, Place, AtEnd
<1>2. Typed'
  BY <1>1 DEF IInv, Typed
<1>3. BootSafe'
  BY <1>1 DEF BootSafe
<1>4. Progress'
  BY <1>1 DEF IInv, Progress, AtEnd, HasHeader, Ended
<1>5. pc = "erase" => TargetSlot' = TargetSlot /\ Loose' = Loose
  BY DEF TargetSlot, Loose
<1>6. Aimed'
  BY <1>1, <1>5 DEF Aimed, Aim, AtEnd
<1>7. CacheSafe'
  BY <1>1, <1>5 DEF CacheSafe, AtEnd
<1>8. Turn(t)' /\ Session(t)'
  <2>1. engine.pc # "idle" /\ pc # "idle"
    BY DEF AtEnd
  <2> QED BY <1>1, <2>1 DEF IInv, Turn, Session
<1>9. Offsets(t)'
  <2>1. /\ engine.pc # "write" /\ pc # "write" /\ list = <<t>>
    BY Handling DEF AtEnd
  <2>2. ~Taken(t) /\ ~Taken(t)'
    BY <1>1, <2>1 DEF Taken
  <2> QED BY <1>1, <2>1, <2>2 DEF IInv, Offsets, Agreed, HasHeader, Ended
<1> QED BY <1>1, <1>2, <1>3, <1>4, <1>6, <1>7, <1>8, <1>9 DEF IInv

LEMMA VerifyStep ==
    ASSUME NEW t, Tasks = {t}, IInv(t), Verify
    PROVE  IInv(t)'
<1>1. /\ engine.pc = "verify" /\ engine' = [engine EXCEPT !.pc = Verified]
      /\ good' = good \cup {s \in {1, 2} : fw.base = SlotBase(s)}
      /\ UNCHANGED <<ota, gsid, fw, list, started, task, cache, footer, ack>>
  BY DEF Verify
<1>2. footer \in good /\ good \subseteq {1, 2} /\ footer \in 0 .. 3
  BY <1>1, Bootable DEF IInv, Typed
<1>3. fw.received >= HdrLen
  BY <1>1, InsideFacts DEF AtEnd
<1>4. Aim /\ (cache.fill # 0 => cache.sector \in Loose)
  BY <1>1, <1>3 DEF IInv, Aimed, CacheSafe, HasHeader
<1>5. Verified \in {"erase", "complete"} /\ (Verified = "erase" => fw.dest = "firmware")
  BY DEF Verified
<1>6. Verified = "erase" => TargetSlot \in good'
  BY <1>1, <1>4, <1>5 DEF Aim, TargetSlot
<1>7. footer' \in good' /\ good' \subseteq {1, 2} /\ footer' \in 0 .. 3
  BY <1>1, <1>2
<1>8. engine.pc \in AtEnd /\ Verified \in AtEnd \ {"verify"} /\ Verified # "footer"
  BY <1>1, <1>5 DEF AtEnd
<1> QED BY <1>1, <1>4, <1>5, <1>6, <1>7, <1>8, EndingOK

LEMMA EraseFooterStep ==
    ASSUME NEW t, Tasks = {t}, IInv(t), EraseFooter
    PROVE  IInv(t)'
<1>1. /\ engine.pc = "erase" /\ footer' = 0 /\ engine' = [engine EXCEPT !.pc = "footer"]
      /\ UNCHANGED <<ota, gsid, fw, list, started, task, cache, good, ack>>
  BY DEF EraseFooter
<1>2. fw.received >= HdrLen
  BY <1>1, InsideFacts DEF AtEnd
<1>3. Aim /\ fw.dest = "firmware" /\ TargetSlot \in good
  BY <1>1, <1>2 DEF IInv, Aimed, Progress, HasHeader
<1>4. \E s \in good' : fw.base = SlotBase(s)
  BY <1>1, <1>3 DEF Aim
<1>5. good' \subseteq {1, 2} /\ footer' \in 0 .. 3
  BY <1>1 DEF IInv, Typed
<1>6. engine.pc \in AtEnd /\ "footer" \in AtEnd \ {"verify"}
  BY <1>1 DEF AtEnd
<1> QED BY <1>1, <1>3, <1>4, <1>5, <1>6, EndingOK

LEMMA WriteFooterStep ==
    ASSUME NEW t, Tasks = {t}, IInv(t), WriteFooter
    PROVE  IInv(t)'
<1>1. /\ engine.pc = "footer" /\ engine' = [engine EXCEPT !.pc = "complete"]
      /\ footer' = IF \E s \in {1, 2} : fw.base = SlotBase(s)
                   THEN CHOOSE s \in {1, 2} : fw.base = SlotBase(s) ELSE 3
      /\ UNCHANGED <<ota, gsid, fw, list, started, task, cache, good, ack>>
  BY DEF WriteFooter
<1>2. good \subseteq {1, 2}
  BY DEF IInv, Typed
<1>3. PICK s \in good : fw.base = SlotBase(s)
  BY <1>1 DEF IInv, Aimed
<1>4. footer' = s
  <2>1. PICK u \in {1, 2} : footer' = u /\ fw.base = SlotBase(u)
    BY <1>1, <1>2, <1>3
  <2> QED BY <1>2, <1>3, <2>1, BasesOK
<1>5. footer' \in good' /\ good' \subseteq {1, 2} /\ footer' \in 0 .. 3
  <2>1. good' = good
    BY <1>1
  <2>2. s \in {1, 2} /\ {1, 2} \subseteq 0 .. 3
    BY <1>2
  <2> QED BY <1>2, <1>4, <2>1, <2>2
<1>6. engine.pc \in AtEnd /\ "complete" \in AtEnd \ {"verify"}
  BY <1>1 DEF AtEnd
<1> QED BY <1>1, <1>5, <1>6, EndingOK

LEMMA PowerLossStep ==
    ASSUME NEW t, Tasks = {t}, IInv(t), PowerLoss
    PROVE  IInv(t)'
BY RestartedOK DEF PowerLoss, IInv, Typed, BootSafe, flash

-----------------------------------------------------------------------------
(***************************************************************************)
(* The theorems.                                                           *)
(***************************************************************************)
LEMMA InitIInv ==
    ASSUME NEW t, Tasks = {t}, Init
    PROVE  IInv(t)
<1>1. /\ ota = [offset |-> 0, total |-> 0] /\ gsid = 0 /\ fw = Cleared(FALSE, 0)
      /\ list = <<>> /\ started = 0 /\ task[t] = Idle
      /\ task = [u \in Tasks |-> Idle] /\ engine = Resting /\ cache = NoCache
      /\ ack = [of |-> "none", done |-> TRUE, gap |-> FALSE]
      /\ footer = 1 /\ good = {1}
  BY DEF Init
<1>2. 0 \in Nat /\ 0 \in 0 .. Word - 1 /\ 0 \in 0 .. MaxChunk /\ 0 \in 0 .. SectorSize - 1
  BY Sizes
<1>3. Typed
  <2>1. fw \in FwSet
    BY <1>1 DEF FwSet, State, Cleared
  <2>2. engine \in [pc : Place, cur : Tasks \cup {NoTask}, next : Tasks \cup {NoTask},
                    left : 0 .. MaxChunk]
    BY <1>1, <1>2 DEF Resting, Place
  <2>3. task \in [Tasks -> [pc : {"idle", "request", "start", "wait"},
                            len : 0 .. MaxChunk, status : Status]]
    BY <1>1, <1>2 DEF Idle, Status
  <2>4. cache \in [on : BOOLEAN, sector : Nat, fill : 0 .. SectorSize - 1]
    BY <1>1, <1>2 DEF NoCache
  <2>5. ota \in [offset : 0 .. Word - 1, total : TotalLens \cup {0}]
    BY <1>1, <1>2
  <2>6. footer \in 0 .. 3 /\ good \subseteq {1, 2}
    BY <1>1
  <2>7. gsid \in {0, 1} /\ started \in {0, 1}
    BY <1>1
  <2>8. ack \in [of : {"none", "begin", "error", "chunk", "end"}, done : BOOLEAN, gap : BOOLEAN]
    BY <1>1
  <2> QED BY <2>1, <2>2, <2>3, <2>4, <2>5, <2>6, <2>7, <2>8 DEF Typed
<1>4. /\ engine.pc = "idle" /\ cache.fill = 0 /\ fw.state = {} /\ fw.busy = FALSE
      /\ fw.received = 0 /\ fw.total = 0 /\ fw.updated = 0 /\ fw.offset = 0
      /\ task[t].pc = "idle" /\ ota.offset = 0 /\ ota.total = 0
  BY <1>1 DEF Resting, NoCache, Cleared, Idle
<1>5. ~HasHeader
  BY <1>4, Sizes DEF HasHeader
<1>6. BootSafe
  BY <1>1 DEF BootSafe
<1>7. Progress
  BY <1>4, <1>5 DEF Progress, AtEnd
<1>8. Aimed
  BY <1>4, <1>5 DEF Aimed
<1>9. CacheSafe
  BY <1>4, <1>5 DEF CacheSafe
<1>10. Turn(t)
  BY <1>1, <1>4 DEF Turn
<1>11. Session(t)
  BY <1>1, <1>4 DEF Session, Cleared
<1>12. Offsets(t)
  BY <1>4, <1>5 DEF Offsets, Agreed
<1> QED BY <1>3, <1>4, <1>6, <1>7, <1>8, <1>9, <1>10, <1>11, <1>12 DEF IInv

LEMMA NextIInv ==
    ASSUME NEW t, Tasks = {t}, IInv(t), [Next]_vars
    PROVE  IInv(t)'
<1>1. CASE UNCHANGED vars
  <2>1. /\ UNCHANGED <<ota, gsid, list, started, task, ack>>
        /\ UNCHANGED <<fw, engine, cache, flash>>
    BY <1>1 DEF vars, flash
  <2>2. /\ BootSafe' /\ Progress' /\ Aimed' /\ CacheSafe'
        /\ engine'.pc = "footer" => footer' = 0
    BY <2>1, Quiet
  <2>3. Typed'
    BY <2>1 DEF IInv, Typed, flash
  <2>4. Turn(t)' /\ Session(t)'
    BY <2>1 DEF IInv, Turn, Session
  <2>5. Offsets(t)'
    BY <2>1 DEF IInv, Offsets, Agreed, Taken, HasHeader, Ended
  <2> QED BY <2>2, <2>3, <2>4, <2>5 DEF IInv
<1>2. CASE Started /\ \E u \in Tasks : Calls(u)
  <2>1. Started /\ Calls(t)
    BY <1>2
  <2> QED BY <2>1, FileBeginStep, ChunkRefusedStep, ChunkStep, EndStep, RequestRefusedStep,
             RequestStep, StartEngineStep, ReturnStep DEF Calls
<1>3. CASE Started /\ Engine
  BY <1>3, TakeStep, HandleEndedStep, HandleBytesStep, HandleHeaderStep, WrittenStep,
     VerifyFailsStep, VerifyStep, EraseFooterStep, WriteFooterStep, CompleteStep DEF Engine
<1>4. CASE PowerLoss
  BY <1>4, PowerLossStep
<1> QED BY <1>1, <1>2, <1>3, <1>4 DEF Next

LEMMA Invariance ==
    ASSUME NEW t, Tasks = {t}
    PROVE  Spec => []IInv(t)
<1>1. Init => IInv(t)
  BY InitIInv
<1>2. IInv(t) /\ [Next]_vars => IInv(t)'
  BY NextIInv
<1> QED BY <1>1, <1>2, PTL DEF Spec

\* Where one task updates, the boot footer names a slot whose image passed the
\* check and was not written to since, or is rewritten at this moment, or the
\* device was cut off while it was (fwup_scheduler, tls_fls_fast_write and the
\* boot footer), for every size of the flash, the header and the chunks.
THEOREM BootsTheCheckedImage ==
    ASSUME NEW t, Tasks = {t}
    PROVE  Spec => []BootSafe
<1>1. IInv(t) => BootSafe
  BY DEF IInv
<1> QED BY <1>1, Invariance, PTL

\* Where one task updates, what the controller counts as received and what the
\* engine was given and has written stay together, through sessions that are
\* given up and begun again (struOtaInfo, struct tls_fwup).
THEOREM UpdateIsSound ==
    ASSUME NEW t, Tasks = {t}
    PROVE  Spec => []UpdateSound
<1>1. IInv(t) => UpdateSound
  <2> SUFFICES ASSUME IInv(t) PROVE UpdateSound
    OBVIOUS
  <2>1. TypeOK
    <3>1. Cardinality(Tasks) = 1
      BY FS_Singleton
    <3>2. started \in 0 .. Cardinality(Tasks)
      BY <3>1 DEF IInv, Typed
    <3>3. list \in Seq(Tasks)
      <4>1. list = <<>> \/ list = <<t>>
        BY DEF IInv, Turn
      <4>2. <<>> \in Seq(Tasks) /\ <<t>> \in Seq(Tasks)
        OBVIOUS
      <4> QED BY <4>1, <4>2
    <3>4. /\ fw.busy \in BOOLEAN /\ fw.sid \in {0, 1}
          /\ fw.state \subseteq {"BUSY", "COMPLETE", "IO", "SIGNATURE", "MEM", "CRC"}
          /\ {fw.received, fw.total, fw.updated, fw.base, fw.offset} \subseteq Nat
          /\ fw.dest \in {"firmware", "data"}
      BY DEF IInv, Typed, FwSet, State
    <3>5. \A u \in Tasks : /\ task[u].pc \in {"idle", "request", "start", "wait"}
                           /\ task[u].len \in 0 .. MaxChunk
      BY DEF IInv, Typed
    <3>6. /\ engine.cur \in Tasks \cup {NoTask} /\ engine.next \in Tasks \cup {NoTask}
          /\ engine.left \in 0 .. MaxChunk
      BY DEF IInv, Typed
    <3>7. /\ cache.on \in BOOLEAN /\ cache.sector \in Nat
          /\ cache.fill \in 0 .. SectorSize - 1
      BY DEF IInv, Typed
    <3>8. /\ ota \in [offset : 0 .. Word - 1, total : TotalLens \cup {0}]
          /\ gsid \in {0, 1} /\ footer \in 0 .. 3 /\ good \subseteq {1, 2}
      BY DEF IInv, Typed
    <3> QED BY <3>2, <3>3, <3>4, <3>5, <3>6, <3>7, <3>8 DEF TypeOK
  <2>2. OffsetsAgree
    <3>1. SUFFICES ASSUME task[t].pc = "idle", ota.offset # 0, fw.busy, gsid = fw.sid, ~Ended,
                          ~ack.gap
                   PROVE  /\ fw.received = ota.offset
                          /\ fw.received >= HdrLen => fw.received = HdrLen + fw.updated
                          /\ fw.offset = fw.updated
      BY DEF OffsetsAgree
    <3>2. fw.received = ota.offset
      BY <3>1 DEF IInv, Offsets, Agreed
    <3>3. engine.pc # "write"
      BY <3>1 DEF IInv, Turn
    <3>4. HasHeader => fw.received = HdrLen + fw.updated + 0
      BY <3>1, <3>3 DEF IInv, Offsets
    <3>5. HdrLen + fw.updated + 0 = HdrLen + fw.updated
      BY Sizes DEF IInv, Typed, FwSet
    <3>6. fw.offset = fw.updated
      BY DEF IInv, Progress
    <3> QED BY <3>2, <3>4, <3>5, <3>6 DEF HasHeader
  <2>3. WritesAimed
    <3>1. SUFFICES ASSUME engine.pc = "write"
                   PROVE  fw.busy /\ cache.on /\ fw.base # 0 /\ fw.received >= HdrLen
      BY DEF WritesAimed
    <3>2. fw.busy /\ fw.received >= HdrLen
      BY <3>1, Handling, InsideFacts
    <3>3. cache.on
      BY <3>1, <3>2 DEF IInv, CacheSafe, AtEnd
    <3>4. Aim
      BY <3>1, <3>2 DEF IInv, Aimed, HasHeader
    <3>5. fw.base # 0
      BY <3>4, BasesOK DEF Aim, TargetSlot
    <3> QED BY <3>2, <3>3, <3>5
  <2> QED BY <2>1, <2>2, <2>3 DEF UpdateSound
<1> QED BY <1>1, Invariance, PTL
=============================================================================
