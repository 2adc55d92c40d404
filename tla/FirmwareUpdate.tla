--------------------------- MODULE FirmwareUpdate ---------------------------
(***************************************************************************)
(* The update of the module's firmware over the air: the update messages   *)
(* of the protocol controller (PCT_HandleOta... for messages of the cloud, *)
(* PCT_ModuleOta... for messages of the device), the adapter's             *)
(* HF_FirmwareUpdate and HF_FirmwareUpdateFinish, the update engine        *)
(* fwup_scheduler with its wait list, and the sector cache of              *)
(* tls_fls_fast_write.                                                     *)
(*                                                                         *)
(* Lengths and addresses are numbers, the contents of an image are not     *)
(* modelled: whether a header has the signature, and whether the checksum  *)
(* of what was written is the one in the header, are choices.  The flash   *)
(* is two neighbouring slots for images and the boot footer in sector 0,   *)
(* which names the slot the device boots from.                             *)
(*                                                                         *)
(* The update engine has a higher priority (26) than the device's task     *)
(* (31) and the cloud task (59), so these run only while it waits for a    *)
(* message or for the flash.  The device's task can preempt the cloud      *)
(* task anywhere.  The image source is always TLS_FWUP_IMAGE_SRC_WEB.      *)
(***************************************************************************)
EXTENDS Integers, FiniteSets, Sequences, SequencesExt

CONSTANTS
    Tasks,        \* those that update: "cloud" and, where a device does, "module"
    HdrLen,       \* sizeof(struct tls_fwup_image_hdr)
    ReqLen,       \* sizeof(ZC_OtaFileChunkReq)
    MaxChunk,     \* ZC_OTA_MAX_CHUNK_LEN
    SectorSize,
    SlotSectors,  \* sectors from TLS_FLASH_FIRMWARE1_ADDR to ..FIRMWARE2_ADDR
    TotalLens,    \* values of u32FileTotalLen in a FILE_BEGIN message
    FileLens,     \* values of file_len in an image header
    Payloads,     \* values of Payloadlen of a FILE_CHUNK message
    Word          \* 2^32, the width of the length arithmetic

\* The lengths: a slot has several sectors, and an image and one more chunk end
\* before its end.  The engine does not check the latter; the images are built
\* for the slots.
ASSUME Sizes ==
    /\ {HdrLen, ReqLen, MaxChunk, SectorSize, SlotSectors, Word} \subseteq Nat \ {0}
    /\ TotalLens \cup FileLens \cup Payloads \subseteq Nat
    /\ MaxChunk <= SectorSize
    /\ SlotSectors # 1
    /\ \A l \in FileLens : l + MaxChunk < SlotSectors * SectorSize
    /\ \A l \in TotalLens \cup Payloads \cup {0} : l + MaxChunk + ReqLen < Word

NoTask == "none"
ASSUME TaskNames == NoTask \notin Tasks

\* The first sector of a slot; the sectors of data files lie behind the slots.
SlotSector(s) == 1 + (s - 1) * SlotSectors
DataSector == SlotSector(3)
SectorsOf(s) == SlotSector(s) .. SlotSector(s) + SlotSectors - 1
SlotBase(s) == SlotSector(s) * SectorSize

VARIABLES
    ota,      \* struOtaInfo: the offset expected next and the total length
    gsid,     \* g_u32session_id
    fw,       \* struct tls_fwup without the wait list
    list,     \* fwup->wait_list, the tasks with a request in it
    started,  \* FWUP_MSG_START_ENGINEER messages in fwup_msg_queue
    task,     \* per task: where it is, the length and the fate of its request
    engine,   \* fwup_scheduler: where it is, the request and its successor
    cache,    \* gsflscache with gsSector and gsSecOffset
    footer,   \* the slot the boot footer names; 0: no footer, 3: no slot
    good,     \* the slots whose contents passed the check and were not touched since
    ack       \* what was last answered, whether that was done, and whether a
              \* chunk was acknowledged but not taken since the last FILE_BEGIN

vars == <<ota, gsid, fw, list, started, task, engine, cache, footer, good, ack>>
flash == <<footer, good>>

Idle == [pc |-> "idle", len |-> 0, status |-> "none"]
Resting == [pc |-> "idle", cur |-> NoTask, next |-> NoTask, left |-> 0]

\* struct tls_fwup as tls_fwup_init, tls_fwup_enter and tls_fwup_exit leave it.
\* (A session id is a random number that is never zero and is compared with the
\* latest one only, so 1 stands for it.)
Cleared(busy, sid) ==
    [busy |-> busy, sid |-> sid, state |-> {}, received |-> 0, total |-> 0,
     updated |-> 0, base |-> 0, offset |-> 0, dest |-> "firmware"]

NoCache == [on |-> FALSE, sector |-> 0, fill |-> 0]

\* Everything in RAM after a restart.
Restarted ==
    /\ ota' = [offset |-> 0, total |-> 0]
    /\ gsid' = 0
    /\ fw' = Cleared(FALSE, 0)
    /\ list' = <<>>
    /\ started' = 0
    /\ task' = [t \in Tasks |-> Idle]
    /\ engine' = Resting
    /\ cache' = NoCache
    /\ ack' = [of |-> "none", done |-> TRUE, gap |-> FALSE]

Init ==
    /\ ota = [offset |-> 0, total |-> 0]
    /\ gsid = 0
    /\ fw = Cleared(FALSE, 0)
    /\ list = <<>>
    /\ started = 0
    /\ task = [t \in Tasks |-> Idle]
    /\ engine = Resting
    /\ cache = NoCache
    /\ ack = [of |-> "none", done |-> TRUE, gap |-> FALSE]
    /\ footer = 1
    /\ good = {1}

-----------------------------------------------------------------------------
(***************************************************************************)
(* The tasks that receive update messages.                                 *)
(***************************************************************************)

\* PCT_HandleOtaFileBeginMsg, PCT_ModuleOtaFileBeginMsg
FileBegin(t) ==
    /\ task[t].pc = "idle"
    /\ \E total \in TotalLens : ota' = [offset |-> 0, total |-> total]
    /\ ack' = [of |-> "begin", done |-> TRUE, gap |-> FALSE]
    /\ UNCHANGED <<gsid, fw, list, started, task, engine, cache, flash>>

\* u32FileLen, computed without a check that the payload holds the request
FileLen(payload) == (payload - ReqLen) % Word

\* The parameter check of both chunk handlers.
MutChunkAnywhere(offset, len) ==
    /\ (offset + len) % Word <= ota.total
    /\ len <= MaxChunk
ChunkFits(offset, len) ==
    /\ offset = ota.offset
    /\ (offset + len) % Word <= ota.total
    /\ len <= MaxChunk

\* A chunk that fails the check (or, from the device, its CRC): an error message.
ChunkRefused(t) ==
    /\ task[t].pc = "idle"
    /\ ack' = [ack EXCEPT !.of = "error", !.done = FALSE]
    /\ UNCHANGED <<ota, gsid, fw, list, started, task, engine, cache, flash>>

\* tls_fwup_enter while no session is open; a cache that is still there stays as
\* it is.
Enter ==
    /\ gsid' = 1
    /\ fw' = Cleared(TRUE, 1)
    /\ cache' = [cache EXCEPT !.on = TRUE]

\* PCT_HandleOtaFileChunkMsg, PCT_ModuleOtaFileChunkMsg up to the request:
\* HF_FirmwareUpdate opens a session for the chunk at offset 0.
Chunk(t) ==
    /\ task[t].pc = "idle"
    /\ \E payload \in Payloads, offset \in 0 .. Word - 1 :
        LET len == FileLen(payload)
            called == [task EXCEPT ![t] = [pc |-> "request", len |-> len, status |-> "IDLE"]]
        IN
        /\ ChunkFits(offset, len)
        /\ \/ /\ offset = 0 /\ ~fw.busy
              /\ Enter
              /\ task' = called
              /\ UNCHANGED ack
           \/ /\ offset = 0 /\ fw.busy
              /\ gsid' = 0
              /\ ack' = [ack EXCEPT !.of = "error", !.done = FALSE]
              /\ UNCHANGED <<fw, cache, task>>
           \/ /\ offset # 0
              /\ task' = called
              /\ UNCHANGED <<gsid, fw, cache, ack>>
    /\ UNCHANGED <<ota, list, started, engine, flash>>

\* The end of a chunk handler.  tls_fwup_request_sync returns a status that is
\* never negative, so that HF_FirmwareUpdate returns ZC_RET_OK for each of them.
Answer(t, success) ==
    /\ ota' = [ota EXCEPT !.offset = (@ + task[t].len) % Word]
    /\ task' = [task EXCEPT ![t] = Idle]
    /\ ack' = [of |-> "chunk", done |-> success, gap |-> ack.gap \/ ~success]

\* tls_fwup_request_sync refuses the request: another session, no data, or (at
\* any time) no semaphore.
RequestRefused(t) ==
    /\ task[t].pc = "request"
    /\ Answer(t, task[t].len = 0)
    /\ UNCHANGED <<gsid, fw, list, started, engine, cache, flash>>

\* tls_fwup_request_sync, tls_fwup_request_async: the request is queued; the
\* engine is started if the list was empty.
MutQueued(t) == [task EXCEPT ![t].pc = "wait"]
Queued(t) == [task EXCEPT ![t].pc = IF list = <<>> THEN "start" ELSE "wait"]
Request(t) ==
    /\ task[t].pc = "request"
    /\ gsid = fw.sid
    /\ task[t].len # 0
    /\ list' = Append(list, t)
    /\ task' = Queued(t)
    /\ UNCHANGED <<ota, gsid, fw, started, engine, cache, flash, ack>>

StartEngine(t) ==
    /\ task[t].pc = "start"
    /\ started' = started + 1
    /\ task' = [task EXCEPT ![t].pc = "wait"]
    /\ UNCHANGED <<ota, gsid, fw, list, engine, cache, flash, ack>>

\* The semaphore of the request was released by fwup_request_complete.
Return(t) ==
    /\ task[t].pc = "wait"
    /\ task[t].status # "IDLE"
    /\ Answer(t, task[t].status = "SUCCESS")
    /\ UNCHANGED <<gsid, fw, list, started, engine, cache, flash>>

\* PCT_HandleOtaEndMsg, PCT_ModuleOtaFileEndMsg: HF_FirmwareUpdateFinish drops
\* the result of tls_fwup_exit.
Exits == fw.busy /\ gsid = fw.sid /\ "BUSY" \notin fw.state
End(t) ==
    /\ task[t].pc = "idle"
    /\ fw' = IF Exits THEN Cleared(FALSE, 0) ELSE fw
    /\ ack' = [ack EXCEPT !.of = "end", !.done = Exits]
    /\ UNCHANGED <<ota, gsid, list, started, task, engine, cache, flash>>

-----------------------------------------------------------------------------
(***************************************************************************)
(* The sector cache.  The operators below return the cache with one more   *)
(* field, the sectors that were erased and written on the way.             *)
(***************************************************************************)

Untouched == [on |-> cache.on, sector |-> cache.sector, fill |-> cache.fill, touched |-> {}]

\* tls_fls_flush_sector
Flush(c) == [c EXCEPT !.touched = @ \cup {c.sector}, !.fill = 0]

\* One turn of the loop of tls_fls_fast_write with n bytes.
CacheBytes(c, n) ==
    IF c.fill + n >= SectorSize
    THEN [Flush(c) EXCEPT !.sector = @ + 1]
    ELSE [c EXCEPT !.fill = @ + n]

\* tls_fls_fast_write: the bytes up to the end of the sector, then the rest.
FastWrite(addr, len) ==
    LET sector == addr \div SectorSize
        room == SectorSize - (addr % SectorSize)
        first == IF len > room THEN room ELSE len
        flushed == IF cache.sector # sector /\ cache.fill # 0
                   THEN Flush(Untouched) ELSE Untouched
        once == CacheBytes([flushed EXCEPT !.sector = sector], first)
    IN IF len > first THEN CacheBytes(once, len - first) ELSE once

\* tls_fls_fast_write_destroy
Destroy(c) == IF c.on THEN [Flush(c) EXCEPT !.on = FALSE] ELSE c

\* What the flash holds once c was reached.
Flashed(c) ==
    /\ good' = {s \in good : SectorsOf(s) \cap c.touched = {}}
    /\ footer' = IF 0 \in c.touched THEN 0 ELSE footer

Cached(c) == cache' = [on |-> c.on, sector |-> c.sector, fill |-> c.fill]

-----------------------------------------------------------------------------
(***************************************************************************)
(* fwup_scheduler                                                          *)
(***************************************************************************)

\* The request after t in the wait list.
After(t, l) ==
    LET i == CHOOSE k \in 1 .. Len(l) : l[k] = t
    IN IF i < Len(l) THEN l[i + 1] ELSE NoTask

\* FWUP_MSG_START_ENGINEER is received; it is sent with a request in the list.
Take ==
    /\ engine.pc = "idle"
    /\ started > 0
    /\ started' = started - 1
    /\ fw' = [fw EXCEPT !.state = @ \cup {"BUSY"}]
    /\ engine' = [pc |-> "handle", cur |-> Head(list),
                  next |-> After(Head(list), list), left |-> 0]
    /\ UNCHANGED <<ota, gsid, list, task, cache, flash, ack>>

\* The next turn of dl_list_for_each_safe: the successor was read before the
\* request was handled, the one after it is read now.
NextTurn(l) ==
    IF engine.next = NoTask THEN Resting
    ELSE [pc |-> "handle", cur |-> engine.next,
          next |-> After(engine.next, l), left |-> 0]

\* From request_finish on, with the engine's data f and the cache c: the request
\* leaves the list, its task is released, and the device restarts when as much
\* was written as the header announced (both are 0 before there is a header).
Finish(f, status, c) ==
    LET l == RemoveFirst(list, engine.cur)
    IN
    /\ Flashed(c)
    /\ IF f.updated >= f.total
       THEN Restarted
       ELSE /\ list' = l
            /\ fw' = IF l = <<>> THEN [f EXCEPT !.state = @ \ {"BUSY"}] ELSE f
            /\ task' = [task EXCEPT ![engine.cur].status = status]
            /\ engine' = NextTurn(l)
            /\ Cached(c)
            /\ UNCHANGED <<ota, gsid, started, ack>>

Ended == fw.state \cap {"IO", "SIGNATURE", "MEM", "CRC", "COMPLETE"} # {}

\* After an error, or after the end, all requests fail.
HandleEnded ==
    /\ engine.pc = "handle"
    /\ Ended
    /\ Finish(fw, "FAILED", Untouched)

\* The slot that a firmware image goes to.
MutTargetSlot == 1
TargetSlot == IF footer = 1 THEN 2 ELSE 1

\* What is left of the data goes to the cache and from there to the flash, unless
\* a data file is aimed beyond the end of the flash.
Proceed(f, left) ==
    \/ /\ left = 0
       /\ Finish(f, "SUCCESS", Untouched)
    \/ /\ left > 0
       /\ f.dest = "data"
       /\ Finish([f EXCEPT !.state = @ \cup {"IO"}], "IO", Untouched)
    \/ /\ left > 0
       /\ engine' = [engine EXCEPT !.pc = "write", !.left = left]
       /\ fw' = f
       /\ LET c == FastWrite(f.base + f.offset, left) IN Flashed(c) /\ Cached(c)
       /\ UNCHANGED <<ota, gsid, list, started, task, ack>>

\* A request without the end of the header: all of it, or none of it, is header.
HandleBytes ==
    /\ engine.pc = "handle"
    /\ ~Ended
    /\ LET len == task[engine.cur].len
           f == [fw EXCEPT !.received = @ + len]
       IN \/ fw.received >= HdrLen /\ Proceed(f, len)
          \/ f.received < HdrLen /\ Proceed(f, 0)

\* A request with the end of the header: the wrong signature or a footer that
\* cannot be read, a firmware image, or a data file.
HandleHeader ==
    /\ engine.pc = "handle"
    /\ ~Ended
    /\ LET len == task[engine.cur].len
           f == [fw EXCEPT !.received = @ + len, !.updated = 0]
           left == f.received - HdrLen
       IN /\ fw.received < HdrLen
          /\ left >= 0
          /\ \/ \E e \in {"SIGNATURE", "IO"} :
                   Finish([fw EXCEPT !.received = HdrLen, !.state = @ \cup {e}],
                          e, Untouched)
             \/ \E total \in FileLens :
                   Proceed([f EXCEPT !.total = total, !.dest = "firmware",
                                     !.base = SlotBase(TargetSlot)], left)
             \/ \E total \in FileLens :
                   Proceed([f EXCEPT !.total = total, !.dest = "data",
                                     !.base = DataSector * SectorSize], left)

\* tls_fls_fast_write returns; after the last data the cache is written out.
Written ==
    /\ engine.pc = "write"
    /\ LET f == [fw EXCEPT !.offset = @ + engine.left, !.updated = @ + engine.left]
           c == Destroy(Untouched)
       IN \/ /\ f.updated < f.total
             /\ Finish(f, "SUCCESS", Untouched)
          \/ /\ f.updated >= f.total
             /\ fw' = f
             /\ Flashed(c)
             /\ Cached(c)
             /\ engine' = [engine EXCEPT !.pc = "verify"]
             /\ UNCHANGED <<ota, gsid, list, started, task, ack>>

\* The image is read back: no memory, a read error or another checksum.
VerifyFails ==
    /\ engine.pc = "verify"
    /\ \E e \in {"MEM", "IO", "CRC"} :
          Finish([fw EXCEPT !.state = @ \cup {e}], e, Untouched)

\* The checksum is the header's.
Verified == IF fw.dest = "firmware" THEN "erase" ELSE "complete"
Verify ==
    /\ engine.pc = "verify"
    /\ engine' = [engine EXCEPT !.pc = Verified]
    /\ good' = good \cup {s \in {1, 2} : fw.base = SlotBase(s)}
    /\ UNCHANGED <<ota, gsid, fw, list, started, task, cache, footer, ack>>

\* tls_fls_write of the boot footer: the sector is erased and written.
EraseFooter ==
    /\ engine.pc = "erase"
    /\ footer' = 0
    /\ engine' = [engine EXCEPT !.pc = "footer"]
    /\ UNCHANGED <<ota, gsid, fw, list, started, task, cache, good, ack>>

WriteFooter ==
    /\ engine.pc = "footer"
    /\ footer' = IF \E s \in {1, 2} : fw.base = SlotBase(s)
                 THEN CHOOSE s \in {1, 2} : fw.base = SlotBase(s) ELSE 3
    /\ engine' = [engine EXCEPT !.pc = "complete"]
    /\ UNCHANGED <<ota, gsid, fw, list, started, task, cache, good, ack>>

Complete ==
    /\ engine.pc = "complete"
    /\ Finish([fw EXCEPT !.state = @ \cup {"COMPLETE"}], "SUCCESS", Untouched)

-----------------------------------------------------------------------------
\* Power is lost (or the footer cannot be written) at any moment.
PowerLoss ==
    /\ Restarted
    /\ UNCHANGED flash

\* A device without a boot footer does not start.
Started == footer # 0 \/ engine.pc = "footer"

\* The engine waits for a message, for the footer it reads or for the flash.
EngineWaits ==
    \/ engine.pc = "idle" /\ started = 0
    \/ engine.pc = "handle" /\ fw.received < HdrLen
    \/ engine.pc \in {"write", "verify", "erase", "footer"}

Calls(t) ==
    \/ FileBegin(t) \/ ChunkRefused(t) \/ Chunk(t) \/ End(t)
    \/ RequestRefused(t) \/ Request(t) \/ StartEngine(t) \/ Return(t)

Engine ==
    \/ Take \/ HandleEnded \/ HandleBytes \/ HandleHeader \/ Written
    \/ VerifyFails \/ Verify \/ EraseFooter \/ WriteFooter \/ Complete

Next ==
    /\ Started
    /\ \/ EngineWaits /\ \E t \in Tasks : Calls(t)
       \/ Engine
       \/ PowerLoss

Spec == Init /\ [][Next]_vars

\* The engine goes on, and so does a task inside a request if the engine waits
\* again and again; nothing makes messages arrive.
FairSpec ==
    /\ Spec
    /\ WF_vars(Started /\ Engine)
    /\ \A t \in Tasks : SF_vars(Started /\ EngineWaits /\ (StartEngine(t) \/ Return(t)))

-----------------------------------------------------------------------------
\* Every variable has its type.
TypeOK ==
    /\ ota \in [offset : 0 .. Word - 1, total : TotalLens \cup {0}]
    /\ gsid \in {0, 1}
    /\ fw.busy \in BOOLEAN /\ fw.sid \in {0, 1}
    /\ fw.state \subseteq {"BUSY", "COMPLETE", "IO", "SIGNATURE", "MEM", "CRC"}
    /\ {fw.received, fw.total, fw.updated, fw.base, fw.offset} \subseteq Nat
    /\ fw.dest \in {"firmware", "data"}
    /\ list \in Seq(Tasks)
    /\ started \in 0 .. Cardinality(Tasks)
    /\ \A t \in Tasks :
          /\ task[t].pc \in {"idle", "request", "start", "wait"}
          /\ task[t].len \in 0 .. MaxChunk
    /\ engine.cur \in Tasks \cup {NoTask}
    /\ engine.next \in Tasks \cup {NoTask}
    /\ engine.left \in 0 .. MaxChunk
    /\ cache.on \in BOOLEAN /\ cache.sector \in Nat /\ cache.fill \in 0 .. SectorSize - 1
    /\ footer \in 0 .. 3
    /\ good \subseteq {1, 2}

\* The boot footer names a slot with an image that passed the check and was not
\* written to since, whatever was updated, given up, started again or cut off
\* by a power loss; there is no footer only while it is rewritten, or after a
\* power loss at that moment.
BootSafe ==
    \/ footer \in good
    \/ footer = 0 /\ (engine.pc = "footer" \/ fw = Cleared(FALSE, 0))

\* In a session that one task feeds, without an error and without a chunk that
\* was refused and acknowledged all the same, what the controller counts as
\* received is what the engine was given, so that the chunks it still accepts
\* follow the bytes in the flash without a gap or an overlap.
OffsetsAgree ==
    \A t \in Tasks :
        (Tasks = {t} /\ task[t].pc = "idle" /\ ota.offset # 0
            /\ fw.busy /\ gsid = fw.sid /\ ~Ended /\ ~ack.gap)
        => /\ fw.received = ota.offset
           /\ fw.received >= HdrLen => fw.received = HdrLen + fw.updated
           /\ fw.offset = fw.updated

\* While data is written the session is open, its cache is there and a header
\* has said where to write.
WritesAimed ==
    engine.pc = "write" =>
        fw.busy /\ cache.on /\ fw.base # 0 /\ fw.received >= HdrLen

\* The session of the engine, the offsets of the controller and what is written
\* stay together through sessions that are given up and begun again.
UpdateSound == TypeOK /\ OffsetsAgree /\ WritesAimed

\* A call of tls_fwup_request_sync returns, or the device restarts.
RequestReturns ==
    \A t \in Tasks : task[t].pc \in {"start", "wait"} ~> task[t].pc = "idle"
=============================================================================
