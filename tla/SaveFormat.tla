------------------------------ MODULE SaveFormat ------------------------------
(***************************************************************************)
(* The bytes of a savegame: the memory's chunks become records that are    *)
(* packed in a buffer and flushed on the card's grid, or are written one   *)
(* by one, or raw; the sections are found again and read ahead or one by   *)
(* one. Lengths are in units; a record's payload is its place in memory.   *)
(* What a failed write or read leads to is SaveLoad's; here it ends.       *)
(***************************************************************************)
EXTENDS Integers, Sequences, SequencesExt

CONSTANTS
  Grid,       \* a chunk of memory, and a cluster of the card (SAVE_CHUNK_SIZE = SAVE_ALIGN)
  RecordHead, \* a record's two words
  Bound,      \* the most a chunk may take while it is encoded (COMPRESS_BUF_SIZE)
  Buffer,     \* the buffer (IOBUF_SIZE)
  Unit,       \* a flush, and a read ahead (g_iobuf_flush_kb)
  Packed,     \* lengths a chunk may shrink to; one that does not shrink is stored raw
  Chunks,     \* Chunks[section]: its chunks
  Contexts    \* lengths the contexts behind the VRAM may have

Sections == {"ram", "vram", "kernel"}
ASSUME FormatAssumption ==
  /\ {Grid, RecordHead, Bound, Buffer, Unit} \subseteq Nat \ {0} /\ Contexts \subseteq Nat
  /\ Packed \subseteq 1 .. Grid - 1 /\ Chunks \in [Sections -> Nat \ {0}]
  /\ Buffer % Grid = 0 /\ Unit % Grid = 0 /\ Grid < Bound /\ RecordHead + Bound <= Unit
  /\ Unit <= Buffer - Grid /\ Chunks["vram"] * (Grid + RecordHead) + Bound + RecordHead <= Buffer - Grid

VARIABLES
  compress,  \* g_compress
  batched,   \* use_iobuf of the section at work
  phase,     \* the section being written or read, "whole", "failed" or "frozen"
  certain,   \* io_ok
  chunk,     \* the chunk of the section that is next (off)
  fill,      \* the records in the buffer
  medium,      \* the card: records, pads and raw chunks with their place
  pos,       \* the file position
  starts,    \* vram_pos and kernel_pos
  cursor,    \* the reader's place in the file (ra_reader: pos is behind what it holds)
  restored,  \* the chunks put back in the section at work
  flushed    \* history: where the last flush of the buffer began and ended, and its section

formatVars == <<compress, batched, phase, certain, chunk, fill, medium, pos, starts, cursor, restored, flushed>>

Up(n) == ((n + Grid - 1) \div Grid) * Grid
EndOf(records) == IF records = <<>> THEN 0 ELSE Last(records).at + Last(records).len

\* batching is tried only for records, and only while the memory protection opens (iobuf_open_verified)
Batches == IF compress THEN BOOLEAN ELSE {FALSE}
\* encode_chunk: a chunk that shrank, or the chunk; raw without its words in fast mode
Encoded == IF compress THEN {cs + RecordHead : cs \in Packed \cup {Grid}} ELSE {Grid}

\* RAM_SECTION_OFFSET: the header's cluster
FormatInit ==
  /\ compress \in BOOLEAN /\ batched \in Batches /\ certain = TRUE
  /\ phase = "ram" /\ chunk = 1 /\ fill = <<>> /\ medium = <<>> /\ pos = Up(1)
  /\ starts = [ram |-> Up(1), vram |-> 0, kernel |-> 0] /\ cursor = 0 /\ restored = <<>> /\ flushed = <<0, 0, "ram">>

-----------------------------------------------------------------------------
(* The writer *)

Writing == phase \in Sections
IsPadded == phase # "vram"
Limit == IF IsPadded THEN Unit ELSE Buffer - Grid    \* flush_threshold

\* iobuf_flush_padded: up to the next cluster, with room for the pad's own words
Pads(n) == Up(n + RecordHead) - n

\* the buffer goes to the card
Flush(records) ==
  LET len == EndOf(records)
      pad == IF IsPadded THEN <<[section |-> "pad", n |-> 0, at |-> len, len |-> Pads(len)]>> ELSE <<>>
      all == records \o pad
  IN /\ medium' = medium \o [k \in 1 .. Len(all) |-> [all[k] EXCEPT !.at = @ + pos]]
     /\ pos' = pos + EndOf(all) /\ fill' = <<>> /\ flushed' = <<pos, pos', phase>>

\* Variant: looks at what is there, not at what may come.
OverrunsAlready(len) == len > Limit
\* a worst record behind it might overrun
MightOverrun(len) == len + Bound + RecordHead > Limit

\* save_region_records with the buffer: encode a chunk, flush before the next might not fit, and the tail
Batch ==
  /\ Writing /\ batched /\ chunk <= Chunks[phase] /\ chunk' = chunk + 1
  /\ \E len \in Encoded :
       LET records == Append(fill, [section |-> phase, n |-> chunk, at |-> EndOf(fill), len |-> len])
       IN IF MightOverrun(EndOf(records)) \/ chunk = Chunks[phase] THEN Flush(records)
          ELSE fill' = records /\ UNCHANGED <<medium, pos, flushed>>
  /\ UNCHANGED <<compress, batched, phase, certain, starts, cursor, restored>>

\* ... without it, or write_region_direct and write_vram_staged: straight to the card
WriteChunk ==
  /\ Writing /\ ~batched /\ chunk <= Chunks[phase] /\ chunk' = chunk + 1
  /\ \E len \in Encoded :
       /\ medium' = Append(medium, [section |-> phase, n |-> chunk, at |-> pos, len |-> len])
       /\ pos' = pos + len
  /\ UNCHANGED <<compress, batched, phase, certain, fill, starts, cursor, restored, flushed>>

\* the card is full or the buffer is taken away: before the kernel the save is given up, a kernel cut
\* short leaves a file that no load accepts, and the game is restored from what is before it
GiveUp ==
  /\ Writing /\ certain /\ certain' = FALSE /\ fill' = <<>>
  /\ IF phase = "kernel" THEN chunk' = Chunks[phase] + 1 /\ UNCHANGED phase
     ELSE phase' = "failed" /\ UNCHANGED chunk
  /\ UNCHANGED <<compress, batched, medium, pos, starts, cursor, restored, flushed>>

\* kernel_pos: behind the contexts, on the grid
KernelPlace(len) == Up(pos + len)

\* FreezeSave: the next section, the VRAM where the RAM ended, the kernel behind the contexts
NextSection ==
  /\ Writing /\ phase # "kernel" /\ chunk > Chunks[phase] /\ chunk' = 1
  /\ IF phase = "ram"
     THEN phase' = "vram" /\ starts' = [starts EXCEPT !.vram = pos] /\ UNCHANGED <<pos, batched>>
     ELSE /\ phase' = "kernel" /\ batched' \in Batches
          /\ \E len \in Contexts : pos' = KernelPlace(len) /\ starts' = [starts EXCEPT !.kernel = pos']
  /\ UNCHANGED <<compress, certain, fill, medium, cursor, restored, flushed>>

-----------------------------------------------------------------------------
(* The reader *)

Reading == phase \in {"read ram", "read vram", "read kernel"}
Section == CASE phase = "read ram" -> "ram" [] phase = "read vram" -> "vram" [] OTHER -> "kernel"

Seek(section) == pos' = starts[section] /\ cursor' = pos' /\ chunk' = 1 /\ restored' = <<>>

\* a save's tail, and a load's, restore the RAM and then the VRAM; a load has read the kernel before
\* that, one record at a time
Begin ==
  /\ phase = "kernel" /\ chunk > Chunks[phase]
  /\ \/ phase' = "read ram" /\ Seek("ram") /\ batched' \in Batches
     \/ certain /\ phase' = "read kernel" /\ Seek("kernel") /\ batched' = FALSE
  /\ UNCHANGED <<compress, certain, fill, medium, starts, flushed>>

\* the region is whole: the next, or the game resumes
SectionRead ==
  /\ Reading /\ chunk > Chunks[Section]
  /\ CASE phase = "read kernel" -> phase' = "read ram" /\ Seek("ram") /\ batched' \in Batches
       [] phase = "read ram"    -> phase' = "read vram" /\ Seek("vram") /\ UNCHANGED batched
       [] OTHER                 -> phase' = "whole" /\ UNCHANGED <<pos, cursor, chunk, restored, batched>>
  /\ UNCHANGED <<compress, certain, fill, medium, starts, flushed>>

Eof == EndOf(medium)
Lesser(a, b) == IF a < b THEN a ELSE b
\* ra_need and sceIoRead: where the position is once n are at hand behind the cursor
Ahead(n) ==
  IF ~batched THEN cursor + n ELSE IF cursor + n <= pos THEN pos ELSE Lesser(pos + Unit, Eof)

\* what is at the cursor
Here == {k \in 1 .. Len(medium) : medium[k].at = cursor}

\* Variant: a pad is counted as a chunk.
ReadCountsPad(r) == chunk' = chunk + 1 /\ UNCHANGED restored
SkipPad(r) == UNCHANGED <<chunk, restored>>

\* restore_region_records: a record at a time, pads skipped
ReadRecord ==
  /\ Reading /\ chunk <= Chunks[Section]
  /\ \E k \in Here :
       LET r == medium[k]
       IN /\ cursor + r.len <= Eof /\ pos' = Ahead(r.len) /\ cursor' = cursor + r.len
          /\ IF r.section = "pad" THEN SkipPad(r)
             ELSE chunk' = chunk + 1 /\ restored' = Append(restored, [section |-> r.section, n |-> r.n])
  /\ UNCHANGED <<compress, batched, phase, certain, fill, medium, starts, flushed>>

\* a read fails, or the buffer is taken away: the game stays frozen
ReadFails ==
  /\ Reading /\ phase' = "frozen"
  /\ UNCHANGED <<compress, batched, certain, chunk, fill, medium, pos, starts, cursor, restored, flushed>>

FormatNext == Batch \/ WriteChunk \/ GiveUp \/ NextSection \/ Begin \/ SectionRead \/ ReadRecord \/ ReadFails
FormatSpec == FormatInit /\ [][FormatNext]_formatVars

-----------------------------------------------------------------------------
(* What must hold *)

\* What is encoded next fits the buffer whatever it shrinks to, and so does the pad; what is read ahead
\* fits it too, the rest of the last read included (iobuf_flush_padded's "safety net" never cuts in).
FormatTypeOK ==
  /\ compress \in BOOLEAN /\ batched \in Batches /\ certain \in BOOLEAN
  /\ phase \in Sections \cup {"read ram", "read vram", "read kernel", "whole", "failed", "frozen"}
  /\ chunk \in Nat \ {0} /\ pos \in Nat /\ cursor \in Nat /\ starts \in [Sections -> Nat]
  /\ EndOf(fill) + Bound + RecordHead <= Limit
  /\ \A k \in 1 .. Len(medium) : medium[k].section = "pad" => medium[k].len - RecordHead \in 0 .. Grid - 1
  /\ Reading /\ batched => pos - cursor \in 0 .. Buffer - Grid

\* A flush begins on the card's grid, and ends there when it is padded: no flush makes the card read a
\* cluster back, whatever the chunks shrank to and the contexts took (fatsave.c, iobuf_flush_padded).
FlushesOnGrid ==
  /\ flushed[1] % Grid = 0 /\ (flushed[3] # "vram" => flushed[2] % Grid = 0)
  /\ \A k \in 1 .. Len(medium) - 1 : EndOf(SubSeq(medium, 1, k)) <= medium[k + 1].at

\* However a section was written, batched or not, reading it batched or not meets its chunks, all and
\* in order: the reader never stands where nothing begins, nor on another section's chunk.
ReadsBack ==
  Reading =>
    /\ restored = [k \in 1 .. chunk - 1 |-> [section |-> Section, n |-> k]]
    /\ chunk <= Chunks[Section] => \E k \in Here : medium[k].section \in {"pad", Section}

\* What is written lies on the grid and is read back as it was.
SectionsReadBack == FlushesOnGrid /\ ReadsBack
===============================================================================
