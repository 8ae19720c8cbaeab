---------------------------- MODULE ReportStore ----------------------------
(***************************************************************************)
(* The journal of one run in flash, src/getting_there/report_store.c over  *)
(* report_flash.c: one start page, the pages of the run's text in order,   *)
(* and an end page once the run is completely saved.                       *)
(*                                                                         *)
(* The foreground runs one operation at a time.  Interrupts come between   *)
(* two flash operations, never inside one, so every sector erased and      *)
(* every page programmed is a step.  Power can be cut at any step, and in  *)
(* the middle of the one under way.                                        *)
(*                                                                         *)
(* A page is its header and its text.  The CRC is abstracted to what it    *)
(* decides: a page written only in part ("torn") is not valid.             *)
(***************************************************************************)
EXTENDS Integers, Sequences

CONSTANTS
  PAGE_COUNT,        \* pages of the journal
  SECTOR_PAGES,      \* pages of an erase sector
  REPORT_PAGE_DATA,  \* text pieces that fit in a page
  Text               \* the pieces of text

StoreAssumption ==
  /\ SECTOR_PAGES \in Nat \ {0} /\ REPORT_PAGE_DATA \in Nat \ {0}
  /\ PAGE_COUNT \in Nat /\ PAGE_COUNT >= 3 /\ PAGE_COUNT % SECTOR_PAGES = 0
ASSUME StoreAssumed == StoreAssumption

PageNumbers == 0..(PAGE_COUNT - 1)

\* log_page_t, and the two ways a page can be no record.
Page(magic, index, data) == [magic |-> magic, index |-> index, data |-> data]
Erased == Page("ERASED", 0, <<>>)
Torn == Page("TORN", 0, <<>>)

VARIABLES
  flash,        \* the journal's pages
  next, active, \* store.next, store.active
  job,          \* the operation under way
  sector,       \* the sector the erase has come to
  rest,         \* what report_store_append has still to write
  answer        \* what the operation returned

storeVars == <<next, active, job, sector, rest, answer>>

StoreInit ==
  /\ flash = [i \in PageNumbers |-> Erased]
  /\ next = 0 /\ active = FALSE
  /\ job = "none" /\ sector = 0 /\ rest = <<>> /\ answer = "none"

-----------------------------------------------------------------------------
(* write_page: program the next page and read it back                       *)

\* The page reads back as it was meant.
Page_written_ErasesSector(magic, data) ==
  /\ next < PAGE_COUNT
  /\ flash' = [i \in PageNumbers |->
                 IF i = next THEN Page(magic, next, data)
                 ELSE IF i \div SECTOR_PAGES = next \div SECTOR_PAGES THEN Erased ELSE flash[i]]
  /\ next' = next + 1
Page_written(magic, data) ==
  /\ next < PAGE_COUNT /\ flash[next] = Erased
  /\ flash' = [flash EXCEPT ![next] = Page(magic, next, data)]
  /\ next' = next + 1

\* The journal is full, flash_safe_execute reports an error, before or after it
\* ran, or the page reads back differently.  A page can be programmed only once.
Page_failed(magic, data) ==
  /\ UNCHANGED next
  /\ \/ UNCHANGED flash
     \/ next < PAGE_COUNT /\ flash' = [flash EXCEPT ![next] = Torn]
     \/ /\ next < PAGE_COUNT /\ flash[next] = Erased
        /\ flash' = [flash EXCEPT ![next] = Page(magic, next, data)]

Return(result) == job' = "none" /\ answer' = result /\ rest' = <<>>

-----------------------------------------------------------------------------
(* The operations.  Each begins with a call and ends with its answer.       *)

report_store_begin ==
  /\ active' = FALSE /\ next' = 0
  /\ job' = "erase" /\ sector' = 0 /\ answer' = "none"
  /\ UNCHANGED <<flash, rest>>

InSector(i) == i \div SECTOR_PAGES = sector
ErasedSector == [i \in PageNumbers |-> IF InSector(i) THEN Erased ELSE flash[i]]

LastSector_TooEarly == sector + 1 >= PAGE_COUNT \div SECTOR_PAGES - 1
LastSector == sector + 1 = PAGE_COUNT \div SECTOR_PAGES

\* report_flash_erase: one sector.
EraseSector ==
  /\ job = "erase" /\ UNCHANGED <<next, active, rest>>
  /\ \/ /\ flash' = ErasedSector
        /\ IF LastSector THEN job' = "start" /\ UNCHANGED sector
                         ELSE sector' = sector + 1 /\ UNCHANGED job
        /\ UNCHANGED answer
     \/ /\ flash' \in {flash, ErasedSector}
        /\ job' = "none" /\ answer' = "failed" /\ UNCHANGED sector

WriteStart ==
  /\ job = "start" /\ UNCHANGED sector
  /\ \/ Page_written("START", <<>>) /\ active' = TRUE /\ Return("ok")
     \/ Page_failed("START", <<>>) /\ UNCHANGED active /\ Return("failed")

report_store_append(data) ==
  /\ UNCHANGED <<flash, next, active, sector>>
  /\ IF active THEN job' = "append" /\ rest' = data /\ answer' = "none"
               ELSE job' = "none" /\ rest' = <<>> /\ answer' = "failed"

Smaller(a, b) == IF a < b THEN a ELSE b
Chunk == SubSeq(rest, 1, Smaller(Len(rest), REPORT_PAGE_DATA))
AfterChunk == SubSeq(rest, Len(Chunk) + 1, Len(rest))

\* The final page is kept for the end marker.
RoomForData_Unreserved == next < PAGE_COUNT
RoomForData == next < PAGE_COUNT - 1

WriteChunk ==
  /\ job = "append" /\ UNCHANGED sector
  /\ \/ /\ RoomForData /\ Page_written("DATA", Chunk)
        /\ UNCHANGED active
        /\ IF AfterChunk = <<>> THEN Return("ok")
                                ELSE rest' = AfterChunk /\ UNCHANGED <<job, answer>>
     \/ /\ IF RoomForData THEN Page_failed("DATA", Chunk) ELSE UNCHANGED <<flash, next>>
        /\ active' = FALSE /\ Return("failed")

report_store_finish ==
  /\ UNCHANGED <<flash, next, active, sector, rest>>
  /\ IF active THEN job' = "finish" /\ answer' = "none"
               ELSE job' = "none" /\ answer' = "failed"

WriteEnd ==
  /\ job = "finish" /\ UNCHANGED sector /\ active' = FALSE
  /\ \/ Page_written("END", <<>>) /\ Return("ok")
     \/ Page_failed("END", <<>>) /\ Return("failed")

StoreStep == EraseSector \/ WriteStart \/ WriteChunk \/ WriteEnd

\* Power is cut: the flash stays, but for what was being erased or programmed.
UnderProgram ==
  CASE job = "start"  -> {Page("START", next, <<>>), Torn}
    [] job = "append" /\ RoomForData -> {Page("DATA", next, Chunk), Torn}
    [] job = "finish" -> {Page("END", next, <<>>), Torn}
    [] OTHER          -> {}

LosePower ==
  /\ next' = 0 /\ active' = FALSE
  /\ job' = "none" /\ sector' = 0 /\ rest' = <<>> /\ answer' = "none"
  /\ \/ UNCHANGED flash
     \/ /\ next < PAGE_COUNT /\ flash[next] = Erased
        /\ \E left \in UnderProgram : flash' = [flash EXCEPT ![next] = left]
     \/ /\ job = "erase"
        /\ \E left \in [{i \in PageNumbers : InSector(i)} -> {"old", "erased", "torn"}] :
             flash' = [i \in PageNumbers |->
                         IF ~InSector(i) \/ left[i] = "old" THEN flash[i]
                         ELSE IF left[i] = "erased" THEN Erased ELSE Torn]

-----------------------------------------------------------------------------
(* report_store_replay: what the journal shows                              *)

Valid(i, magic) == flash[i].magic = magic /\ flash[i].index = i

RunFound == Valid(0, "START")
DataPage(i) == Valid(i, "DATA") /\ flash[i].data # <<>>

\* The data pages it emits: up to the first that is not a good one.
Emitted ==
  IF RunFound THEN {i \in PageNumbers \ {0} : \A j \in 1..i : DataPage(j)} ELSE {}

\* The page it stops at is the end marker.
SaysComplete ==
  \E i \in PageNumbers \ {0} : RunFound /\ Valid(i, "END") /\ Emitted = 1..(i - 1)

-----------------------------------------------------------------------------
\* Every page of the journal is erased, torn or a record at its own index, and the
\* store's counters have their types.
StoreTypeOK ==
  /\ \A i \in PageNumbers :
       \/ flash[i] \in {Erased, Torn}
       \/ flash[i].magic = "DATA" /\ flash[i].index = i /\ flash[i].data \in Seq(Text) \ {<<>>}
       \/ flash[i].magic \in {"START", "END"} /\ flash[i].index = i /\ flash[i].data = <<>>
  /\ next \in 0..PAGE_COUNT /\ active \in BOOLEAN
  /\ job \in {"none", "erase", "start", "append", "finish"}
  /\ sector \in 0..(PAGE_COUNT \div SECTOR_PAGES - 1)
  /\ rest \in Seq(Text) /\ (job = "append" => rest # <<>>)
  /\ answer \in {"none", "ok", "failed"}

\* A journal that still accepts text can always be closed: the page for the end
\* marker is free however much was appended.
EndHasRoom == active => next < PAGE_COUNT /\ \A i \in next..(PAGE_COUNT - 1) : flash[i] = Erased
=============================================================================
