------------------------------ MODULE MCMemory ------------------------------
(***************************************************************************)
(* The kernel's memory for TLC: its heap, and the page tables with the     *)
(* pool of early pages.  Neither takes anything from the other, so that    *)
(* each is checked with the other one standing still.                      *)
(***************************************************************************)
EXTENDS Heap, PageTables

VARIABLE side

MCDevices == {<<1, 3>>, <<3, 1>>}
MCBuffers == {<<7, 2>>, <<11, 3>>}
\* No root pointer or one across two pages; no table of tables or one whose entries are in
\* the next page; a list of two tables, the second in one page or two; no TPM, or one whose
\* table is too short, has the base part, or has the log's address too; its registers at the
\* begin of a page, and so near its end that the dump alone or the registers too run over it.
MCFirmwares ==
  {fw \in [rsdp : {0, 3}, sdt : {0, 6}, entries : {<<0, 5>>, <<3, 11>>}, tpm : {0, 5, 11}, length : {2, 3, 4},
           control : {0, 8, 10, 11}, crb : BOOLEAN] :
     IF fw.tpm = 0 THEN fw.length = 2 /\ fw.control = 0 /\ ~fw.crb
     ELSE (fw.control = 0 => ~fw.crb) /\ \E i \in 1..2 : fw.entries[i] = fw.tpm}

\* The side that stands still begins in one of its initial states.
MCInit == /\ side \in {"heap", "tables"} /\ Init /\ TablesInit
          /\ side = "heap" => /\ boot.kind = [g \in Slots |-> "pages"] /\ boot.pool = MaxPool
MCNext == /\ UNCHANGED side
          /\ \/ side = "heap" /\ Next /\ UNCHANGED tables
             \/ side = "tables" /\ TablesNext /\ UNCHANGED vars
MCSpec == MCInit /\ [][MCNext]_<<side, vars, tables>>
=============================================================================
