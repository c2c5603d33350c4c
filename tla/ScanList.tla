------------------------------ MODULE ScanList ------------------------------
(***************************************************************************)
(* Manual provisioning of the gateway: bmt_scan_list.c, driven by the UART *)
(* commands s, p, a and m of bmt_uart.c.  The UART task runs one command   *)
(* at a time and blocks inside it: 's' keeps it for the ten seconds of the *)
(* scan, 'p' for one 500 ms delay per listed device.  The operators below  *)
(* are the commands' effect on the list; Provisioning composes them with   *)
(* the node table and the mesh stack.                                      *)
(***************************************************************************)
EXTENDS Naturals, FiniteSets

CONSTANTS
  Node,         \* the devices, by UUID
  MaxScanList   \* BMT_MAX_SCAN_LIST

VARIABLES
  mode,         \* s_mode
  scanning,     \* s_scanning
  list,         \* the UUIDs in s_list[0 .. s_count-1]
  todo          \* what the loop of bmt_scan_list_provision has still to visit

scanVars == <<mode, scanning, list, todo>>

ScanTypeOK ==
  /\ mode \in {"AUTO", "MANUAL"}
  /\ scanning \in BOOLEAN
  /\ list \in SUBSET Node
  /\ todo \in SUBSET Node

ScanInit == mode = "AUTO" /\ scanning = FALSE /\ list = {} /\ todo = {}

\* A restart of the gateway: all of it is RAM.
ScanReboot == mode' = "AUTO" /\ scanning' = FALSE /\ list' = {} /\ todo' = {}

\* The UART task is back in its read loop.
UartIdle == ~scanning /\ todo = {}

\* Commands 'a' and 'm'.
ScanSetMode(m) ==
  /\ UartIdle
  /\ mode' = m
  /\ list' = IF m = "AUTO" THEN {} ELSE list
  /\ UNCHANGED <<scanning, todo>>

\* Command 's', up to its vTaskDelay ...
ScanStart ==
  /\ UartIdle
  /\ mode' = "MANUAL" /\ scanning' = TRUE /\ list' = {}
  /\ UNCHANGED todo

\* ... and after it.
ScanDone ==
  /\ scanning
  /\ scanning' = FALSE
  /\ UNCHANGED <<mode, list, todo>>

\* bmt_scan_list_add, called for every unprovisioned beacon in MANUAL mode.
ScanAdd(u) ==
  /\ scanning
  /\ u \notin list
  /\ Cardinality(list) < MaxScanList
  /\ list' = list \cup {u}
  /\ UNCHANGED <<mode, scanning, todo>>

\* Command 'p' enters its loop.
ScanProvision ==
  /\ UartIdle
  /\ mode = "MANUAL"
  /\ todo' = list
  /\ UNCHANGED <<mode, scanning, list>>

\* One turn of the loop, for a device it has not visited.
ScanVisit(u) ==
  /\ u \in todo
  /\ todo' = todo \ {u}
  /\ UNCHANGED <<mode, scanning, list>>
=============================================================================
