----------------------------- MODULE MCHardware -----------------------------
(***************************************************************************)
(* Small machines for Hardware: the collector and one request for /data/   *)
(* call Gather, up to two pages are opened.                                *)
(***************************************************************************)
EXTENDS Hardware

Look(i, devs, until, g, p, c) ==
    [input |-> i, devices |-> devs, time |-> until, gathers |-> g, pages |-> p, changes |-> c]

MCSetups ==
    { \* two calls that overlap, and two more, each alone
      Look("net", {1}, 3, 4, 0, 0), Look("diskio", {1}, 3, 3, 1, 0), Look("system", {1}, 3, 4, 1, 0),
      Look("procstat", {1}, 3, 4, 0, 0),
      \* a device comes or goes
      Look("net", {1, 2}, 2, 2, 1, 1), Look("diskio", {1, 2}, 1, 2, 1, 1),
      Look("procstat", {1, 2}, 2, 2, 1, 2), Look("disk", {1, 2, 3}, 1, 2, 2, 1),
      \* two pages at once, and a disk that the filter does not match
      Look("diskio", {2, 3}, 1, 1, 2, 1) }
=============================================================================
