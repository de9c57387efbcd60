---------------------------- MODULE MCAttachHelper ----------------------------
(* Machines without the driver, and with it and another product's usbip.exe. *)
EXTENDS AttachHelper

Entry(d, s) == [folder |-> d, spelling |-> s]

New == [file |-> [f \in ToSet(RuntimeFiles) |-> "none"], foreign |-> "none", package |-> TRUE,
        filter |-> FALSE, controllers |-> 0, started |-> FALSE, restart |-> FALSE, path |-> <<>>]

Served == [New EXCEPT !.file = [f \in ToSet(RuntimeFiles) |-> "good"], !.filter = TRUE,
                      !.controllers = 1, !.started = TRUE]

SomeMachines ==
  {New, [New EXCEPT !.package = FALSE],
   [Served EXCEPT !.path = <<Entry("own", 2)>>],
   [Served EXCEPT !.foreign = "broken", !.path = <<Entry("foreign", 1), Entry("own", 1)>>],
   [Served EXCEPT !.foreign = "works", !.file = New.file, !.package = FALSE]}
=============================================================================
