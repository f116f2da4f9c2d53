----------------------------- MODULE MCHostApp -----------------------------
(* HostApp started over USB and over Wi-Fi, on three kinds of PC: one that  *)
(* is set up, one whose USB access is denied but which has the helper, and  *)
(* one without its loopback device.  In one of them a system call fails.    *)
EXTENDS HostApp

Launch(transport, denied, writable, faults) ==
    [transport |-> transport, paired |-> transport = "lan", denied |-> denied,
     writable |-> writable, helper |-> denied /\ writable, faults |-> faults]
Launches == {Launch("usb", FALSE, TRUE, 0), Launch("lan", FALSE, TRUE, 1),
             Launch("usb", TRUE, TRUE, 0), Launch("usb", TRUE, FALSE, 0),
             Launch("lan", FALSE, FALSE, 0)}
=============================================================================
