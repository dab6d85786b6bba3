--------------------------- MODULE DevicePromise ----------------------------
(***************************************************************************)
(* What the device grant promises, over the decisions that were made on a  *)
(* device and the tokens it got (device.rs, handle_device_code).           *)
(***************************************************************************)
EXTENDS Requests, Naturals

CONSTANT Devices

VARIABLES
    said,       \* users who pressed Approve for each device
    last,       \* the last decision stored for each device
    minted      \* how often tokens were minted for each device

\* However often and concurrently a device polls, it gets tokens once ("Atomically consume the
\* approved device code before minting tokens").
MintedOnce == \A d \in Devices : minted[d] <= 1

\* Tokens go to a device for the user whose approval was the last decision stored for it: no
\* decision slips in between the poll's read and its conditional delete, or after it.
MintsLastDecision ==
    \A p \in Procs : At(p, "mint") =>
        last[req[p].dev] = [st |-> "approved", user |-> req[p].user]

\* "the device is NOT approved here" (create_approval): tokens go only to a device whose user
\* pressed Approve on the confirmation page; logging in is not enough.
MintsForApprover == \A p \in Procs : At(p, "mint") => req[p].user \in said[req[p].dev]
=============================================================================
