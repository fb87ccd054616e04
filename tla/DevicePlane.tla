----------------------------- MODULE DevicePlane -----------------------------
(***************************************************************************)
(* The control plane's device authority for one tenant                       *)
(* (M5EnrollmentEntitlementControlPlane): one-time enrollment codes, device   *)
(* credentials with a version, revocation, and the counter of the events       *)
(* that tells a Gateway that something may have changed.                      *)
(*                                                                         *)
(* Each action is one Postgres transaction.  A token is not modelled: the     *)
(* plane accepts the current one, or the previous one within its grace, and   *)
(* answers with the current version either way; a refused token changes       *)
(* nothing.                                                                 *)
(***************************************************************************)
EXTENDS Naturals, FiniteSets

CONSTANTS Device,
          Enrolled,     \* the devices enrolled before this Gateway started
          MaxHead,      \* bound: authority events of the tenant
          MaxVersion    \* bound: credential versions of a device

ASSUME PlaneAssumption ==
    /\ IsFiniteSet(Device) /\ Enrolled \subseteq Device
    /\ MaxHead \in Nat /\ MaxVersion \in Nat \ {0}

VARIABLES code,     \* per device, its latest enrollment code
          dev,      \* per device, devices.status and device_credentials.version
          head      \* security_events of M5_DEVICE_AUTHORITY_EVENT_TYPES

planeVars == <<code, dev, head>>

NoDevice == [status |-> "none", version |-> 0]
\* The snapshot also asks for users.status = "active"; nothing in the repository changes
\* it, so it is taken as active throughout.
ActiveAt(v) == [status |-> "active", version |-> v]

PlaneInit ==
    /\ code = [d \in Device |-> IF d \in Enrolled THEN "spent" ELSE "none"]
    /\ dev = [d \in Device |-> IF d \in Enrolled THEN ActiveAt(1) ELSE NoDevice]
    /\ head = Cardinality(Enrolled)

\* #event with a type the head counts, whatever its outcome.
CountedEvent == head < MaxHead /\ head' = head + 1

\* Bound: one code for each device.
mintEnrollmentCode(d) ==
    /\ code[d] = "none"
    /\ code' = [code EXCEPT ![d] = "issued"]
    /\ UNCHANGED <<dev, head>>

exchangeEnrollmentCode(d) ==
    /\ code[d] = "issued"
    /\ dev[d] = NoDevice
    /\ code' = [code EXCEPT ![d] = "spent"]
    /\ dev' = [dev EXCEPT ![d] = ActiveAt(1)]
    /\ CountedEvent

\* A code is presented again, too late or from another machine.
exchangeDenied(d) ==
    /\ code[d] # "none"
    /\ \/ code' = code
       \/ code[d] = "issued" /\ code' = [code EXCEPT ![d] = "spent"]
    /\ CountedEvent
    /\ UNCHANGED dev

\* Rotation does not look at the status of the device.
rotateDeviceCredential(d) ==
    /\ dev[d].version \in 1 .. MaxVersion - 1
    /\ dev' = [dev EXCEPT ![d].version = @ + 1]
    /\ CountedEvent
    /\ UNCHANGED code

\* The event is written, and counted, also when the device was revoked before.
revokeDevice(d) ==
    /\ dev[d] # NoDevice
    /\ dev' = [dev EXCEPT ![d].status = "revoked"]
    /\ CountedEvent
    /\ UNCHANGED code

PlaneNext ==
    \E d \in Device :
        \/ mintEnrollmentCode(d)
        \/ exchangeEnrollmentCode(d)
        \/ exchangeDenied(d)
        \/ rotateDeviceCredential(d)
        \/ revokeDevice(d)
=============================================================================
