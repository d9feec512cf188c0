----------------------------- MODULE DeviceRepo -----------------------------
(***************************************************************************)
(* backend/internal/storage/device_repo.go: the registry of enrolled       *)
(* devices.  Every method is one critical section under the repository's   *)
(* lock, hence one step; what a caller does with two methods is two steps. *)
(*                                                                         *)
(* Of a DeviceRecord the serial and the revocation flag are kept; label,   *)
(* enrolment time and security level are only ever echoed.                 *)
(***************************************************************************)
EXTENDS GoMap

CONSTANTS
    Keys,     \* device key pairs, named by their public key
    Serials   \* certificate serial numbers

VARIABLES
    devices,        \* memoryDeviceRepo.devices: identity -> DeviceRecord
    revokedSerials  \* memoryDeviceRepo.revokedSerials

repoVars == <<devices, revokedSerials>>

LabelFingerprint(key) == <<"sha256", "label">>  \* mutant: of the device label

\* The identity of a device: the hash of its public key.  SHA-256 is taken
\* to be injective.
PublicKeyFingerprint(key) == <<"sha256", key>>

Identities == {PublicKeyFingerprint(k) : k \in Keys}

DeviceRecord == [CertSerial : Serials, IsRevoked : BOOLEAN]

RepoTypeOK ==
    /\ IsMapOf(devices, Identities, DeviceRecord)
    /\ revokedSerials \subseteq Serials

RepoInit == devices = EmptyMap /\ revokedSerials = {}

-----------------------------------------------------------------------------

RegisterDeviceUnlists(identity, serial) ==  \* mutant: enrolling clears revocations
    /\ devices' = Put(devices, identity, [CertSerial |-> serial, IsRevoked |-> FALSE])
    /\ revokedSerials' = revokedSerials \ {serial}

\* Blind overwrite: the record replaces whatever was there.
RegisterDevice(identity, serial) ==
    /\ devices' = Put(devices, identity, [CertSerial |-> serial, IsRevoked |-> FALSE])
    /\ UNCHANGED revokedSerials

\* GetDevice finds a record for the identity; the record itself is
\* devices[identity], returned as a copy.
HasDevice(identity) == identity \in DOMAIN devices

IsDeviceActive(identity) == HasDevice(identity) /\ ~devices[identity].IsRevoked

RevokeDeviceFlagOnly(identity) ==  \* mutant: the current serial is not listed
    /\ HasDevice(identity)
    /\ devices' = [devices EXCEPT ![identity].IsRevoked = TRUE]
    /\ UNCHANGED revokedSerials

\* Flag the device and list its current serial.  An unknown identity is an
\* error and changes nothing.
RevokeDevice(identity) ==
    /\ HasDevice(identity)
    /\ devices' = [devices EXCEPT ![identity].IsRevoked = TRUE]
    /\ revokedSerials' = revokedSerials \cup {devices[identity].CertSerial}

RevokeSerial(serial) ==
    /\ revokedSerials' = revokedSerials \cup {serial}
    /\ UNCHANGED devices

IsSerialRevoked(serial) == serial \in revokedSerials

\* The certificate the registry stands for: what IsDeviceActive, the record
\* and IsSerialRevoked of one moment let in.
CurrentSerial(identity) ==
    IF IsDeviceActive(identity) /\ ~IsSerialRevoked(devices[identity].CertSerial)
    THEN devices[identity].CertSerial
    ELSE Nil

RepoRestartPersistsDevices ==  \* mutant: the records survive, the list does not
    UNCHANGED devices /\ revokedSerials' = {}

\* The repository lives in memory: a restart empties it.
RepoRestart == devices' = EmptyMap /\ revokedSerials' = {}
=============================================================================
