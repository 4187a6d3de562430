-------------------------------- MODULE CpOta --------------------------------
(***************************************************************************)
(* wifi_cp_ota.c: at every boot the coprocessor's version is compared with  *)
(* the pinned one, and if it differs the image in the slave_fw partition is *)
(* sent in chunks, activated, and the host restarted.  The coprocessor is   *)
(* external: an RPC may fail, and an image that did not arrive whole is     *)
(* refused when the transfer ends.                                          *)
(***************************************************************************)
EXTENDS Integers

CONSTANTS
    Versions,      \* the ESP-Hosted versions there are
    Pinned,        \* expected_major.minor.patch
    Images,        \* what may be in the partition: [version, total, hashed]
    PartitionSize,
    ChunkSize,     \* CHUNK_SIZE
    MaxRpcFailures \* bound: calls to the coprocessor, or reads, that fail

NoImage == [version |-> Pinned, total |-> 0, hashed |-> FALSE]

ASSUME CpOtaAssumption ==
    /\ Pinned \in Versions
    /\ Images \subseteq [version : Versions, total : Nat, hashed : BOOLEAN]
    /\ PartitionSize \in Nat /\ ChunkSize \in Nat \ {0} /\ MaxRpcFailures \in Nat

VARIABLES
    image,         \* in the partition; NoImage if there is none or no magic
    cpFirmware,    \* the version the coprocessor runs
    cpStaged,      \* the version it has received whole, or "none"
    otaPc,         \* where wifi_cp_ota_update_if_needed() is
    otaOffset,     \* bytes sent
    rpcFailures

cpOtaVars == <<image, cpFirmware, cpStaged, otaPc, otaOffset, rpcFailures>>

-----------------------------------------------------------------------------
Padding(t) == (16 - (t % 16)) % 16

MutantImageSize(img) == img.total + Padding(img.total) + 1    \* the digest is forgotten

\* What parse_image_header() makes of the headers; total is their sum.
ImageSize(img) ==
    LET summed == img.total + Padding(img.total) + 1
    IN  IF img.hashed THEN summed + Padding(summed) + 32 ELSE summed

\* The image as the build lays it out: the checksum is the last byte of a block
\* of 16, the digest follows.
TrueLength(img) ==
    LET summed == 16 * ((img.total + 16) \div 16)
    IN  IF img.hashed THEN summed + 32 ELSE summed

\* The headers, the sums and the partition do not change: an image too large
\* for it and one that is not there are both left alone.
Pushable(img) == img # NoImage /\ ImageSize(img) <= PartitionSize

CpOtaTypeOK ==
    /\ image \in Images \cup {NoImage} /\ cpFirmware \in Versions
    /\ cpStaged \in Versions \cup {"none"}
    /\ otaPc \in {"boot", "version", "begin", "sending", "ending", "activate", "restart", "done"}
    /\ otaOffset \in 0..PartitionSize /\ (otaPc = "sending" => otaOffset < ImageSize(image))
    /\ rpcFailures \in 0..MaxRpcFailures

CpOtaInit ==
    /\ image \in Images \cup {NoImage} /\ cpFirmware \in Versions
    /\ cpStaged = "none" /\ otaPc = "boot" /\ otaOffset = 0 /\ rpcFailures = 0

-----------------------------------------------------------------------------
OtaAt(from, to) == otaPc = from /\ otaPc' = to

Succeeds == UNCHANGED rpcFailures
Fails == rpcFailures < MaxRpcFailures /\ rpcFailures' = rpcFailures + 1

\* The partition, its headers, their sizes.
ReadHeader ==
    /\ \/ OtaAt("boot", IF Pushable(image) THEN "version" ELSE "done") /\ Succeeds
       \/ OtaAt("boot", "done") /\ Fails
    /\ UNCHANGED <<image, cpFirmware, cpStaged, otaOffset>>

\* A version that cannot be read is taken for an old one.
CompareVersion ==
    /\ \/ OtaAt("version", IF cpFirmware = Pinned THEN "done" ELSE "begin") /\ Succeeds
       \/ OtaAt("version", "begin") /\ Fails
    /\ UNCHANGED <<image, cpFirmware, cpStaged, otaOffset>>

Begin ==
    /\ \/ OtaAt("begin", "sending") /\ Succeeds
       \/ OtaAt("begin", "done") /\ Fails
    /\ cpStaged' = "none" /\ otaOffset' = 0
    /\ UNCHANGED <<image, cpFirmware>>

\* A chunk is read and sent; after a failure the transfer is ended there.
SendChunk ==
    LET next == IF otaOffset + ChunkSize < ImageSize(image)
                THEN otaOffset + ChunkSize ELSE ImageSize(image)
    IN  /\ \/ /\ OtaAt("sending", IF next = ImageSize(image) THEN "ending" ELSE "sending")
              /\ otaOffset' = next /\ Succeeds
           \/ OtaAt("sending", "done") /\ Fails /\ UNCHANGED otaOffset
        /\ UNCHANGED <<image, cpFirmware, cpStaged>>

\* The coprocessor checks that the image is whole.
End ==
    /\ IF otaOffset >= TrueLength(image)
       THEN \/ OtaAt("ending", "activate") /\ cpStaged' = image.version /\ Succeeds
            \/ OtaAt("ending", "done") /\ UNCHANGED cpStaged /\ Fails
       ELSE OtaAt("ending", "done") /\ UNCHANGED cpStaged /\ Succeeds
    /\ UNCHANGED <<image, cpFirmware, otaOffset>>

\* The host is restarted even if the activation fails.
Activate ==
    /\ \/ OtaAt("activate", "restart") /\ cpFirmware' = cpStaged /\ Succeeds
       \/ OtaAt("activate", "restart") /\ UNCHANGED cpFirmware /\ Fails
    /\ UNCHANGED <<image, cpStaged, otaOffset>>

RestartHost ==
    /\ OtaAt("restart", "boot")
    /\ otaOffset' = 0
    /\ UNCHANGED <<image, cpFirmware, cpStaged, rpcFailures>>

CpOtaNext ==
    \/ ReadHeader \/ CompareVersion \/ Begin \/ SendChunk \/ End \/ Activate \/ RestartHost

\* Every call returns.
CpOtaFairness == WF_cpOtaVars(CpOtaNext)

CpOtaSpec == CpOtaInit /\ [][CpOtaNext]_cpOtaVars /\ CpOtaFairness

-----------------------------------------------------------------------------
\* An image of the pinned version ends the restarts: the boot goes on, with the
\* new firmware on the coprocessor unless the image does not fit or some call
\* failed (wifi_cp_ota.c:61-68, 74-173).  Without a digest the size computed is
\* short by 15 bytes when total is a multiple of 16: such an image is refused.
UpdateEnds ==
    image.version = Pinned /\ image.hashed =>
       <>[](/\ otaPc = "done"
            /\ cpFirmware = Pinned \/ rpcFailures > 0 \/ ~Pushable(image))

=============================================================================
