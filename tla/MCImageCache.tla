---------------------------- MODULE MCImageCache ----------------------------
(***************************************************************************)
(* Small instances of ImageCache.  Every disk image has an address of its  *)
(* own; the boot image is the same version for all.                        *)
(***************************************************************************)
EXTENDS ImageCache

MCUrl == [c \in Clients |-> IF c \in IsoClients THEN "boot" ELSE c]

(* Images are written in two blocks, what comes first is one. *)
MCSize == [u \in Urls |-> IF u \in {Url[c] : c \in FileClients} THEN 2 ELSE 1]

(* A disk image is asked for again, after a crash or a failed download. *)
MCCalls == [c \in Clients |-> IF c \in DiskClients THEN 2 ELSE 1]
=============================================================================
