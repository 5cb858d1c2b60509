--------------------------- MODULE AddressScanner ---------------------------
(* The address scanner of autopot: whose memory its commands read and when (MemoryScanner), and
   what they find in it (MemorySearch). The second takes the memory of one search as it is, so
   the two share no state. *)
EXTENDS MemoryScanner, MemorySearch

addressScannerVars == <<scannerVars, searchVars>>
AddressScannerInit == ScannerInit /\ SearchInit
AddressScannerNext == \/ ScannerNext /\ UNCHANGED searchVars
                      \/ SearchNext /\ UNCHANGED scannerVars
AddressScannerSpec == AddressScannerInit /\ [][AddressScannerNext]_addressScannerVars

(* The scanner reports what the memory of the right process held: a scan is of one process and of
   one generation (scanner.rs, session.rs), and what it reports was in the memory it read
   (proc_memory.rs, scanner.rs). *)
ScannerIsSound == ScanSound /\ SearchIsSound
=============================================================================
