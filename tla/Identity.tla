------------------------------ MODULE Identity -------------------------------
(***************************************************************************)
(* What a persona says of itself (vqa40x-core/src/identity.rs): the summary  *)
(* the transport lists, the descriptors and strings of both personas, and    *)
(* the control requests answered from them.                                *)
(*                                                                         *)
(* A descriptor is a record of its length in bytes and of the fields by which *)
(* a host finds the next one.  A string is a text and its number of UTF-16   *)
(* units.                                                                  *)
(***************************************************************************)
EXTENDS Integers, Sequences, FiniteSets

Least(a, b) == IF a <= b THEN a ELSE b

\* Nothing is served under this name.
Absent == [len |-> 0]

-----------------------------------------------------------------------------
(* The parts of descriptors. *)

DeviceDescriptor(bcdUsb, vid, pid, strings) ==
    [len |-> 18, bcdUsb |-> bcdUsb, vid |-> vid, pid |-> pid, strings |-> strings]

\* A configuration of one interface: header, interface, class descriptors, and
\* the endpoints at seven bytes each.  wTotalLength is patched in at the end.
ConfigDescriptor(iface, classLen, reportLen, eps) ==
    LET total == 9 + 9 + classLen + 7 * Cardinality(eps)
    IN  [len |-> total, total |-> total, ifaces |-> <<iface>>, reportLen |-> reportLen,
         numEndpoints |-> Cardinality(eps), eps |-> eps]

\* UTF-16 text; the length byte is one byte.
StringDescriptor(s) ==
    [len |-> 2 + 2 * s.units, bLength |-> (2 + 2 * s.units) % 256, text |-> s.text]

Languages == [len |-> 4, bLength |-> 4, text |-> "en-US"]

\* DeviceInterfaceGUIDs and the GUID it lists, NUL-terminated UTF-16; the list
\* ends with another NUL.
RegProperty == LET name == 2 * (20 + 1)
                   data == 2 * (38 + 1) + 2
               IN  2 + 2 + 2 + 2 + name + 2 + data

CompatibleId == 20

\* Mutant of SetLength: the set header is not counted.
SetLengthWithoutHeader == CompatibleId + RegProperty

\* wTotalLength of the descriptor set, announced by it and by the BOS.
SetLength == 10 + CompatibleId + RegProperty

\* The MS OS 2.0 set, and the BOS whose platform capability announces it.
MsOs20(vendorCode) ==
    [vendorCode |-> vendorCode,
     bos |-> [len |-> 33, total |-> 33, setLength |-> SetLength, vendorCode |-> vendorCode],
     set |-> [len |-> 10 + CompatibleId + RegProperty, binds |-> "WINUSB"]]

ReportDescriptor == [len |-> 7 + 4 * 15 + 1]

-----------------------------------------------------------------------------
(* The two identities. *)

InOut(n) == {<<d, i>> : d \in {"in", "out"}, i \in 1..n}

AnalyzerIdentity(vid, pid, product, serial) ==
    [summary  |-> [vid |-> vid, pid |-> pid, speed |-> "high", ifaces |-> <<"vendor">>],
     device   |-> DeviceDescriptor(513, vid, pid, 3),
     config   |-> ConfigDescriptor("vendor", 0, 0, InOut(3)),
     strings  |-> <<[text |-> "QuantAsylum", units |-> 11], product, serial>>,
     report   |-> Absent,
     msos     |-> {MsOs20(32)}]

BootloaderIdentity ==
    [summary  |-> [vid |-> "1FC9", pid |-> "0022", speed |-> "full", ifaces |-> <<"hid">>],
     device   |-> DeviceDescriptor(512, "1FC9", "0022", 2),
     config   |-> ConfigDescriptor("hid", 9, ReportDescriptor.len, InOut(1)),
     strings  |-> <<[text |-> "NXP Semiconductor Inc.", units |-> 22],
                    [text |-> "USB COMPOSITE DEVICE", units |-> 20]>>,
     report   |-> ReportDescriptor,
     msos     |-> {}]

-----------------------------------------------------------------------------
(* Control requests.  The answer to one is the descriptor it is cut from and   *)
(* the number of bytes that are left of it; a stall and a request that means  *)
(* nothing are the same to a host.                                         *)

Stall == [ok |-> FALSE, of |-> Absent, n |-> 0]
Reply(d, length) == [ok |-> TRUE, of |-> d, n |-> Least(d.len, length)]

\* string_descriptor: index 0 lists the languages, the others count from 1.
StringAt(id, index) ==
    CASE index = 0                 -> Languages
      [] index \in DOMAIN id.strings -> StringDescriptor(id.strings[index])
      [] OTHER                     -> Absent

Descriptor(id, type, index) ==
    CASE type = "device"    -> id.device
      [] type = "config"    -> id.config
      [] type = "string"    -> StringAt(id, index)
      [] type = "bos"       -> IF id.msos = {} THEN Absent ELSE (CHOOSE m \in id.msos : TRUE).bos
      [] type = "qualifier" -> IF id.summary.speed = "high" THEN [len |-> 10] ELSE Absent
      [] type = "report"    -> id.report
      [] OTHER              -> Absent

\* handle_standard: descriptors, and the request that sets the configuration.
HandleStandard(id, setup) ==
    IF setup.req = "SET_CONFIGURATION" THEN Reply(Absent, 0)
    ELSE LET d == Descriptor(id, setup.type, setup.index)
         IN  IF d = Absent THEN Stall ELSE Reply(d, setup.length)

\* handle_vendor: the MS OS 2.0 set, under the vendor code the BOS announces.
HandleVendor(id, setup) ==
    LET found == {m \in id.msos : m.vendorCode = setup.index}
    IN  IF found = {} THEN Stall ELSE Reply((CHOOSE m \in found : TRUE).set, setup.length)

\* The analyzer asks both; the bootloader, which has no MS OS set, the first.
Control(id, setup) ==
    IF setup.req = "VENDOR" THEN HandleVendor(id, setup) ELSE HandleStandard(id, setup)
=============================================================================
