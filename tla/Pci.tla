--------------------------------- MODULE Pci ---------------------------------
(***************************************************************************)
(* The PCI configuration space as pci.c reads it: 32-bit registers, each at *)
(* an address made of the bus, the slot, the function and the offset.       *)
(* `space` is what the registers hold: a number for each address.           *)
(***************************************************************************)
EXTENDS Naturals

Word == {n \in Nat : n < 4294967296}
Buses == 0 .. 255
PciSlots == 0 .. 31
Functions == 0 .. 7
Places == Buses \X PciSlots \X Functions
Offsets == {offset \in 0 .. 255 : offset % 4 = 0}

\* pci_make_address
PciAddress(place, offset) ==
    2147483648 + place[1] * 65536 + place[2] * 2048 + place[3] * 256 + (offset - (offset % 4))

\* pci_config_read32
PciRead(space, place, offset) == space[PciAddress(place, offset)]

NOTHING == 65535
VendorId(space, place) == PciRead(space, place, 0) % 65536
DeviceId(space, place) == PciRead(space, place, 0) \div 65536

------------------------------------------------------------------------------
(* pci_find_device                                                          *)

\* A slot whose function 0 is not there is passed over.
Connected(space, place) == VendorId(space, <<place[1], place[2], 0>>) # NOTHING

Sought(space, vendor, device) ==
    {place \in Places :
        /\ Connected(space, place)
        /\ VendorId(space, place) # NOTHING
        /\ VendorId(space, place) = vendor /\ DeviceId(space, place) = device}

\* The order of the three loops.
Visit(place) == place[1] * 256 + place[2] * 8 + place[3]

IsFirst(place, places) ==
    place \in places /\ \A other \in places : Visit(place) <= Visit(other)

\* The low bits say what kind of range it is: ports or memory.
BarBase(bar) == IF bar % 2 = 1 THEN bar - (bar % 4) ELSE bar - (bar % 16)

DeviceAt(space, place) ==
    LET class == PciRead(space, place, 8)
    IN [place |-> place,
        vendor_id |-> VendorId(space, place), device_id |-> DeviceId(space, place),
        class_code |-> class \div 16777216, subclass |-> (class \div 65536) % 256,
        prog_if |-> (class \div 256) % 256,
        bar |-> [i \in 0 .. 5 |-> BarBase(PciRead(space, place, 16 + i * 4))],
        irq_line |-> PciRead(space, place, 60) % 256]

NoDevice == [place |-> <<>>]

PciFindDevice(space, vendor, device) ==
    LET sought == Sought(space, vendor, device)
    IN IF sought = {} THEN NoDevice
       ELSE DeviceAt(space, CHOOSE place \in sought : IsFirst(place, sought))

------------------------------------------------------------------------------
(* pci_enable_bus_mastering                                                 *)

\* Bits 0 and 2 are set: its ports are decoded and it may use the memory.
Mastering(cmd) == cmd + (IF cmd % 2 = 1 THEN 0 ELSE 1)
                      + (IF (cmd \div 4) % 2 = 1 THEN 0 ELSE 4)

EnableBusMastering(space, place) ==
    [space EXCEPT ![PciAddress(place, 4)] = Mastering(PciRead(space, place, 4))]
==============================================================================
