------------------------------ MODULE PageTables ------------------------------
(* The tables of paging.c entry by entry: what fill_identity, grant_in and    *)
(* paging_map_page write, and what the CPU makes of it.  Module Paging has    *)
(* who calls them, over pages; here are the addresses.                        *)
EXTENDS Integers

PAGE_SIZE_4K == 4096
PAGES_PER_TABLE == 1024
TABLE_SPAN == 4194304       \* PAGE_SIZE_4K * PAGES_PER_TABLE
NUM_PAGE_TABLES == 8
MAPPED_PAGES == 8192        \* NUM_PAGE_TABLES * PAGES_PER_TABLE
ADDRESSES == 4294967296     \* uint32_t wraps here

(* A page has an entry when its table exists: pt_idx < NUM_PAGE_TABLES.       *)
Entries == {n \in Nat : n < NUM_PAGE_TABLES} \X {n \in Nat : n < PAGES_PER_TABLE}
EntryOf(page) == <<page \div PAGES_PER_TABLE, page % PAGES_PER_TABLE>>
PageOf(addr) == addr \div PAGE_SIZE_4K
HasEntry(page) == page \div PAGES_PER_TABLE < NUM_PAGE_TABLES

(* An entry that is present: the frame and the bits RW and US.                *)
Ptes == [phys : Nat, rw : BOOLEAN, us : BOOLEAN]
Tables == [Entries -> Ptes]

(* fill_identity: every page where it is, for the supervisor.                 *)
IdentityMap ==
    [e \in Entries |->
        [phys |-> e[1] * TABLE_SPAN + e[2] * PAGE_SIZE_4K, rw |-> TRUE, us |-> FALSE]]

(* grant_in: the pages of the loop, which ends at the first without a table.  *)
(* The end of the range is computed in 32 bits.                               *)
EndPage(start, size) == PageOf((start + size + PAGE_SIZE_4K - 1) % ADDRESSES)
LoopPages(start, size) ==
    {p \in Nat : PageOf(start) <= p /\ p < EndPage(start, size) /\ HasEntry(p)}

WithUser(pte, user) == [phys |-> pte.phys, rw |-> pte.rw, us |-> user]

GrantIn(tables, start, size, user) ==
    [e \in Entries |->
        IF \E p \in LoopPages(start, size) : e = EntryOf(p)
        THEN WithUser(tables[e], user)
        ELSE tables[e]]

(* paging_new_address_space and paging_set_shared_code_range.                 *)
NewTables(code_start, code_size) ==
    IF code_size > 0 THEN GrantIn(IdentityMap, code_start, code_size, TRUE) ELSE IdentityMap

(* paging_map_page: FALSE, and nothing done, for an address without an entry. *)
MapPage(tables, virt, phys, user, writable) ==
    IF HasEntry(PageOf(virt))
    THEN [tables EXCEPT ![EntryOf(PageOf(virt))] =
             [phys |-> phys - (phys % PAGE_SIZE_4K), rw |-> writable, us |-> user]]
    ELSE tables

(* space_for, which paging_grant_access, paging_map_page and the switch use:  *)
(* a handle that is none of the processes' means the space of the kernel.     *)
KERNEL_SPACE == -1
SpaceFor(handle) == IF handle < 0 \/ handle >= 8 THEN KERNEL_SPACE ELSE handle

-----------------------------------------------------------------------------
(* The CPU: where an address leads, and whether ring 3 may use or write it.   *)
(* The entries of the directory allow everything.                             *)
Translate(tables, addr) ==
    tables[EntryOf(PageOf(addr))].phys + (addr % PAGE_SIZE_4K)
UserMay(tables, addr) == HasEntry(PageOf(addr)) /\ tables[EntryOf(PageOf(addr))].us
UserMayWrite(tables, addr) == UserMay(tables, addr) /\ tables[EntryOf(PageOf(addr))].rw
=============================================================================
