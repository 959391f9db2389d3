------------------------------ MODULE MC_Traps ------------------------------
(***************************************************************************)
(* Traps for two processors, exceptions with and without an error code and *)
(* without a gate, and buffers that cut the longer messages.               *)
(***************************************************************************)
EXTENDS Traps

CONSTANTS c1, c2

Processors == {c1, c2}

Case(format, arguments, meaning) == [fmt |-> format, args |-> arguments, means |-> meaning]

Given ==
  { Case("acpi madt not found", <<>>, "acpi madt not found"),
    Case("%s", <<"hive">>, "hive"),
    Case("cpu %d of %04d", <<0, 42>>, "cpu 0 of 0042"),
    Case("%p=%x%%", <<4096, 4096>>, "0x0000000000001000=1000%"),
    Case("%c%02d%d%q", <<"x", 7, -12>>, "x07-12") }

Decimal == { Case("%d", <<n[1]>>, n[2]) : n \in {<<0, "0">>, <<-7, "-7">>, <<10, "10">>, <<-1905, "-1905">>} }
Hexadecimal == { Case("%x", <<n[1]>>, n[2]) : n \in {<<0, "00">>, <<11, "0B">>, <<16, "10">>, <<48879, "BEEF">>} }

MCReasons == Given \cup Decimal \cup Hexadecimal
=============================================================================
