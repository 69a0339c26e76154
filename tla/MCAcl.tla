------------------------------- MODULE MCAcl -------------------------------
(* An instance of the access list for TLC: a name with a comma and one      *)
(* without, two keys, and bodies with an empty row and one without a        *)
(* comma, with two names for one key, and with two keys of one name.        *)
EXTENDS Acl

MCNames  == {<<3>>, <<3, 4>>}
MCKeys   == {<<1>>, <<2>>}
MCBodies == {<<<<0>>, <<4>>>>, <<<<4, 1>>, <<3, 1>>>>, <<<<3, 2>>, <<3, 1>>>>}
=============================================================================
