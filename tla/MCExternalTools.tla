-------------------------- MODULE MCExternalTools --------------------------
(* Two installers, one with --force, and a scan of two files, called in    *)
(* every way; yr may be in the tools directory or on the PATH.             *)
EXTENDS ExternalTools

MCPlaces == <<"tools", "path">>
MCFirst == {Absent, [data |-> "whole", exec |-> TRUE]}
=============================================================================
