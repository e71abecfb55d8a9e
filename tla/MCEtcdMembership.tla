-------------------------- MODULE MCEtcdMembership --------------------------
(***************************************************************************)
(* EtcdMembership on two controllers.                                    *)
(***************************************************************************)
EXTENDS EtcdMembership, TLC

CONSTANTS a, b

MCNodes == {a, b}
MCFormations == {{a}}
=============================================================================
