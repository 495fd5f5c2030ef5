---------------------------- MODULE MCLiveSession ----------------------------
(* LiveSession with one operator, one sandboxed peer that also connects,     *)
(* two paths, a host written in two ways, a secret of every launch, and      *)
(* patches of every axis.                                                    *)
EXTENDS LiveSession

CONSTANTS operator, workload, p, q, host, HostUrl, agent, token

MCNormal == [d \in {host, HostUrl} |-> host]
MCLaunch == [read |-> {}, write |-> {}, net |-> {HostUrl}]
MCRules == [allow |-> {}, blocked |-> {}]
Nothing == [add_read |-> {}, add_write |-> {}, add_allow |-> {}, add_net |-> {},
            remove_net |-> {}, add_allow_command |-> {},
            remove_allow_command |-> {}, add_block_command |-> {},
            remove_block_command |-> {}]
MCPatches == {[Nothing EXCEPT !.add_allow = {p}],
              [Nothing EXCEPT !.add_read = {q}, !.remove_net = {HostUrl}],
              [Nothing EXCEPT !.add_write = {q}, !.add_net = {HostUrl}],
              [Nothing EXCEPT !.add_block_command = {agent}]}
=============================================================================
