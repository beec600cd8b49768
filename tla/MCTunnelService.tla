-------------------------- MODULE MCTunnelService --------------------------
(***************************************************************************)
(* A small instance of TunnelService for TLC: the tunnel with its two      *)
(* children, and the video service with its one.                           *)
(***************************************************************************)
EXTENDS TunnelService

CONSTANTS tunnel, video, tunnel_rx, tunnel_tx, video_tx

MCServices  == {tunnel, video}
MCGathering == {tunnel}
MCChild     == {tunnel_rx, tunnel_tx, video_tx}
MCServiceOf == [c \in MCChild |-> IF c = video_tx THEN video ELSE tunnel]
=============================================================================
