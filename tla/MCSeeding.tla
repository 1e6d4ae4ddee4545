------------------------------ MODULE MCSeeding ------------------------------
(* A small instance of Seeding for TLC. *)
EXTENDS Seeding

CONSTANTS primary, fixture, nano, flux, visitor

TwoImages == <<primary, fixture>>

TwoProviders == <<nano, flux>>

\* demo-0000-..., demo-audio-..., demo-provider-flux, ...-nano-banana, demo-video-..., a uuid
Keys == <<primary, fixture, AudioSeed, flux, nano, VideoSeed, visitor>>
=============================================================================
