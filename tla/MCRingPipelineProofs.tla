------------------------ MODULE MCRingPipelineProofs ------------------------
EXTENDS RingPipelineProofs, MCRingPipeline
=============================================================================
