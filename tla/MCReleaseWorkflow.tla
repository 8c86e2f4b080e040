-------------------------- MODULE MCReleaseWorkflow --------------------------
EXTENDS ReleaseWorkflow
=============================================================================
