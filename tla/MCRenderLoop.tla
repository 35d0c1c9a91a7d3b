---- MODULE MCRenderLoop ----
EXTENDS RenderLoop
====
