--------------------------- MODULE MCEditorReports ----------------------------
EXTENDS EditorReports
================================================================================
