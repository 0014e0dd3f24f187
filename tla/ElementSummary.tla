---------------------------- MODULE ElementSummary ----------------------------
(***************************************************************************)
(* qt_element_summary.cpp: what the Qt worker says of an object according  *)
(* to its class.  Each function is a chain of casts, or of searches in the *)
(* name of a Qt Quick class, of which the first that fits decides.  The    *)
(* classes are those the chains name, and some that derive from them.  The *)
(* texts of a summary are left out.                                        *)
(***************************************************************************)
EXTENDS Naturals, Sequences

\* The class each class derives from, as far as the casts can tell.
Base ==
    [QTimer |-> "QObject",
     QWidget |-> "QObject", QMenu |-> "QWidget", QDialog |-> "QWidget",
     QGraphicsView |-> "QWidget",
     QAbstractButton |-> "QWidget", QPushButton |-> "QAbstractButton",
     QCheckBox |-> "QAbstractButton", QRadioButton |-> "QAbstractButton",
     QLineEdit |-> "QWidget", QPlainTextEdit |-> "QWidget",
     QTextEdit |-> "QWidget", QTextBrowser |-> "QTextEdit",
     QComboBox |-> "QWidget", QFontComboBox |-> "QComboBox",
     QTabWidget |-> "QWidget", QTabBar |-> "QWidget",
     QListView |-> "QWidget", QListWidget |-> "QListView",
     QTreeView |-> "QWidget", QTreeWidget |-> "QTreeView",
     QTableView |-> "QWidget", QTableWidget |-> "QTableView",
     QAbstractSlider |-> "QWidget", QDial |-> "QAbstractSlider",
     QAbstractSpinBox |-> "QWidget", QSpinBox |-> "QAbstractSpinBox",
     QDoubleSpinBox |-> "QAbstractSpinBox", QDateTimeEdit |-> "QAbstractSpinBox",
     QDateEdit |-> "QDateTimeEdit", QTimeEdit |-> "QDateTimeEdit",
     QProgressBar |-> "QWidget", QLabel |-> "QWidget", QGroupBox |-> "QWidget",
     QWindow |-> "QObject", QQuickWindow |-> "QWindow",
     QQuickItem |-> "QObject", QQuickText |-> "QQuickItem",
     QQuickTextInput |-> "QQuickItem", QQuickTextEdit |-> "QQuickItem",
     QQuickTextField |-> "QQuickTextInput", QQuickAbstractButton |-> "QQuickItem",
     QQuickCheckBox |-> "QQuickAbstractButton", QQuickRadioButton |-> "QQuickAbstractButton",
     QQuickSlider |-> "QQuickItem", QQuickListView |-> "QQuickItem",
     QQuickTableView |-> "QQuickItem"]

Class == DOMAIN Base \cup {"QObject"}

bases(S) == S \cup {Base[c] : c \in S \ {"QObject"}}

\* A class and those it derives from, of which there are at most four.
lineage == [c \in Class |-> bases(bases(bases(bases({c}))))]

\* qobject_cast and dynamic_cast.
castsTo(c, k) == k \in lineage[c]

\* The words of the chain of quickControlTypeFor that the name of a class contains.
Words ==
    [QQuickText |-> {"Text"}, QQuickTextInput |-> {"TextInput", "Text"},
     QQuickTextEdit |-> {"TextEdit", "Text"}, QQuickTextField |-> {"Text"},
     QQuickAbstractButton |-> {"Button"}, QQuickCheckBox |-> {"CheckBox"},
     QQuickRadioButton |-> {"RadioButton", "Button"}, QQuickSlider |-> {"Slider"},
     QQuickListView |-> {"ListView"}, QQuickTableView |-> {"TableView"}]

contains(c, word) == c \in DOMAIN Words /\ word \in Words[c]

-----------------------------------------------------------------------------
(* The chains: pairs of what is looked for and what it gives.              *)

\* The entries of a chain that fit, and the one that decides; 0 for none.
fitting(chain, fits(_)) == {i \in DOMAIN chain : fits(chain[i][1])}

decides(chain, fits(_)) ==
    LET F == fitting(chain, fits)
    IN  IF F = {} THEN 0 ELSE CHOOSE i \in F : \A j \in F : i <= j

widgetTypes ==
    <<<<"QCheckBox", "CheckBox">>, <<"QRadioButton", "RadioButton">>,
      <<"QAbstractButton", "Button">>, <<"QLineEdit", "Edit">>, <<"QPlainTextEdit", "Edit">>,
      <<"QTextEdit", "Edit">>, <<"QComboBox", "ComboBox">>, <<"QTabWidget", "TabControl">>,
      <<"QTabBar", "TabControl">>, <<"QListView", "List">>, <<"QTreeView", "Tree">>,
      <<"QTableView", "Table">>, <<"QAbstractSlider", "Slider">>,
      <<"QAbstractSpinBox", "Spinner">>, <<"QProgressBar", "ProgressBar">>,
      <<"QLabel", "Text">>, <<"QGroupBox", "GroupBox">>>>

quickTypes ==
    <<<<"TextInput", "Edit">>, <<"TextEdit", "Edit">>, <<"Button", "Button">>,
      <<"CheckBox", "CheckBox">>, <<"RadioButton", "RadioButton">>, <<"Slider", "Slider">>,
      <<"Text", "Text">>, <<"ListView", "List">>, <<"TableView", "Table">>>>

-----------------------------------------------------------------------------
given(chain, fits(_), otherwise) ==
    LET i == decides(chain, fits) IN IF i = 0 THEN otherwise ELSE chain[i][2]

quickControlTypeFor(c) == given(quickTypes, LAMBDA word : contains(c, word), "Pane")

controlTypeFor(c) ==
    CASE castsTo(c, "QWidget")    -> given(widgetTypes, LAMBDA k : castsTo(c, k), "Pane")
      [] castsTo(c, "QQuickItem") -> quickControlTypeFor(c)
      [] castsTo(c, "QWindow")    -> "Window"
      [] OTHER                    -> "Object"

\* The rectangle is in the coordinates of the screen, with the frame or without it.
summarizeObject(c) ==
    [control_type |-> controlTypeFor(c),
     rect |-> CASE castsTo(c, "QWidget")    -> "widget"
                [] castsTo(c, "QWindow")    -> "frame"
                [] castsTo(c, "QQuickItem") -> "item"
                [] OTHER                    -> "none"]

summarizeTopLevel(c) ==
    IF castsTo(c, "QWidget") THEN [control_type |-> "Window", rect |-> "frame"]
    ELSE summarizeObject(c)

\* A QGraphicsItem has no class; the rectangle is that of the first view.
summarizeGraphicsItem == [control_type |-> "Pane", rect |-> "view"]
=============================================================================
